-------------------------------- MODULE Node --------------------------------
(***************************************************************************)
(* node.py's LocalNode without storage: the block tree joined with the     *)
(* pending pool.  Every operation runs to its end before the next starts,  *)
(* as the single thread of the asyncio service runs them; what persistence *)
(* adds is the subject of Storage.                                         *)
(***************************************************************************)
EXTENDS BlockTree, Mempool

CONSTANTS
  Blocks,               \* the blocks other nodes may send
  Txs,                  \* the transactions wallets may sign
  Miners,               \* the addresses this node mines for
  BlockLimits,          \* the max_transactions values mine is called with
  MineDelays,           \* seconds between the tip and a block mined on it
  MaxHeight             \* bound: this node mines no block above this height

(* An authentic transaction was signed by a wallet, names two addresses, and
   has an id of its own; addresses and ids are ordered, as sorted needs.  A
   sealed header names an address (see Chain), and its time fits its field. *)
ASSUME NodeAssumption ==
  /\ Addresses \subseteq Int /\ Miners \subseteq Addresses
  /\ \A t \in Txs : /\ t.id \in Int /\ \A u \in Txs : u.id = t.id => u = t
                    /\ t.authentic => t.sender \in Addresses /\ t.recipient \in Addresses
  /\ \A b \in Blocks :
       /\ b.transactions \in Seq(Range(b.transactions))
       /\ b.sealed => b.miner \in Addresses /\ b.timestamp \in 0..U64Max
       /\ \A t \in Range(b.transactions) : t.authentic => t \in Txs
  /\ BlockLimits \subseteq 0..MaxBlockTransactions
  /\ MineDelays \subseteq Nat
  /\ MaxHeight \in Nat

VARIABLES
  chain,                \* LocalNode.chain
  pool                  \* LocalNode.mempool

vars == <<chain, pool>>

state == TipEntry(chain).state
NextHeight == TipEntry(chain).height + 1

Init ==
  /\ chain = EmptyChain
  /\ pool = EmptyPool

(* submit_transaction: a refused transaction changes nothing. *)
SubmitTransaction(tx) ==
  /\ pool' = Add(pool, state, tx, NextHeight)
  /\ UNCHANGED chain

(* send: the wallet signs a transaction with the next free nonce and a
   lifetime of at least one block, and submits it. *)
Send(tx) ==
  LET next == NextNonce(pool, state, tx.sender)
  IN  /\ tx.authentic
      /\ next.ok
      /\ tx.nonce = next.nonce
      /\ tx.validUntil >= NextHeight
      /\ SubmitTransaction(tx)

(***************************************************************************)
(* submit_block.                                                           *)
(***************************************************************************)
TransactionsOf(blocks) == FlattenSeq([i \in DOMAIN blocks |-> blocks[i].transactions])

(* The transactions of the disconnected blocks, oldest first; tip first. *)
ReturnedTipFirst(update) == TransactionsOf(update.disconnected)
ReturnedOldestFirst(update) == TransactionsOf(Reverse(update.disconnected))

(* The last loop: what is confirmed or pending by now is passed over. *)
Return(p, st, tx, height) ==
  IF tx \in st.confirmed \/ tx \in p.txs THEN p ELSE Add(p, st, tx, height)

ReturnEach(p, st, txs, height) ==
  FoldLeft(LAMBDA q, t : Return(q, st, t, height), p, txs)

(* The height a pending transaction would execute at. *)
TipHeight(c) == TipEntry(c).height
ExecutionHeight(c) == TipEntry(c).height + 1

(* What a switch of the active tip to c does to the pool: confirmed
   transactions leave, the rest is revalidated, the transactions of the
   disconnected blocks come back where they are still admissible. *)
Reconcile(p, c, update) ==
  LET st        == TipEntry(c).state
      height    == ExecutionHeight(c)
      kept      == Revalidate(RemoveConfirmed(p, TransactionsOf(update.connected)),
                              st, height)
  IN  ReturnEach(kept, st, ReturnedOldestFirst(update), height)

SubmitBlock(b) ==
  /\ AddOutcome(chain, b) = "accepted"
  /\ LET update == UpdateFor(chain, b) IN
     /\ chain' = AddBlock(chain, b)
     /\ pool' = IF update.becameActive THEN Reconcile(pool, chain', update) ELSE pool

(* A block that add_block refuses changes nothing. *)
RefuseBlock(b) ==
  /\ AddOutcome(chain, b) # "accepted"
  /\ UNCHANGED vars

(***************************************************************************)
(* mine: select, build, seal, submit.  delay is what the timestamp adds to *)
(* the tip's: TargetBlockSeconds unless the caller names a timestamp.      *)
(***************************************************************************)
Template(miner, limit, delay) ==
  BuildCandidate(chain, chain.tip, miner, Select(pool, state, NextHeight, limit),
                 chain.tip.timestamp + delay)

Mine(miner, limit, delay) ==
  /\ NextHeight <= MaxHeight
  /\ LET template == Template(miner, limit, delay)
     IN  IF template.ok THEN SubmitBlock(template.block) ELSE UNCHANGED vars

Next ==
  \/ \E tx \in Txs : SubmitTransaction(tx) \/ Send(tx)
  \/ \E b \in Blocks : SubmitBlock(b) \/ RefuseBlock(b)
  \/ \E miner \in Miners, limit \in BlockLimits, delay \in MineDelays :
       Mine(miner, limit, delay)

Spec == Init /\ [][Next]_vars

-----------------------------------------------------------------------------
known == Known(chain)

(* Type invariant: the pool holds known transactions within its limits, and
   the index maps pairs of a sender and a nonce to pending ones. *)
TypeOK ==
  /\ chain.tip \in known
  /\ pool.txs \subseteq Txs
  /\ Cardinality(pool.txs) <= MaxPool
  /\ \A a \in Addresses : Cardinality(SenderTxs(pool, a)) <= MaxPendingPerSender
  /\ DOMAIN pool.index \subseteq Addresses \X (0..U64Max)

(* The two dictionaries of the pool agree after every operation: a stale key
   would lock a nonce for ever, a missing one would admit a double spend
   (Mempool.add, remove, clear). *)
IndexExact ==
  /\ DOMAIN pool.index = {<<t.sender, t.nonce>> : t \in pool.txs}
  /\ \A t \in pool.txs : pool.index[<<t.sender, t.nonce>>] = t

(* Whatever reorganizations the pool went through, all of it could execute in
   the very next block: each sender's transactions start at its account nonce
   without a gap, are funded together, unexpired and unconfirmed
   (revalidate at height + 1 on the new state). *)
PoolExecutable ==
  LET order == Sorted(pool.txs, PoolOrder)
  IN  ApplyTransactions(state, order, NextHeight).ok

(* A block template is always valid, extends the active tip, and with room for
   it confirms everything that is pending: selection, which executes on a
   working copy, agrees with admission and with block validation. *)
MineConfirmsPool ==
  \A miner \in Miners :
    LET template == Template(miner, Cardinality(pool.txs), TargetBlockSeconds) IN
    Cardinality(pool.txs) <= MaxBlockTransactions =>
      /\ template.ok
      /\ AddOutcome(chain, template.block) = "accepted"
      /\ AddBlock(chain, template.block).tip = template.block
      /\ Range(template.block.transactions) = pool.txs

(* No payment is lost in a reorganization: a transaction of a disconnected
   block is confirmed on the new branch, pending again, or not admissible any
   more to the pool the node ends up with (submit_block's last loop). *)
EligibleReturned ==
  [][chain'.tip # chain.tip =>
       \A t \in state.confirmed :
         \/ t \in state'.confirmed
         \/ t \in pool'.txs
         \/ ~Admits(pool', state', t, NextHeight')]_vars

(* While the active chain only grows, a pending transaction leaves the pool
   only for a cause that still stands afterwards: it is confirmed, expired,
   out of funds, or its nonce is gone (remove_confirmed, revalidate).  A
   reorganization is excluded on purpose: there a pending transaction whose
   predecessor was disconnected is dropped before the predecessor returns. *)
PendingKeptOnExtension ==
  [][chain'.tip \in {chain.tip} \cup {b \in known' : b.prev = chain.tip} =>
       \A t \in pool.txs \ pool'.txs :
         t \in state'.confirmed \/ ~Admits(pool', state', t, NextHeight')]_vars
=============================================================================
