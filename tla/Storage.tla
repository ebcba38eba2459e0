------------------------------- MODULE Storage ------------------------------
(***************************************************************************)
(* The database of storage.py and the processes that use it: nodes, which  *)
(* load the chain and persist every block before it becomes visible, and   *)
(* the command line's `chain validate` and `chain reindex`.  Several       *)
(* processes may have the file open; SQLite serializes their transactions  *)
(* and nothing else coordinates them.                                      *)
(*                                                                         *)
(* A SQLite transaction is one action: it commits as a whole or, when      *)
(* SQLite fails, is rolled back as a whole.  What the code reads outside a *)
(* transaction is a step of its own, so that another process can commit    *)
(* between two such reads.  A process may be killed before any step.       *)
(***************************************************************************)
EXTENDS BlockTree, SequencesExt, Functions

CONSTANTS
  Nodes,                \* processes that run a node
  Validators,           \* processes that run `chain validate`
  Reindexers,           \* processes that run `chain reindex`
  Blocks,               \* the blocks a node may be given
  Damages               \* how often something else may spoil derived data

ASSUME StorageAssumption == Damages \in Nat

Procs == Nodes \cup Validators \cup Reindexers

VARIABLES
  db,                   \* the committed database
  pc,                   \* where each process is
  mem,                  \* the block tree each process holds in memory
  pending,              \* the update a node is about to persist or publish
  damages               \* number of times derived data was spoiled

vars == <<db, pc, mem, pending, damages>>

NoUpdate == [added |-> NoBlock]
Idle == [chain |-> EmptyChain, update |-> NoUpdate]

(***************************************************************************)
(* The database: block rows in acceptance order, each with its BlockRecord *)
(* columns, and the tables derived from the active chain.                  *)
(***************************************************************************)
Record(chain, b) ==
  LET e == chain.entries[b]
  IN  [parent |-> e.parent, height |-> e.height, work |-> e.work, supply |-> e.supply]

Row(chain, b) == [block |-> b, record |-> Record(chain, b)]

(* What _replace_derived_state writes and _validate_derived_state expects. *)
Derived(chain) ==
  LET active == Branch(chain.entries, chain.tip)
  IN  [tip       |-> chain.tip,
       supply    |-> TipEntry(chain).supply,
       canonical |-> active,
       accounts  |-> TipEntry(chain).state.accounts,
       confirmed |-> {c \in TipEntry(chain).state.confirmed \X Range(active) :
                        c[1] \in Range(c[2].transactions)}]

NoDatabase == [rows |-> <<>>, derived |-> [tip |-> NoBlock]]
HasSchema == db.rows # <<>>

(* _initialize_schema: one transaction creates the tables and the genesis rows. *)
NewDatabase ==
  [rows |-> <<Row(EmptyChain, GenesisBlock)>>, derived |-> Derived(EmptyChain)]

StoredBlocks(d) == {d.rows[i].block : i \in DOMAIN d.rows}

(* ORDER BY acceptance_order, and an order that only puts parents first. *)
ParentsFirst(d) ==
  SetToSortSeq(Range(d.rows), LAMBDA r, q : r.record.height < q.record.height)
AcceptanceOrder(d) == d.rows

(* _replay_blocks: the rows are added one by one to a fresh tree.  ok is FALSE
   where the code raises StorageIntegrityError. *)
ReplayRow(run, row, checkRecords) ==
  LET next == IF row.block = GenesisBlock THEN run.chain ELSE AddBlock(run.chain, row.block)
  IN  IF /\ run.ok
         /\ \/ row.block = GenesisBlock
            \/ AddOutcome(run.chain, row.block) = "accepted"
         /\ checkRecords => row.record = Record(next, row.block)
        THEN [ok |-> TRUE, chain |-> next]
        ELSE [run EXCEPT !.ok = FALSE]

Replay(d, checkRecords) ==
  FoldLeft(LAMBDA run, row : ReplayRow(run, row, checkRecords),
           [ok |-> d.rows # <<>>, chain |-> EmptyChain], AcceptanceOrder(d))

-----------------------------------------------------------------------------
Init ==
  /\ db = NoDatabase
  /\ pc = [p \in Procs |-> "down"]
  /\ mem = [p \in Procs |-> EmptyChain]
  /\ pending = [p \in Procs |-> Idle]
  /\ damages = 0

Goto(p, label) == pc' = [pc EXCEPT ![p] = label]

(* What a process forgets when it ends, in whatever way. *)
Forget(p) ==
  /\ mem' = [mem EXCEPT ![p] = EmptyChain]
  /\ pending' = [pending EXCEPT ![p] = Idle]

(***************************************************************************)
(* open.                                                                   *)
(***************************************************************************)
(* A node finds no schema and goes on to create it; a command line tool    *)
(* does not create one and stays down (StorageNotFoundError).              *)
OpenMissing(p) ==
  /\ pc[p] = "down"
  /\ p \in Nodes
  /\ ~HasSchema
  /\ Goto(p, "initialize")
  /\ UNCHANGED <<db, mem, pending, damages>>

(* CREATE TABLE fails when another process was faster; the open fails. *)
Initialize(p) ==
  /\ pc[p] = "initialize"
  /\ IF ~HasSchema
       THEN db' = NewDatabase /\ Goto(p, "replay")
       ELSE Goto(p, "down") /\ UNCHANGED db
  /\ UNCHANGED <<mem, pending, damages>>

OpenExisting(p) ==
  /\ pc[p] = "down"
  /\ HasSchema
  /\ Goto(p, IF p \in Reindexers THEN "rebuild" ELSE "replay")
  /\ UNCHANGED <<db, mem, pending, damages>>

(***************************************************************************)
(* load_chain, which is also `chain validate`: first the block rows are    *)
(* read and replayed, later the derived tables are read and compared.  The *)
(* code reads four tables one after the other; a commit between two of     *)
(* these reads has the effect of one before all of them.                   *)
(***************************************************************************)
LoadReplay(p) ==
  /\ pc[p] = "replay"
  /\ LET run == Replay(db, TRUE) IN
     /\ mem' = [mem EXCEPT ![p] = run.chain]
     /\ Goto(p, IF run.ok THEN "compare" ELSE "corrupt")
  /\ UNCHANGED <<db, pending, damages>>

LoadCompare(p) ==
  /\ pc[p] = "compare"
  /\ Goto(p, IF db.derived # Derived(mem[p]) THEN "corrupt"
             ELSE IF p \in Nodes THEN "ready" ELSE "done")
  /\ UNCHANGED <<db, mem, pending, damages>>

(***************************************************************************)
(* submit_block on a node with storage: the block is added to a copy of    *)
(* the tree, the copy's update is persisted, and only then does the copy   *)
(* become the node's tree.  A block the tree refuses changes nothing.      *)
(***************************************************************************)
Validate(p, b) ==
  /\ pc[p] = "ready"
  /\ AddOutcome(mem[p], b) = "accepted"
  /\ pending' = [pending EXCEPT ![p] =
                   [chain |-> AddBlock(mem[p], b), update |-> UpdateFor(mem[p], b)]]
  /\ Goto(p, "persist")
  /\ UNCHANGED <<db, mem, damages>>

(* _expected_previous_tip *)
ExpectedPreviousTip(update) ==
  IF ~update.becameActive THEN update.activeTip
  ELSE IF update.disconnected # <<>> THEN update.disconnected[1]
  ELSE update.ancestor

(* The stored tip is the one the update was computed from; no such test. *)
AnyTip(d, update) == TRUE
TipUnchanged(d, update) == d.derived.tip = ExpectedPreviousTip(update)

(* The rows and, after a switch, the derived tables as persist_chain_update
   leaves them. *)
Persisted(d, chain, update) ==
  [rows    |-> Append(d.rows, Row(chain, update.added)),
   derived |-> IF update.becameActive THEN Derived(chain) ELSE d.derived]

(* No row for the block yet. *)
IsNew(d, update) == update.added \notin StoredBlocks(d)

(* persist_chain_update stores a new block. *)
PersistNew(p) ==
  LET new == pending[p] IN
  /\ pc[p] = "persist"
  /\ IsNew(db, new.update)
  /\ TipUnchanged(db, new.update)
  /\ new.update.added.prev \in StoredBlocks(db)
  /\ db' = Persisted(db, new.chain, new.update)
  /\ Goto(p, "publish")
  /\ UNCHANGED <<mem, pending, damages>>

(* The block is stored already, by another process, with the same record. *)
PersistExisting(p) ==
  LET new == pending[p] IN
  /\ pc[p] = "persist"
  /\ Row(new.chain, new.update.added) \in Range(db.rows)
  /\ Goto(p, "publish")
  /\ UNCHANGED <<db, mem, pending, damages>>

(* Where a node goes when its transaction was rolled back; a node that carries
   on as if it had committed. *)
AfterRollbackPublish == "publish"
AfterRollback == "ready"

(* The tip moved, the stored record differs, or SQLite fails (busy, disk
   full): the transaction is rolled back and the copy is dropped. *)
PersistFails(p) ==
  /\ pc[p] = "persist"
  /\ Goto(p, AfterRollback)
  /\ pending' = IF AfterRollback = "ready" THEN [pending EXCEPT ![p] = Idle] ELSE pending
  /\ UNCHANGED <<db, mem, damages>>

(* self.chain = candidate_chain *)
Publish(p) ==
  /\ pc[p] = "publish"
  /\ mem' = [mem EXCEPT ![p] = pending[p].chain]
  /\ pending' = [pending EXCEPT ![p] = Idle]
  /\ Goto(p, "ready")
  /\ UNCHANGED <<db, damages>>

(***************************************************************************)
(* reindex: the replay precedes the transaction that rewrites every row's  *)
(* work and supply and all derived tables; validate follows it.            *)
(***************************************************************************)
ReindexReplay(p) ==
  /\ pc[p] = "rebuild"
  /\ LET run == Replay(db, FALSE) IN
     /\ mem' = [mem EXCEPT ![p] = run.chain]
     /\ Goto(p, IF run.ok THEN "rewrite" ELSE "corrupt")
  /\ UNCHANGED <<db, pending, damages>>

(* get_record succeeds for every stored block; no such test. *)
AnyRows(d, chain) == TRUE
RowsReplayed(d, chain) == StoredBlocks(d) \subseteq Known(chain)

ReindexRewrite(p) ==
  /\ pc[p] = "rewrite"
  /\ RowsReplayed(db, mem[p])
  /\ db' = [rows    |-> [i \in DOMAIN db.rows |->
                           IF db.rows[i].block \in Known(mem[p])
                             THEN Row(mem[p], db.rows[i].block) ELSE db.rows[i]],
            derived |-> Derived(mem[p])]
  /\ Goto(p, "replay")
  /\ UNCHANGED <<mem, pending, damages>>

(* A row the replay did not see, or a SQLite error: rolled back, exit. *)
ReindexFails(p) ==
  /\ pc[p] = "rewrite"
  /\ Goto(p, "down")
  /\ Forget(p)
  /\ UNCHANGED <<db, damages>>

(***************************************************************************)
(* The environment.                                                        *)
(***************************************************************************)
(* A process ends: a clean close, the end of a command, or a kill at any
   step.  Only the committed database survives. *)
Stop(p) ==
  /\ pc[p] # "down"
  /\ Goto(p, "down")
  /\ Forget(p)
  /\ UNCHANGED <<db, damages>>

(* Something outside the program spoils data that reindex can rebuild: the
   accounts, the stored tip, or the work column of a row. *)
Damage ==
  /\ HasSchema
  /\ damages < Damages
  /\ damages' = damages + 1
  /\ \/ db' = [db EXCEPT !.derived.accounts = EmptyState.accounts]
     \/ \E b \in StoredBlocks(db) : db' = [db EXCEPT !.derived.tip = b]
     \/ \E i \in DOMAIN db.rows : db' = [db EXCEPT !.rows[i].record.work = @ + 1]
  /\ UNCHANGED <<pc, mem, pending>>

Next ==
  \/ \E p \in Procs : \/ OpenMissing(p) \/ Initialize(p) \/ OpenExisting(p)
                      \/ LoadReplay(p) \/ LoadCompare(p)
                      \/ PersistNew(p) \/ PersistExisting(p) \/ PersistFails(p)
                      \/ Publish(p)
                      \/ ReindexReplay(p) \/ ReindexRewrite(p) \/ ReindexFails(p)
                      \/ Stop(p)
                      \/ \E b \in Blocks : Validate(p, b)
  \/ Damage

Spec == Init /\ [][Next]_vars

-----------------------------------------------------------------------------
(* The checks of load_chain on a file that nobody is writing to. *)
Healthy(d) ==
  LET run == Replay(d, TRUE)
  IN  run.ok /\ d.derived = Derived(run.chain)

(* Type invariant: a process is at one of its steps, a publishing node has an
   update, and the rows form a set of distinct submitted blocks. *)
TypeOK ==
  /\ \A p \in Procs :
       /\ pc[p] \in {"down", "initialize", "replay", "compare", "ready", "persist",
                     "publish", "rebuild", "rewrite", "done", "corrupt"}
       /\ (pending[p] = Idle) <=> (pc[p] \notin {"persist", "publish"})
  /\ StoredBlocks(db) \subseteq Blocks \cup {GenesisBlock}
  /\ Cardinality(StoredBlocks(db)) = Len(db.rows)

(* Whatever order the processes' transactions committed in, and wherever they
   were killed, replaying the stored rows passes every check of load_chain:
   stored records, tip, supply, height index, accounts and confirmed
   transactions are those of the replayed tree (persist_chain_update). *)
StoredReplays == HasSchema /\ damages = 0 => Healthy(db)

Serving == {p \in Nodes : pc[p] \in {"ready", "persist", "publish"}}

(* Nothing a node shows its peers or its user can be lost by a crash: every
   block of its tree is stored, and a replay yields the very same entry
   (submit_block persists before it publishes). *)
VisibleIsStored ==
  \A p \in Serving :
    LET stored == Replay(db, FALSE).chain.entries IN
    \A b \in Known(mem[p]) : b \in DOMAIN stored /\ mem[p].entries[b] = stored[b]

(* With one node on the file, a restart at any idle moment finds the same
   tree and the same active tip, equal-work forks included (acceptance_order). *)
RestartKeepsTree ==
  \A p \in Nodes : pc[p] = "ready" => mem[p] = Replay(db, FALSE).chain

(* `chain validate` reports corruption only of a file that something spoiled
   ("Raised when persisted bytes or derived state are inconsistent"). *)
NoFalseAlarm == \A p \in Validators : pc[p] = "corrupt" => damages > 0

(* A committed reindex leaves a file that passes every check, whatever derived
   data was spoiled before and whatever a node committed meanwhile. *)
ReindexRepairs ==
  [][\A p \in Reindexers :
       pc[p] = "rewrite" /\ pc'[p] = "replay" =>
         \A d \in {db'} : Healthy(d)]_vars

(* The work of the stored blocks; without a schema the file stands for genesis. *)
StoredWeight ==
  [b \in StoredBlocks(db) \cup {GenesisBlock} |->
     IF HasSchema
       THEN LET i == CHOOSE i \in DOMAIN db.rows : db.rows[i].block = b
            IN  db.rows[i].record.work
       ELSE WorkForTarget(InitialTarget)]
FC == INSTANCE ForkChoice WITH
        Root   <- GenesisBlock,
        known  <- StoredBlocks(db) \cup {GenesisBlock},
        weight <- StoredWeight,
        tip    <- IF HasSchema THEN db.derived.tip ELSE GenesisBlock

(* The stored chain implements the abstract fork choice: rows are never lost
   or re-weighed, and the stored tip moves only to a strictly heavier block,
   however many nodes write. *)
ImplementsForkChoice == FC!Spec
=============================================================================
