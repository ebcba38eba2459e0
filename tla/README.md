# ourcoin in TLA+

Models, model-checking runs and machine-checked proofs for the ourcoin node
(`src/ourcoin/`): the consensus rules, the block tree, the mempool, the local
node, the SQLite storage, everything the peer service does (admission,
keepalive, synchronisation, relay, shutdown), the wallet file, the wire codec and
the small algorithms beside them.

    tlc -config MCNode.cfg MCNode.tla            # any run: <config> <module>
    tlc -config MCPeerLink.cfg PeerLink.tla      # PeerLink needs no MC module
    tlapm ChainProofs.tla                        # the proofs of a module

`PROJECT.json` lists the runs, and for every definition the source lines it
stands for.

## 1. The system

ourcoin is a proof-of-work account ledger for a local test network. One
process is a node: a `LocalNode` (chain, mempool, optional database) that an
asyncio service (`P2PNode`) connects to other nodes on the loopback interface.
The command line opens the same database for `chain validate`, `chain reindex`
and inspection, possibly while a node has it open.

| component | code | state | operations |
|---|---|---|---|
| consensus rules | `consensus.py`, `state.py`, `transaction.py`, `block.py`, `account.py` | accounts, confirmed transaction ids | validate/apply transactions, execute a block, reward, genesis, candidate |
| block tree | `chain.py` | entries (block, record, state snapshot), active tip | `add_block`, `build_candidate`, `expected_target_for_child` |
| mempool | `mempool.py` | transactions by id, ids by (sender, nonce) | `add`, `remove_confirmed`, `revalidate`, `select`, `next_nonce` |
| local node | `node.py` | chain and mempool | `submit_transaction`, `create_transaction`, `submit_block`, `mine` |
| storage | `storage.py` | block rows in acceptance order, derived tables | open, schema, `load_chain`, `persist_chain_update`, `validate`, `reindex`, close |
| peer synchronisation | `p2p.py` | per connection: HELLO of the peer, outstanding request; frames in flight | handshake, GET_BLOCKS, BLOCK, SYNC_COMPLETE, relay |
| peer admission | `p2p.py` | connections, node ids, host scores, bans, rate windows | accept, connect, handshake checks, penalize, expire |
| transaction relay | `p2p.py` over `node.py` | pools and trees of several nodes, frames in flight | TRANSACTION, REJECT, relay |
| connection upkeep | `p2p.py`, `p2p_protocol.py` | pending ping, send queue, buffers | `read_frame`, PING/PONG, deadlines |
| shutdown | `p2p.py`, `cli.py` | main coroutine, tasks, server, storage | `run_network_node`, `close` |
| wire codec | `p2p_protocol.py`, `encoding.py` | none | encode and decode frames |
| hashing, addresses, Merkle, keys | `crypto.py`, `address.py`, `merkle.py` | none | pure functions |
| proof-of-work search | `miner.py` | none | nonce search |
| wallet files | `wallet.py` | a key file | create, save, load |
| command line | `cli.py` | none | wiring |

How they interact: `LocalNode.submit_block` calls `Chain.add_block` (on a copy
when there is a database), lets storage commit the update, publishes the copy,
and then reconciles the mempool with what the switch of the tip connected and
disconnected. `mine` selects from the mempool, builds a candidate on the tip and
submits it. `P2PNode` hands every received block and transaction to the node
and relays what was accepted. Start-up replays the stored rows through
`Chain.add_block`.

What is hard here, and what makes each component correct:

* *Block tree*: blocks arrive in any order on any branch. The verdict on a block
  must depend on its branch alone; the tip must be a heaviest block, the first
  seen among equals; a switch must report exactly the blocks to undo and redo;
  no branch mints more than the rewards or executes a transaction twice.
* *Mempool and node*: the pool was admitted against a state that a
  reorganisation takes away. What remains must be executable, the template
  built from it must be accepted, nothing may be lost that is still admissible.
* *Storage*: crashes between any two steps, failing transactions, a second
  process writing or reindexing, reads that are not in a transaction. What a
  node shows must be on disk; a restart must find the same tree and, among
  equal branches, the same tip.
* *Synchronisation*: one task at each end of a connection, responses that leave frame by frame while
  the chain moves, relays that overtake responses. A request must be answered
  once; a truthful peer must not be punished; a node told that it is behind must
  catch up; the exchange must end.
* *Transaction relay*: a wallet signs what its own pool admits, and the receiver
  has another tip, another pool, or has just joined. A correct peer must not pay
  for what is not its fault, and all must end with the same pending payments.
* *Admission*: `connect` checks limits and bans, awaits the dial, and only then
  registers; two nodes may dial each other; scores are kept by connection, node
  ID and host, and expire separately. Limits and bans must hold at registration,
  the index by node ID must be exact, the two ends must come to agree.
* *Upkeep*: an idle timeout may fire behind a long response; both ends may be
  writing and reading nothing. A live peer must not be taken for dead, a dead
  one must be noticed, no send may hang.
* *Shutdown*: the storage is closed while connection tasks exist; closing waits
  for others that wait. No task that `close` waits for may use a closed storage;
  all must exit.
* *Wallet file, codec, Merkle root, rate limiter, nonce search*: crashes between
  write and rename; bytes that decode though no encoder made them; lists that
  share a root; a window that is pruned only now and then; the last nonce.

`PROJECT.json` lists these hazards at their lines, with the properties about
them, and the ones no property covers yet.

## 2. The modules

| module | models | extends / instantiates |
|---|---|---|
| `Ledger` | consensus rules, as operators | |
| `BlockTree` | a block tree as a value, `AddBlock`, difficulty, reorganisation paths | `Ledger` |
| `ForkChoice` | abstract: a tree that only grows, and whose tip moves only to a strictly heavier new block | |
| `Chain` | `chain.py` under submissions in any order | `BlockTree`; refines `ForkChoice` |
| `BlockTreeProofs` | lemmas about the operators of `Ledger` and `BlockTree` | `BlockTree` |
| `ChainProofs` | theorems about `Chain` | `Chain`, `BlockTreeProofs` |
| `Mempool` | the pool as a value and its operations | `Ledger` |
| `Node` | `node.py`: tree and pool together | `BlockTree`, `Mempool` |
| `NodeProofs` | theorems about `Node` | `Node`, `BlockTreeProofs` |
| `Storage` | `storage.py` with several processes, crashes, damage | `BlockTree`; refines `ForkChoice` |
| `StorageProofs` | theorems about `Storage` | `Storage`, `BlockTreeProofs` |
| `PeerSync` | the synchronisation part of `p2p.py` | |
| `PeerSyncProofs` | theorems about `PeerSync` | `PeerSync` |
| `TxRelay` | several local nodes joined by relay | `BlockTree`, `Mempool`; instantiates `Node` at every node |
| `PeerAdmission` | dials, accepts, HELLO checks, scores, bans | |
| `PeerAdmissionProofs` | theorems about `PeerAdmission` | `PeerAdmission` |
| `PeerLink` | one connection in time: frames, keepalive, send queue | |
| `Shutdown` | `run_network_node` and `close` on several nodes | |
| `WalletFile` | `save_encrypted` and `load_encrypted`, crashes | |
| `RateWindow` | abstract: what a minute may hold, from the whole history | |
| `RateLimiter` | `_RateLimiter` | `RateWindow`; refines it |
| `Codec`, `Reader` | the canonical encoding, and the decoders at work on changed bytes | `Codec` |
| `Merkle` | `merkle_root`'s loop | |
| `ProofSearch` | `mine_block`'s loop | |
| `StandaloneProofs` | theorems about `WalletFile`, `ProofSearch`, `Merkle`, `RateLimiter` and `Shutdown` | those five |
| `WireProofs` | theorems about `PeerLink`, `Codec` and `Reader` | those three |
| `Samples` | blocks and transactions for the runs | `BlockTree` |
| `MC*` | instances, one per run or more; `MCChain` has the blocks and `MCShutdown` the nodes of `chain_shutdown`, whose behaviours `MCChainShutdown` puts together; `MCStandalone` extends the five components that share no state | |

Operators such as `AnyTip`, `WorkOfBlockAlone` or `SyncNot`, which no
definition uses, are plausible wrong versions of the definition after them. Each
property is known to fail when one of them takes its place (`PROJECT.json`,
"mutants").

Every module with variables has a `TypeOK` (the modules `MCStandalone` extends
and `Shutdown` put their name before it). It is proved where the module has proofs. Elsewhere it states the types and
serves as the starting point of a proof; no run lists it, as the properties that
are listed fail first when a value leaves its type in a way that matters.

### Ledger, BlockTree, Chain

`ValidTransaction`, `Executable`, `ApplyNext`, `ValidateAndExecuteBlock` follow
`validate_transaction`, `AccountState.validate`, `_apply_validated` and
`validate_and_execute_block` test by test; an exception is a result whose `ok`
is FALSE. A chain value is `[entries, tip]`; an entry has the fields of
`BlockRecord` and the snapshot. `AddOutcome` gives the reason why `add_block`
raises, `AddBlock` the tree after it, `UpdateFor` the `ChainUpdate` it returns.
`Chain` has one action for each outcome.

Abstractions: SHA-256 is injective, so a block is its own hash and a state root
is the account table; `sealed` and `authentic` stand for the proof-of-work and
signature checks; an address is a number; the account dictionary is a total
function, as an absent account reads as the default. Integers keep the limit
`U64Max` with the checks the code makes.

### Mempool, Node

The pool keeps its two dictionaries apart (`txs`, `index`). `Admits` is the
conjunction of `add`'s tests. `Reconcile` is everything `submit_block` does
after the tip has moved, in its order: confirmed transactions leave,
`revalidate`, then the disconnected transactions, oldest block first. `Send` is
`create_transaction` seen from the node: the nonce comes from `next_nonce`.

### Storage

`db` is the committed file: rows (block and record columns) in acceptance order
and one record of everything `_replace_derived_state` writes. A SQLite
transaction is one action that commits or is rolled back as a whole. Reads
outside a transaction are separate steps: `load_chain` is `LoadReplay` then
`LoadCompare`, `reindex` is `ReindexReplay` then `ReindexRewrite`;
`submit_block` is `Validate`, `PersistNew` or `PersistExisting` or
`PersistFails`, then `Publish`. `Stop` may hit any process between any two
steps; `Damage` spoils derived data at most `Damages` times.

### PeerSync

Each pair of nodes has at most one connection, and each connection two ends.
`phase` is how far `_run` got, `peerTip` is `connection.hello`, `request` the
three fields of the block request, `batch` the position inside `_send_blocks`,
`relay` the sends that `gather` started but that had no turn yet, `wire` the TCP
streams. `network` is a rigid variable: what the nodes have loaded, what they may
mine, who dials whom and how often. It is chosen in the initial state, so that
one run covers several networks. An end handles a frame only while it is `Reading`: not in the middle of
a response and not waiting for the relays of the previous block. Every send of a
response is a step, so mining, other connections and relays come in between, as
they may when a send suspends; the summary is taken after the last block. `Drop`
closes an end for a cause that is not modelled (write deadline, full queue,
storage error, lost socket), `Dial` opens a new connection.

Every node is correct: validity is the same everywhere (`VerdictIsLocal` of
`Chain`), so a block of a correct node is refused only for an unknown parent and
the paths that answer invalid blocks, foreign identities or contradictory
summaries have no input here. Scores are reduced to whether a peer was ever
penalised. REJECT frames change nothing at the receiver and are left out.

### TxRelay

Every node has a `chain` and a `pool` of `Node`, on which `Transfer` (a wallet
command), `MineAndBroadcast`, `HandleTransaction` and `HandleBlock` work with `Node`'s own
operators, `Reconcile` included. `Broadcast` appends a frame to the stream of
every connected peer but the sender. A frame that is refused costs the peer ten
points: `penalized` records who charged whom for which transaction. Fetching
what a relayed block skips is reduced to a `batch` of missing blocks and a
summary; the whole exchange is `PeerSync`. `network` says who is connected from
the start, who may join later and which transactions are signed.

### PeerAdmission

A link is one dialled TCP connection with an end at each node, so two nodes that
dial each other have two links and four ends. `task` is how far `connect`,
`_accept` and `_run` got at an end; `connections` and `byNodeId` are the code's
registries; scores are in tens; `lastBan` and `overlapped` are history. Each `await` separates two actions: the check
before the dial, the dial, the check after it, the HELLO sent, the HELLO read.
`Trouble` covers what the frames after HELLO may cost and what breaks a link, up
to `MaxTroubles`. The clock moves only while a ban is recorded: nothing else
depends on it.

### PeerLink

One ready connection in ticks. A frame is two pieces, prefix and payload, which
`read_frame` awaits one after the other; each written piece arrives within
`MaxDelay`. `queue` is `_PeerConnection`'s lock with its waiters, each with the
age that `wait_for` bounds, and `HighWater` the buffers above which `drain`
waits. A frozen end does nothing for ever. `HandleData` does not wait for the relays
of an accepted block to other connections (`p2p.py:591`, `682-688`): the sends run
together and are over after five seconds, but the connections whose send failed are
closed one after the other, with up to five seconds each, so that about a dozen
stalled peers would keep an end from reading for its idle timeout. `Tick` is possible only when no timer
is due and no end can move: asyncio runs what is ready before it sleeps.

### Shutdown

`main` is `run_network_node` at each node, from opening the storage through the
dials to `close` and the storage's close; `task`, `sock`, `connections` and
`cancelled` belong to the ends. `close` is step by step as in the code:
`server.close`, `wait_closed`, the snapshot of the connections, the bounded wait
for the streams, the cancelled tasks. `wait_closed` is that of the Python the
project requires (3.13): it also waits for the accepted transports. A task that
handles a frame relays to the other connections of its node, and where such a send
fails it closes that connection, whatever the connection's own task is doing
(`SendFails`). Closed in the middle of a frame, it is in no snapshot of `close`
(`p2p.py:719`): its task is `Abandoned`.

### WalletFile

Each save has an inode of its own, named by the save. `dest` is what the path
names, `temps` the temporary names that exist, `data` how much is written,
`synced` what `fsync` has finished. A power loss keeps synced contents and
reverts the directory, which the code does not sync, to an earlier state; it can
therefore bring back an older wallet.

### RateLimiter, Codec and Reader, Merkle, ProofSearch

`RateWindow` judges a frame by everything that was ever allowed; `RateLimiter`
by the pruned deque and its running total. `Codec` has the layout of every kind
of message and `Encode`; `Reader` is `CanonicalReader` field by field on bytes
that may have been changed after encoding, also by the decoder of another kind,
with a byte of six values and texts with a non-normal form. `Merkle` computes
level by level and is compared with the root defined from the top. `ProofSearch`
is the loop with its two limits, `max_attempts` and the last nonce.

## 3. The runs

| run | question | states |
|---|---|---|
| `chain_shutdown` | 13 valid blocks on several branches and 13 blocks that break one rule each, submitted in every order; two nodes, and three in a line, that start, relay, hang and are stopped: one of the three in each behaviour | 153,800 |
| `node` | two rival branches, six transactions, mining up to height 3 | 101,000 |
| `storage_repair` | one node, one reindex, kills anywhere, one spoiled datum | 63,600 |
| `storage_shared` | two nodes writing one file | 17,100 |
| `storage_validate` | `chain validate` beside a node: **violated** | 43 |
| `sync` | two nodes more than a batch apart, with and without a fork; three in a line; three in a ring; a fork that no single batch outweighs | 47,800 |
| `sync_deep_fork` | the last of these: the longer fork is downloaded: **violated** | 281 |
| `relay` | two wallets and one miner on a triangle, on a line, and with two nodes that join late | 99,800 |
| `admission` | two nodes that dial each other, and any three troubles; a stranger that dials one of them, and one or two | 404,000 |
| `link` | both ends respond, relay and keep alive; one may freeze | 624,700 |
| `shutdown_stalled` | the two nodes of the repository's README: a peer that does not read stalls nobody's exit: **violated** | 30,900 |
| `standalone` | wallet file, rate limiter, decoders, Merkle root, nonce search: one of them in each behaviour | 2,330,000 |

Properties, by run:

* `chain_shutdown`: `BranchSound` (no holes; heights, times and works add up; no
  timestamps move the target by more than the factor),
  `VerdictIsLocal` (a block's verdict depends on its branch alone),
  `Conservation` (balances of every snapshot add up to what was minted),
  `NoReplay`, `SwitchIsExact` (the update's lists are the two branch
  differences), `ImplementsForkChoice` (heaviest tip, first seen among equals);
  `StorageOutlivesPeers` (no task that `close` waits for meets a closed storage),
  `ExitUnlessUnread` (all that are stopped exit, but for a node whose inbound peer
  does not read).
* `node`: `IndexExact`, `PoolExecutable`, `MineConfirmsPool`, `EligibleReturned`
  (a disconnected payment comes back), `PendingKeptOnExtension`.
* `storage_repair`: `RestartKeepsTree`, `ReindexRepairs`;
  `storage_shared`: `VisibleIsStored`, `StoredReplays`, `ImplementsForkChoice`;
  `storage_validate`: `NoFalseAlarm`.
* `sync`: `RequestAccounted` (a request is outstanding exactly while its
  question, its response or its summary is on the way),
  `OnlyDeepForksPenalized`, `AdvertisedWorkReached`, `SentWorkReached`,
  `Settles`; `sync_deep_fork`: `LongerForkDownloaded`.
* `relay`: `ChargesAreExplained` (a correct peer pays only when the pool of the
  receiver is full or the receiver has just joined), `PoolsConverge` (the flood
  leaves equal tips and pools).
* `admission`: `IdIndexExact`, `LimitsHold`, `BanHonoured`,
  `MisbehaviourRemembered` (redialling does not wash off a score, as long as no two
  tasks have served the peer at once), `EndsAgree`.
* `link`: `LivePeerKept`, `DeadPeerNoticed`, `HandlersReturn`.
* `shutdown_stalled`: `NoPeerStallsExit`.
* `standalone`: `DestinationWhole`, `SavedIsThere`; `ImplementsRateWindow`;
  `SentIsRead`, `AcceptedIsCanonical` (an accepted byte string is the encoding of
  what it decodes to); `RootFixesList`; `SearchIsExact`.

### Bounds

`MCChain`: a supply of 12 makes the cap and the reward decay happen within four
blocks (the cap also keeps balances far below `U64Max`, so that the overflow checks
are modelled and never fail here); a difficulty interval of 2 retargets at heights
2 and 4, and branches mined at 1, 8 and 40 seconds, where 8 are expected, go beyond
both clamps, so that a shorter branch can be heavier. `MCNode`: `MaxHeight` 3, a pool of 3 with 2 per
sender, so that every limit is met; the slow branch confirms payments that the
fast one conflicts with. `MCStorage`: two equal branches of length two and a
block that overtakes. `MCPeerSync`: every block weighs one; batches of 3 stand
for 128 and locators that turn sparse after 2 entries for 10, so that a branch of
four is more than a batch; `maxDials` and `maxDrops` bound the connections, the
set of blocks bounds mining. `MCTxRelay`: a pool of 2, which three transactions
overfill; a payment, the one that follows it and one that spends it; two or three
blocks. `MCPeerAdmission`: limits of 2 with three links on one host, a threshold
of three tens, bans of one tick. Two troubles are enough for a ban, its expiry and a
second one by a connection that outlived the first; three, for a redial beside a task
that has lost its connection and a penalty by either. The stranger, whose HELLO costs
points of its own, saves some of them: while its dial lives there is at most one
trouble, when its end is closed at most two, and where it never dials three. With
three, `MisbehaviourRemembered` fails in this very instance
when the condition on `overlapped` is left out. `MCPeerLink`: a response
of two blocks, buffers and a queue of two, so that each of them fills; an idle
timeout of 3 and delays of 1, so that it can fire while a response is on its way.
`MCShutdown`: three frames. In the setting `pair` the third node hangs from the start, and alice
and carol, the two ends of one link, may be stopped or hang at any time, also during
start-up. In the setting `line` the three come up undisturbed, and then bob may hang
and alice handles frames of either neighbour: two disturbances besides alice's own
stop, enough for a failed relay to close a connection while its task has a frame in
hand and alice is stopping. `MCStandalone`: three saves, one that overwrites, one
load, one power loss; a window of 3 ticks with 3 frames or 5 bytes within 6
ticks; one edit of every message, two of a PING; lists of up to five leaves; nonces
up to 5. Behaviours of all but `node` and the storage runs may end: all
is delivered or stopped, so a deadlock is not an error there.

### Fairness

Safety runs assume none. Nobody is obliged to mine, dial, relay, stop or fail.

* `PeerSync!FairSpec`: weak fairness of what the event loop does by itself at each
  end (`Serve`) and of each started relay (`SendRelay`): asyncio resumes every
  ready task, and TCP delivers what was written while both ends are open.
* `PeerAdmission` and `Shutdown`: weak fairness of `Proceed`, the union of the
  steps that tasks and connections make by themselves. They are finitely many,
  so that fairness of the union is fairness of each.
* `TxRelay`: frames that are on their way move on, `[]<>Quiet` or infinitely many
  moves; nothing else may delay them for ever.
* `PeerLink`: weak fairness of every end's steps and of `Tick`: a running end is
  scheduled, and time passes.

### What the violated runs show

* `storage_validate`: `load_chain` reads blocks and derived tables in separate
  reads. A node that commits in between makes `chain validate`, or a second
  start, report corruption of a healthy file (`storage.py:681`).
* `sync_deep_fork`: the locator names only the active branch. While a peer's
  longer branch is not outweighed by its first 128 blocks past the fork, the
  next request gets the same 128 blocks, brings nothing, and the no-progress
  rule punishes and disconnects a truthful peer (`p2p.py:527`, `605-614`). With
  two real nodes, 129 local blocks and 131 remote ones from genesis, the local
  node stays at 129 and the peer has a penalty of 20; with 100 and 102 it
  synchronises.
* `shutdown_stalled`: `docs/protocol.md:203-204` promises that "a non-reading peer
  cannot indefinitely stall relay or node exit". bob dials alice and hangs with data
  of alice unread; alice is stopped and waits for its server (`p2p.py:718`), without
  a deadline and before it closes any connection. Its task does give bob up, but
  `_close_stream_writer` (`p2p.py:78-85`) bounds only its own wait: the accepted
  transport stays, as its data is never read, and `Server.wait_closed` of Python 3.13
  waits for it.

### What the models show besides

Behaviours of the code that contradict no document; the properties are stated
so that they say what holds all the same.

* A block accepted between writing HELLO and reading the peer's is neither in that
  HELLO nor broadcast to that peer (`p2p.py:223`, `680`), which stays behind until
  something newer is sent. `SentWorkReached` starts from a block that was sent.
* A pending transaction whose predecessor was in a disconnected block is dropped,
  because `revalidate` runs before the predecessor returns (`node.py:141-157`).
  `PendingKeptOnExtension` speaks of extensions only.
* A node that has just joined, or whose pool is full, charges correct peers for
  valid transactions (`p2p.py:634`): the mempool is not sent to those who join.
* From Python 3.12.1 on `wait_closed` waits for the accepted connections, which
  `close` closes only afterwards (`p2p.py:718`): a node with an inbound peer does
  not exit on Ctrl+C before that peer goes, and nodes that dial each other in a
  ring never do. `ExitUnlessUnread` is about dials without a cycle, and about nodes
  that all are stopped.
* A failed relay closes a connection in whose task a frame is being handled
  (`p2p.py:686-688`). That task is then in no snapshot of `close` (`p2p.py:719`),
  nobody cancels or awaits it, and the block it has in hand may reach a storage that
  is closed; `_run` swallows the `StorageClosedError`. It takes a snapshot that is
  otherwise empty and a handler that comes to its block only after close has
  returned. `StorageOutlivesPeers` excepts these tasks (`Abandoned`).
* Two nodes that dial each other at the same time may refuse both connections as
  duplicates (`p2p.py:517`). `EndsAgree` says that the ends agree, not that one stays.
* An idle timeout in the middle of a frame loses what was read of it, so the rest
  is read as a prefix (`p2p.py:238`). `LivePeerKept` holds on lines that carry a
  PING there and its PONG back in less than the idle timeout: with `IdleTimeout = 2`
  and `MaxDelay = 1` the PONG may come in the tick in which its peer is given up.
* A connection that a failed relay closed is served by its task until that reads
  the end, and another connection of the same peer may be accepted meanwhile. The
  two then overwrite each other's score by node ID (`p2p.py:213`), which may fall:
  it does after three troubles. `MisbehaviourRemembered` is about the peers that
  never had two tasks at once; the variable `overlapped` records the others.
* Past its first ten entries a locator names every second, fourth, ... block. The
  first batch then starts at an older common block, and may end before the peer's
  branch has outweighed the local one: if its blocks add more work each, a correct
  peer that has the heavier chain is charged for no progress (`p2p.py:610`).
  `OnlyDeepForksPenalized` is about blocks that all add the same work.
* `os.link` and `os.replace` are not followed by a sync of the directory: after a
  power loss a wallet that was reported as saved may be gone or be an older one.

## 4. The proofs

Each module of theorems extends the module it is about. The proofs hold for every
value of the constants that satisfies the assumptions named in it.

**`BlockTreeProofs`** has no theorems of its own: it says what the operators of
`Ledger` and `BlockTree` do. The library's induction theorems take an operator as
a parameter, which the provers at hand cannot instantiate; `NatMin` (a set of
naturals that is not empty has a least element, by `WFMin`) and `Induction` (a set
that contains 0 and every successor contains the naturals) take their place, and
every induction along a list of transactions, a branch, a fold or a walk is one
about the set of the lengths for which a statement holds. A recursive function is
unfolded only after an argument that it exists (`SumExists`, `RunExists`,
`DownExists`, `UpExists`, `WalkExists`; in `NodeProofs` `FoldExists`,
`FlattenExists`, `SelectionExists`). What it builds up to: executing a
transaction keeps the total of the coins less its fee (`ApplyEffects`) and the
nonces without a gap (`ApplyKeepsNonces`); a batch that succeeds and a body do so as
a whole (`BatchSteps`, `BodyEffects`); `AddBlock` keeps a tree sound
(`AddKeepsSound`); the target, the verdict and the entry of a block are functions of
its branch (`TargetIsLocal`, `VerdictOnBranch`, `EntryOnBranch`); the two cursors of
`_reorganization_paths` meet at the last common block (`WalkMeets`,
`UpdateIsExact`).

**`ChainProofs`** (from `LedgerAssumption`, `BlockTreeAssumption` and
`ChainAssumption`: an authentic transaction and a sealed header name addresses, and
the time of a sealed header has 64 bits), for every set of blocks:

| theorem | statement |
|---|---|
| `Invariance` | `Spec => []IInv` |
| `RecordsTypedTheorem`, `TypeOKTheorem` | `Spec => []TypeOK` and its part about entries |
| `BranchSoundTheorem` | `Spec => []BranchSound` (with `RetargetAssumption`) |
| `HeaviestStoredTheorem` | the tip's stored work is a maximum |
| `FirstSeenWinsTheorem` | `Spec => FirstSeenWins` |
| `ChainImplementsForkChoice` | `Spec => ImplementsForkChoice` |
| `StatesSoundTheorem` | every entry's accounts are typed, sum up to its supply, and count its confirmed transactions |
| `ConservationTheorem` | `Spec => []Conservation` |
| `BranchesConfirmedTheorem` | what an entry calls confirmed is what its branch contains, once each |
| `NoReplayTheorem` | `Spec => []NoReplay` |
| `VerdictIsLocalTheorem` | `Spec => []VerdictIsLocal` |
| `SwitchIsExactTheorem` | `Spec => SwitchIsExact` |

`IInv` says that the tree is sound: entries typed, every entry but genesis on a
known parent with height, time and work adding up, the tip a maximum. That the tip
stays a maximum needs the tip to be an entry and work to be numbers, and the
refinement needs a child to weigh more than its parent, which comes from
`WorkIsPositive` (integer division: a target below the maximum has work at least 1).
`Retargeted` adds the targets, which are bounded because the clamped window is between
the expected one divided by the factor and multiplied by it (`ClampedRatio`,
`TargetBounds`); `RetargetAssumption` says that this division has no remainder.
`StatesSound` is another inductive invariant on top, and `BranchesConfirmed` one more:
`NoReplay` cannot be shown from a single step, as it is about whole branches.
`VerdictIsLocal` and `SwitchIsExact` need no invariant of their own: the first
compares a tree with a smaller one that holds the branch (`EntryWithin`,
`VerdictWithin`), the second is `UpdateIsExact` at every accepted block.

**`NodeProofs`** (from `LedgerAssumption`, `BlockTreeAssumption`, `MempoolAssumption`
and `NodeAssumption`), for any blocks, transactions, miners and limits:

| theorem | statement |
|---|---|
| `Invariance` | `Spec => []IInv` |
| `TypeCorrect` | `Spec => []TypeOK` |
| `IndexExactTheorem` | `Spec => []IndexExact` |
| `PoolExecutableTheorem` | `FewTransactions /\ Spec => []PoolExecutable` |
| `PendingKeptTheorem` | `Spec => PendingKeptOnExtension` |
| `EligibleReturnedTheorem` | `Spec => EligibleReturned` |
| `MineConfirmsPoolTheorem` | `FewTransactions /\ Spec => [](ClockLasts => MineConfirmsPool)` |

`IInv` has a part about the tree (`ChainSound`: every branch's state is sound and
confirms only known transactions, and every block confirmed its body on its parent's
state, each sender's nonces upwards, `Executed`) and one about the pool on the tip's state
(`Ready`): each sender's transactions go on from its account nonce without a gap,
are valid at the next height and funded together (`Queue`), the index is exact
(`Indexed`), and the limits hold (`Limited`). The pool is only ever built by `Add`,
either on the state it was built for or, when the tip moves, from the empty pool
(`Revalidate` clears it), so that one lemma about `Add` (`AddKeepsReady`) and the
folds of it (`AddsKeepReady`, `ReconcileReady`) carry the invariant through every
reorganization. A block the node mines needs no case of its own: what `Select`
returns is a list of pending transactions (`SelectTyped`), so its template is one of
the blocks a peer could have offered (`TemplateOffered`).

`PoolExecutable` is about a sequence of executions. `ListsByRank` says what `sorted`
returns: every member once, each behind those before it in the order. In the pool's
order the next transaction is always the first of its sender, so it executes
(`HeadExecutes`), and what is left is a queue again on the state it leaves
(`QueueShrinks`), as paying into an account only adds to what covers its own
payments; no balance exceeds `U64Max`, since all of them together are at most the
supply (`BalancesBounded`). `FewTransactions` (at most `U64Max` transactions exist)
is needed: `add` admits a transaction with the last nonce, which
`apply_transactions` refuses, as the account's nonce could not advance. A nonce
counts the transactions its account has had confirmed, so that only more
transactions than a nonce can count bring an account there.

The two action properties are about what a sequence of `Add`s leaves out.
`RefusedStaysRefused`: a transaction that a ready pool refuses is refused by every
larger ready pool, unless the larger one has gained a predecessor of it (a smaller
nonce of its sender). So the order of the sequence decides (`RefusedInTurn`).
`revalidate` goes by sender and nonce, which gives `PendingKeptTheorem`; it speaks of
extensions, where nothing comes back afterwards. For `EligibleReturnedTheorem` the
sequence is the bodies of the disconnected blocks, oldest first (`ReturnedBodies`,
`FlattenIsFlat`), and the nonces of a sender grow along a branch (`BranchNonces`): the
earlier one is confirmed in the state the later one executes on, and an account's
nonce is above all it has confirmed. What is confirmed at the common ancestor stays
confirmed on the new branch (`BranchConfirms`).

`MineConfirmsPoolTheorem` follows the rounds of `select`: as long as everything taken
so far ran and the rest is a queue on the working copy (`Selecting`), everything
eligible would execute, so that a round takes one more and blocks nobody
(`RoundTakes`), and after as many rounds as there are pending transactions all are
taken (`SelectTakesAll`). The batch then makes a body whose reward fits, as subsidy and
fees never take the miner over the supply (`BodyRuns`), the expected target is legal
(`TargetLegal`), and the block is new and heavier than the tip (`TemplateAccepted`).
`ClockLasts` (the next height and the next time fit their 64-bit fields) is needed:
past it `build_candidate` offers nothing.

**`StorageProofs`** (from `LedgerAssumption`,
`BlockTreeAssumption` and `StorageAssumption`), for any
number of nodes, validators, reindexers and damages:

| theorem | statement |
|---|---|
| `StorageInvariance` | `Spec => []IInv` |
| `StorageTypeOK` | `Spec => []TypeOK`; no block has two rows |
| `StoredReplaysTheorem` | `Spec => []StoredReplays` |
| `VisibleIsStoredTheorem` | `Spec => []VisibleIsStored` |
| `ReindexRepairsTheorem` | `Spec => ReindexRepairs` |
| `RestartKeepsTreeTheorem` | `OneNode /\ Spec => []RestartKeepsTree` |
| `StorageImplementsForkChoice` | `Damages = 0 => (Spec => ImplementsForkChoice)` |

The invariant: the file is missing or its rows replay to a sound tree, with the
stored records those of the replay; its derived tables are those of the tree's tip
while nothing has spoiled them; and every process that has loaded holds a part of
that tree (`Within`), with the update it is about to publish already among the
rows. The reindexer's test that the rows are still those it replayed is what makes
its part whole at the moment it writes. `RestartKeepsTree` has the hypothesis
`OneNode`, because two writers may accept equal branches in different orders; of
validators, reindexers and damages there may be any number. Its invariant
(`LoneIInv`) adds that the node's tree, or while it publishes the tree it is about
to take, is the very one that the rows replay to, order included: only the node adds
rows, a reindex rewrites what is derived from them, and only a node reaches the
steps that write.

**`PeerSyncProofs`** (from `PeerSyncAssumption`), for any nodes, tree of blocks,
contacts, batch and locator limits and any number of losses: `Invariance`,
`TypeCorrect`, `RequestAccounted`, `ChargedForNoProgress`. The invariant adds three things. Frames are sound
(`SoundFrames`): a locator names blocks and ends in genesis (`LocatorTyped`), which
is why `_common_index` always finds a common block and a response never contains
genesis (`BatchTyped`). An end that is not ready has asked for nothing and is not
answering, and nothing is on its way to a closed end (`Clean`): otherwise a new
connection would begin with the debts of the one before. And the balance itself,
for connections with both ends open. `EndStep` proves once what every handler has
in common: it takes at most one frame, writes at most one, and the change of the
request and of the response equals what was taken and written; `CloseStep` is the
other half. The handlers then only have to show their own entry in these books;
`SummaryAnswers` reads the balance backwards: whoever receives a summary has a
request outstanding. `ChargedForNoProgress` says that the rule against work that
moves backwards never hits a correct peer. It rests on `ClaimsRise`, a second
invariant: on every stream the claims of HELLO and SYNC_COMPLETE rise from frame to
frame, from the one the reader has taken down to the work the writer has. `EndClaims`
says what any step of an end may do to the two streams and to that note
(`EndClaimsRise` that it keeps the invariant, `ServeClaims` that every handler is
such a step), and `TipsOnlyGrow` that fork choice never takes work away.

**`PeerAdmissionProofs`** (from `PeerAdmissionAssumption`), for any nodes, links,
hosts, limits, threshold and ban time: `Invariance`, `TypeCorrect`, `LimitsHold`,
`IdIndexExact`, `OverThresholdIsBanned` (a score at the threshold never stands
without a ban), `BanHonoured` and `MisbehaviourRemembered`. The invariant adds to these `AcceptedWasDialled`
(an end is accepted only when the other has dialled, so a task is never registered
twice), `IndexedWereReady` and `IndexPointwise` (the index, end by end: what
closing a refused duplicate must leave alone) and `BanRecorded` (the last ban of
a host is the one that runs, or it is over). `LimitsOfFewer` and
`LimitsOfOneMore` carry the cardinalities: registering needs the second
`_can_accept`, as any number of dials may be under way. For the score by node ID the
key is `ScoresAgree`: a ready connection has the score its peer has by ID, which is
why overwriting the one with the other forgets nothing. Two tasks of one peer break
it, so it speaks of peers outside `overlapped`, and `OverlapsRecorded` says that every
peer with two such tasks is in there.

**`StandaloneProofs`**: the wallet file (from `WalletFileAssumption`), for any number
of writers and readers: `WalletInvariance`, `WalletTypeCorrect`, `DestinationWhole`,
`SavedIsThere`, `TemporariesRemoved`, `CreateNeverReplaces`, `LoadSeesOneFile`. The
key to `DestinationWhole` is `NamedIsSynced`: whatever the path names, or ever
named, is synced. Without it an older directory could come back with a file whose
contents are lost. `PublishedIsThere` ties a save's progress to the path. The nonce
search (from `ProofSearchAssumption`), for every last nonce and limit:
`SearchTypeCorrect`, `SearchIsExact`; the invariant `Progress` says that all nonces
before the current one were tried and missed.

The Merkle root (from `MerkleAssumption`), for lists of any length: `MerkleInvariance`,
`MerkleTypeCorrect`, and under `HashesApart` (the hash of two nodes is neither a leaf
nor the constant for no leaves: what the domain separators are for) `RootFixesList`.
The invariant says that every level of the loop has the root that its leaves have
(`LoopKeepsRoot`): pairing a level and then building the tree over the pairs is
building one more storey over the level. Two trees with one root have the same height
(`SameTreeSameHeight`), as a leaf is no hash of nodes. Then, from the root down, two
lists without repetition agree under every subtree that they share
(`SameTreeAgrees`); where only one of them had a right half, the other's right half
would equal its left one and its leaves would repeat.

The rate limiter (from `RateWindowAssumption`), for any minute, limits and sizes:
`LimiterInvariance`, `LimiterTypeCorrect` and `LimiterImplementsRateWindow`. In the
invariant the deque is the end of the log, everything before it has left the minute,
times never fall along the log, and the running total is the volume of the deque.
After the pruning, therefore, the deque is exactly what the log has of this minute
(`SuffixIsRecent`), and subtracting what was popped leaves its volume (`VolumeAdd`,
which rests on sums over finite sets not depending on their order).

The end of a node (from `ShutdownAssumption`), for any nodes and links:
`IInvTheorem`, `TypeOKTheorem`, `StorageOutlivesPeers`. The invariant ties the server
and the storage to the steps of `close` (`ServerFollowsMain`, `StorageFollowsMain`),
an accepted transport to a server that has not returned from `wait_closed`
(`AcceptedHoldsServer`), and everything still running to the snapshot that `close`
cancels (`SnapshotIsComplete`), abandoned tasks apart.

**`WireProofs`**: one connection in time (from `PeerLinkAssumption`), for any timeouts, queue bounds, buffer
sizes, responses and relays: `LinkTypeCorrect`, and where `LineIsFast`
(`2 * MaxDelay < IdleTimeout`) `LinkInvariance` and `LivePeerKept`. The guards of an
action say nothing of what is on its way, so the invariant does. A task has at most
one frame in the queue (`OneSendOfTask`), and pieces come in the order of their ages
(`OldestFirst`). What an end reads next is the part it expects, and in the middle of a
frame it has waited no longer than the rest of the frame has been on its way
(`Aligned`), so the idle timeout cannot strike there. Between two open ends there is
exactly one message of the keepalive call that one of them waits for, its PING or the
PONG, counted over handlers, queues and pipes, and none of any other call
(`OneToken`): so a PONG is always the expected one. While an end waits for it,
`AnsweredInTime` bounds the wait by what is on its way: if something comes, the wait
is at most a delay longer than that has been under way; if nothing comes, it is at most
a delay, as the peer has not read the PING yet, or has to answer it at once. A peer
that is busy writing blocks needs no bound on its queue, because every piece that
comes ends the wait. `LineIsFast` is sharp.

The decoders (from `CodecAssumption`, `LimitsFit` and `ReaderAssumption`), for any
bytes, base, widths, limits, domains and values: `DecodingInvariance`,
`AcceptedIsCanonical`, `SentInvariance`, `SentIsRead`, `ReaderTypeCorrect`. `LimitsFit`
says that the limits fit a 32-bit length, and `ReaderAssumption` that the values sent
are `Encodable`: numbers within their widths, fields and lists within the reader's
limits. The two directions have an invariant each.

* Whatever bytes came, `Stage` says that what has been read, written again, and what
  is left are those bytes: with the domain to come, between two fields (`AtField`), or
  between two items of the list a kind ends with (`AtItem`). Every step moves one
  piece from what is left to what is read, and what it moves is again what the
  encoder would write of it: a number's digits (`NumbersAreCanonical`), a text whose
  normal form is itself, a positive number of full width. When nothing is left, the
  bytes are the encoding. `BlockReading` lifts this to a block: the envelope, then its
  parts one after another, each with a `Stage` of its own, the parts already decoded
  being what the envelope held.
* Of bytes that encode a value, `SentIInv` says that what is left is the encoding of
  the fields, items and parts to come. So the length that comes next is within its
  limit, the bytes it counts are there, and they pass every test (`SentProper`): no
  step refuses (`Readable`), and what is read is the value in normal form.

Both rest on numbers of a fixed width being sequences of digits one to one, on the
normal form of a text being its own normal form (`NormalFacts`, over the model's
alphabet of a letter, a combining mark and their composition), and on `Join` being
associative; they are inductions over natural numbers through `Induction`, which
comes from the library's theorem that `<` is well-founded.

Only model-checked: liveness (`AdvertisedWorkReached`, `SentWorkReached`, `Settles`,
`EndsAgree`, `ExitUnlessUnread`, `DeadPeerNoticed`, `HandlersReturn`), which is outside
the prover's reach; `OnlyDeepForksPenalized`, which holds where all blocks add the
same work and is no theorem of every tree (see above); and `PoolsConverge`, which has
no proof (see the plan).

## 5. Plan

All modules of the plan are written. Of its theorems one is open: `PoolsConverge` for
`TxRelay`, which needs what a drained flood has delivered to whom, over pools that
refuse for different reasons at every node, and holds of instances like the one
checked rather than of every set of wallets and miners. Any further work would start
there.

## 6. Not modelled

* Hashing, addresses, key derivation, encryption, the permissions of files: pure
  functions or library calls. Hashes are taken as injective, signatures as
  authentic or not.
* The frame header (magic, version, type, 32-bit length): vectors and round-trip
  tests reach it. What the encoder raises on is a condition on the values sent.
* SQL and the storage byte formats: a row is its values.
* A second Ctrl+C during `close`, and a program that calls `connect` on one task
  while it closes on another: the command line does neither.
* Argument parsing, output, and the one-shot commands, which only call the
  components above; the inspection queries, which change nothing.
* Peers that lie, beyond what frames may cost points in `PeerAdmission` and what
  changed bytes a decoder meets in `Reader`.
