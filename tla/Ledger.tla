------------------------------- MODULE Ledger -------------------------------
(***************************************************************************)
(* The consensus rules of ourcoin as pure operators: when a transaction    *)
(* may execute (transaction.py, state.py), what it does to the accounts,   *)
(* how much a block may mint, and when a block is a valid child of its     *)
(* parent (consensus.py).                                                  *)
(*                                                                         *)
(* A Python exception is an outcome whose ok field is FALSE.  SHA-256 is   *)
(* taken to be injective, so a block IS its own hash, a transaction its    *)
(* own txid, and a state root is the account table it commits to.          *)
(***************************************************************************)
EXTENDS Integers, Sequences, FiniteSets, FiniteSetsExt

CONSTANTS
  Addresses,            \* the account addresses of the network
  U64Max,               \* largest value of the wire format's integers
  MaxSupply,            \* MAX_SUPPLY_ATOMS
  InitialReward,        \* INITIAL_REWARD_ATOMS
  RewardInterval,       \* blocks per reward era
  RewardNumerator,      \* every era pays RewardNumerator/RewardDenominator
  RewardDenominator,    \*   of the era before it
  MaxBlockTransactions, \* MAX_BLOCK_TRANSACTIONS
  MaxTarget,            \* the easiest difficulty target
  InitialTarget,        \* the target of the genesis block
  GenesisTimestamp,     \* the timestamp of the genesis block
  GenesisMiner,         \* the miner named by the genesis block (it earns 0)
  NoBlock               \* the all-zero hash, which is no block's

ASSUME LedgerAssumption ==
  /\ IsFiniteSet(Addresses)
  /\ U64Max \in Nat
  /\ MaxSupply \in 0..U64Max
  /\ InitialReward \in 0..U64Max
  /\ RewardInterval \in Nat \ {0}
  /\ RewardNumerator \in Nat
  /\ RewardDenominator \in Nat \ {0}
  /\ RewardNumerator <= RewardDenominator
  /\ MaxBlockTransactions \in Nat
  /\ MaxTarget \in Nat \ {0}
  /\ InitialTarget \in 1..MaxTarget
  /\ GenesisTimestamp \in 0..U64Max
  /\ GenesisMiner \in Addresses

(***************************************************************************)
(* Accounts.  An address without an entry in the code's dictionary reads   *)
(* as the default account, so the table is a total function.               *)
(***************************************************************************)
Account == [balance : 0..U64Max, nonce : 0..U64Max]

EmptyState ==
  [accounts  |-> [a \in Addresses |-> [balance |-> 0, nonce |-> 0]],
   confirmed |-> {}]

(***************************************************************************)
(* validate_transaction.  authentic stands for everything that depends on  *)
(* the transaction alone: version, chain id, lengths, the sender's address *)
(* matching its public key, and the signature.                             *)
(***************************************************************************)
ValidTransaction(tx, height) ==
  /\ tx.authentic
  /\ tx.amount \in 1..U64Max
  /\ tx.fee \in 0..U64Max
  /\ tx.nonce \in 0..U64Max
  /\ tx.amount + tx.fee <= U64Max
  /\ height <= tx.validUntil

(* The nonce rule of validate, and what it would be as a mere lower bound. *)
NonceIsAtLeastNext(tx, sender) == tx.nonce >= sender.nonce
NonceIsNext(tx, sender) == tx.nonce = sender.nonce

(* The funds rule of validate. *)
CoversCost(tx, sender) == sender.balance >= tx.amount + tx.fee

(* AccountState.validate: tx is the next transaction of its sender. *)
Executable(st, tx, height) ==
  LET sender == st.accounts[tx.sender] IN
  /\ ValidTransaction(tx, height)
  /\ tx \notin st.confirmed
  /\ NonceIsNext(tx, sender)
  /\ sender.nonce # U64Max
  /\ CoversCost(tx, sender)

(* The amount a recipient other than the sender would hold is too large. *)
RecipientOverflows(st, tx) ==
  /\ tx.recipient # tx.sender
  /\ st.accounts[tx.recipient].balance + tx.amount > U64Max

(* What the sender pays: a transfer to oneself only burns the fee. *)
Cost(tx) == IF tx.recipient = tx.sender THEN tx.fee ELSE tx.amount + tx.fee

(* AccountState._apply_validated *)
ApplyValidated(st, tx) ==
  LET paid == [st.accounts EXCEPT ![tx.sender] =
                 [balance |-> @.balance - Cost(tx), nonce |-> @.nonce + 1]]
  IN  [accounts  |-> IF tx.recipient = tx.sender
                       THEN paid
                       ELSE [paid EXCEPT ![tx.recipient].balance = @ + tx.amount],
       confirmed |-> st.confirmed \cup {tx}]

(***************************************************************************)
(* AccountState.apply_transactions: the batch runs on a working copy, and  *)
(* the first failure abandons it.  BatchRun(...)[i] is the working copy    *)
(* after i transactions.                                                   *)
(***************************************************************************)
ApplyNext(run, tx, height) ==
  IF /\ run.ok
     /\ Executable(run.state, tx, height)
     /\ ~RecipientOverflows(run.state, tx)
     /\ run.fees + tx.fee <= U64Max
  THEN [ok |-> TRUE, state |-> ApplyValidated(run.state, tx), fees |-> run.fees + tx.fee]
  ELSE [run EXCEPT !.ok = FALSE]

ApplyTransactions(st, txs, height) ==
  LET run[i \in 0..Len(txs)] ==
        IF i = 0 THEN [ok |-> TRUE, state |-> st, fees |-> 0]
                 ELSE ApplyNext(run[i - 1], txs[i], height)
  IN  run[Len(txs)]

(***************************************************************************)
(* block_subsidy: the era's reward, capped by what is left to mint.        *)
(***************************************************************************)
EraReward[era \in Nat] ==
  IF era = 0 THEN InitialReward
             ELSE (EraReward[era - 1] * RewardNumerator) \div RewardDenominator

ScheduledSubsidy(reward, supply) == reward
CappedSubsidy(reward, supply) ==
  IF reward <= MaxSupply - supply THEN reward ELSE MaxSupply - supply

BlockSubsidy(height, supply) ==
  IF height = 0 \/ supply = MaxSupply
    THEN 0
    ELSE CappedSubsidy(EraReward[height \div RewardInterval], supply)

(* AccountState.credit_reward on a working copy. *)
CreditOverflows(st, miner, amount) == st.accounts[miner].balance + amount > U64Max
CreditReward(st, miner, amount) == [st EXCEPT !.accounts[miner].balance = @ + amount]

(***************************************************************************)
(* Running a block body on its parent's state: what build_block_candidate  *)
(* and validate_and_execute_block have in common.  The miner is entitled   *)
(* to the subsidy and the fees of the batch run.                           *)
(***************************************************************************)
Rewarded(run, st, supply, subsidy, miner, txs) ==
  LET reward == subsidy + run.fees
      ok     == /\ supply \in 0..MaxSupply
                /\ Len(txs) <= MaxBlockTransactions
                /\ run.ok
                /\ reward <= U64Max
                /\ ~CreditOverflows(run.state, miner, reward)
  IN  [ok     |-> ok,
       state  |-> IF ok THEN CreditReward(run.state, miner, reward) ELSE st,
       supply |-> supply + subsidy,
       reward |-> reward]

RunBody(st, supply, height, miner, txs) ==
  Rewarded(ApplyTransactions(st, txs, height), st, supply,
           BlockSubsidy(height, supply), miner, txs)

(***************************************************************************)
(* Blocks.  sealed stands for what depends on the block alone: versions,   *)
(* chain ids, well-formed addresses, a transactions root that matches the  *)
(* body, and a hash that meets the header's target.                        *)
(***************************************************************************)
GenesisBlock ==
  [prev |-> NoBlock, height |-> 0, timestamp |-> GenesisTimestamp,
   target |-> InitialTarget, miner |-> GenesisMiner, transactions |-> <<>>,
   reward |-> [height |-> 0, miner |-> GenesisMiner, amount |-> 0],
   stateRoot |-> EmptyState.accounts, sealed |-> TRUE]

(* build_block_candidate followed by mine_block, which seals it; body is what
   running the transactions gives. *)
Candidate(parent, body, miner, txs, timestamp, target) ==
  LET height == parent.height + 1
  IN  [ok |-> /\ parent.height # U64Max
              /\ timestamp \in 0..U64Max
              /\ timestamp > parent.timestamp
              /\ target \in 1..MaxTarget
              /\ body.ok,
       block |-> [prev |-> parent, height |-> height, timestamp |-> timestamp,
                  target |-> target, miner |-> miner, transactions |-> txs,
                  reward |-> [height |-> height, miner |-> miner,
                              amount |-> body.reward],
                  stateRoot |-> body.state.accounts, sealed |-> TRUE]]

BuildBlockCandidate(parent, st, supply, miner, txs, timestamp, target) ==
  Candidate(parent, RunBody(st, supply, parent.height + 1, miner, txs),
            miner, txs, timestamp, target)

(* The clock rule for a child. *)
TimestampIncreases(b, parent) == b.timestamp > parent.timestamp

(* validate_and_execute_block on a block with a parent; body is what running
   its transactions gives. *)
Verdict(b, parent, body, expectedTarget) ==
  [ok |-> /\ b.height = parent.height + 1
          /\ b.prev = parent
          /\ TimestampIncreases(b, parent)
          /\ expectedTarget \in 1..MaxTarget
          /\ b.target = expectedTarget
          /\ b.sealed
          /\ b.reward.height = b.height
          /\ b.reward.miner = b.miner
          /\ body.ok
          /\ b.reward.amount = body.reward
          /\ b.stateRoot = body.state.accounts,
   state |-> body.state, supply |-> body.supply]

ValidateAndExecuteBlock(b, parent, st, supply, expectedTarget) ==
  Verdict(b, parent, RunBody(st, supply, b.height, b.reward.miner, b.transactions),
          expectedTarget)
=============================================================================
