------------------------------ MODULE Mempool ------------------------------
(***************************************************************************)
(* The pending pool of mempool.py as a value and the operations on it.     *)
(*     [txs |-> pending transactions, index |-> (sender, nonce) -> txid]   *)
(* The two dictionaries of the code are kept apart: nothing but the order  *)
(* of the updates keeps them in step.                                      *)
(***************************************************************************)
EXTENDS Ledger, SequencesExt, Functions

CONSTANTS
  MaxPool,              \* MAX_MEMPOOL_TRANSACTIONS
  MaxPendingPerSender   \* MAX_PENDING_PER_SENDER

ASSUME MempoolAssumption == MaxPool \in Nat /\ MaxPendingPerSender \in Nat

EmptyPool == [txs |-> {}, index |-> <<>>]

(* _sender_transactions, before sorting *)
SenderTxs(pool, sender) == {t \in pool.txs : t.sender = sender}

CostOf(txs) == MapThenSumSet(LAMBDA t : t.amount + t.fee, txs)

(* sorted: the members of S, each behind all that come before it in a total
   order. *)
Sorted(S, Before(_, _)) ==
  [i \in 1..Cardinality(S) |->
     CHOOSE t \in S : Cardinality({u \in S : Before(u, t)}) = i - 1]

ByNonce(t, u) == t.nonce < u.nonce

(***************************************************************************)
(* next_nonce: one past the longest run of pending nonces that starts at   *)
(* the account's.                                                          *)
(***************************************************************************)
NextNonce(pool, st, sender) ==
  LET first   == st.accounts[sender].nonce
      pending == Sorted(SenderTxs(pool, sender), ByNonce)
      runs    == {n \in 0..Len(pending) :
                    \A i \in 1..n : pending[i].nonce = first + i - 1}
      next    == first + Max(runs)
  IN  [ok |-> first # U64Max /\ next <= U64Max, nonce |-> next]

(***************************************************************************)
(* add: the tests in the code's order; Admits is that none of them raises. *)
(***************************************************************************)
(* The sender's funds must cover everything it has pending. *)
FundedWithPending(st, tx, pending) ==
  CostOf(pending) + tx.amount + tx.fee <= st.accounts[tx.sender].balance

(* The pool's limit. *)
HasRoom(pool) == Cardinality(pool.txs) < MaxPool

Admits(pool, st, tx, height) ==
  LET pending == SenderTxs(pool, tx.sender)
      first   == st.accounts[tx.sender].nonce
  IN  /\ HasRoom(pool)
      /\ ValidTransaction(tx, height)
      /\ tx \notin pool.txs
      /\ tx \notin st.confirmed
      /\ <<tx.sender, tx.nonce>> \notin DOMAIN pool.index
      /\ Cardinality(pending) < MaxPendingPerSender
      /\ first # U64Max
      /\ first + Cardinality(pending) <= U64Max
      /\ tx.nonce = first + Cardinality(pending)
      /\ FundedWithPending(st, tx, pending)

Insert(pool, tx) ==
  LET key == <<tx.sender, tx.nonce>>
  IN  [txs   |-> pool.txs \cup {tx},
       index |-> [k \in DOMAIN pool.index \cup {key} |->
                    IF k = key THEN tx ELSE pool.index[k]]]

Add(pool, st, tx, height) ==
  IF Admits(pool, st, tx, height) THEN Insert(pool, tx) ELSE pool

(* Adding several in a given order; a rejected one is skipped. *)
AddEach(pool, st, txs, height) ==
  FoldLeft(LAMBDA p, t : Add(p, st, t, height), pool, txs)

(* remove for each transaction of a block: what is not pending is ignored. *)
RemoveConfirmed(pool, txs) ==
  LET gone == pool.txs \cap Range(txs)
      keys == {<<t.sender, t.nonce>> : t \in gone}
  IN  [txs |-> pool.txs \ gone, index |-> Restrict(pool.index, DOMAIN pool.index \ keys)]

(* clear, and a clear that forgets the second dictionary *)
ClearTransactionsOnly(pool) == [pool EXCEPT !.txs = {}]
Clear(pool) == EmptyPool

(* The order of transactions(): by sender, then by nonce, then by txid; and an
   order that lists a sender's latest transaction first. *)
PoolOrderLatestFirst(t, u) ==
  t.sender < u.sender \/ (t.sender = u.sender /\ t.nonce > u.nonce)
PoolOrder(t, u) ==
  \/ t.sender < u.sender
  \/ t.sender = u.sender /\ t.nonce < u.nonce
  \/ t.sender = u.sender /\ t.nonce = u.nonce /\ t.id < u.id

(* revalidate: empty the pool and add every transaction again. *)
Revalidate(pool, st, height) ==
  AddEach(Clear(pool), st, Sorted(pool.txs, PoolOrder), height)

(***************************************************************************)
(* select: repeatedly take the best-paying transaction that is the next    *)
(* one of its sender on the working state.  A sender whose transaction     *)
(* fails to execute is blocked for the rest of the selection.              *)
(***************************************************************************)
PaysMore(t, u) == t.fee > u.fee \/ (t.fee = u.fee /\ t.id < u.id)

Applies(st, tx, height) == ApplyTransactions(st, <<tx>>, height).ok

(* One round of the outer loop; the variant also blocks the sender just served. *)
BlockedWithServed(blocked, tried, i) == blocked \cup {tried[j].sender : j \in 1..i}
BlockedAfter(blocked, tried, i) == blocked \cup {tried[j].sender : j \in 1..(i - 1)}

SelectRound(pool, sel, height) ==
  LET eligible == {t \in pool.txs :
                     /\ t.sender \notin sel.blocked
                     /\ t.nonce = sel.working.accounts[t.sender].nonce}
      tried    == Sorted(eligible, PaysMore)
      fit      == {i \in DOMAIN tried : Applies(sel.working, tried[i], height)}
      best     == tried[Min(fit)]
  IN  IF fit = {}
        THEN sel
        ELSE [selected |-> Append(sel.selected, best),
              working  |-> ApplyValidated(sel.working, best),
              blocked  |-> BlockedAfter(sel.blocked, tried, Min(fit))]

(* A round that selects nothing is the last one: it would repeat itself. *)
Select(pool, st, height, maxCount) ==
  LET round[n \in 0..maxCount] ==
        IF n = 0 THEN [selected |-> <<>>, working |-> st, blocked |-> {}]
                 ELSE SelectRound(pool, round[n - 1], height)
  IN  round[maxCount].selected
=============================================================================
