----------------------------- MODULE MCStandalone ---------------------------
(***************************************************************************)
(* The components that share no state with any other, checked by one run:  *)
(* wallet files, the rate limiter, the decoders, the Merkle root and the   *)
(* Proof-of-Work search.  `unit` is the one that runs in a behaviour; the  *)
(* others rest in one of their initial states.                             *)
(***************************************************************************)
EXTENDS WalletFile, RateLimiter, Reader, Merkle, ProofSearch

CONSTANTS s1, s2, s3, q1

VARIABLE unit

units == <<walletVars, limiterVars, readerVars, merkleVars, searchVars>>

ReaderAtRest == ReaderInit /\ kind = "Ping" /\ value = <<0>>
MerkleAtRest == \E x \in Leaf : MerkleInit /\ leaves = <<x, x>>
SearchAtRest == SearchInit /\ meets = {} /\ first = 0 /\ attempts = 1

Init ==
  /\ unit \in {"wallet", "limiter", "reader", "merkle", "search"}
  /\ WalletInit /\ LimiterInit
  /\ IF unit = "reader" THEN ReaderInit ELSE ReaderAtRest
  /\ IF unit = "merkle" THEN MerkleInit ELSE MerkleAtRest
  /\ IF unit = "search" THEN SearchInit ELSE SearchAtRest

Next ==
  /\ UNCHANGED unit
  /\ \/ /\ unit = "wallet" /\ WalletNext
        /\ UNCHANGED <<limiterVars, readerVars, merkleVars, searchVars>>
     \/ /\ unit = "limiter" /\ LimiterNext
        /\ UNCHANGED <<walletVars, readerVars, merkleVars, searchVars>>
     \/ /\ unit = "reader" /\ ReaderNext
        /\ UNCHANGED <<walletVars, limiterVars, merkleVars, searchVars>>
     \/ /\ unit = "merkle" /\ MerkleNext
        /\ UNCHANGED <<walletVars, limiterVars, readerVars, searchVars>>
     \/ /\ unit = "search" /\ SearchNext
        /\ UNCHANGED <<walletVars, limiterVars, readerVars, merkleVars>>

Spec == Init /\ [][Next]_<<unit, units>>

-----------------------------------------------------------------------------
(* Wallet files: two processes create a wallet, one overwrites, one loads; the
   second creator has another password than the rest. *)
Passwords == [x \in Saves \cup Loads |-> IF x = s2 THEN "other" ELSE "secret"]
OneChain  == [x \in Saves \cup Loads |-> "testnet"]

-----------------------------------------------------------------------------
(* The decoders: a byte has six values, and every kind a few messages. *)
MCDomain ==
  [k \in Kinds \ {"Ping"} |->
     CASE k = "Hello" -> <<1>>             [] k = "BlockLocator" -> <<2>>
       [] k = "ChainSummary" -> <<3>>      [] k = "Reject" -> <<4>>
       [] k = "Transaction" -> <<5>>       [] k = "RewardTransaction" -> <<5, 1>>
       [] k = "BlockHeader" -> <<5, 2>>    [] k = "Block" -> <<5, 3>>]

Hash1 == <<1, 1>>
Hash2 == <<0, 5>>
Accented == <<Letter, Combining, 4>>       \* not normalized
Short    == <<Combining>>

Transfers == {<<1, Accented, <<2, 3>>, <<4>>, Short, 5, 0, 2, 1, <<3, 3>>>>,
              <<0, <<>>, <<>>, <<>>, <<>>, 0, 0, 0, 0, <<>>>>}
Rewards   == {<<1, <<4>>, 1, Accented, 5>>}
Headers   == {<<1, <<4>>, 0, Hash1, Hash2, Hash1, 3, 35, 5, Short>>,
              <<1, <<4, 4>>, 1, Hash2, Hash2, Hash2, 3, 1, 0, Accented>>}

MCValues ==
  [k \in Kinds |->
     CASE k = "Hello" -> {<<<<2, 4>>, n, Hash1, Hash2, 5, w, 3>> :
                            n \in {Accented, <<>>}, w \in {1, 7}}
       [] k = "BlockLocator" -> {<<<<Hash1>>>>, <<<<Hash1, Hash2>>>>, <<<<Hash2, Hash2, Hash1>>>>}
       [] k = "ChainSummary" -> {<<h, n, w>> : h \in {Hash1, Hash2}, n \in {0, 5}, w \in {1, 35}}
       [] k = "Reject" -> {<<c, t>> : c \in Byte, t \in {Accented, Short, <<Letter, Letter, Combining>>}}
       [] k = "Ping" -> {<<n>> : n \in Byte}
       [] k = "Transaction" -> Transfers
       [] k = "RewardTransaction" -> Rewards
       [] k = "BlockHeader" -> Headers
       [] k = "Block" -> {<<h, r, t>> : h \in Headers, r \in Rewards,
                            t \in {<<>>} \cup {<<x>> : x \in Transfers}}]

MCMaxEdits == [k \in Kinds |-> IF k = "Ping" THEN 2 ELSE 1]
=============================================================================
