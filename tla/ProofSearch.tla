---------------------------- MODULE ProofSearch ----------------------------
(***************************************************************************)
(* mine_block: the bounded search for a nonce under which a block meets    *)
(* its target.                                                             *)
(***************************************************************************)
EXTENDS Integers

CONSTANTS
  U64Max,        \* U64_MAX, the last nonce
  MaxAttempts    \* bound: max_attempts of a search

ASSUME ProofSearchAssumption == U64Max \in Nat /\ MaxAttempts \in Nat \ {0}

Nonces == 0 .. U64Max

VARIABLES
  meets,      \* the nonces whose block hash meets the target
  first,      \* block.header.nonce
  attempts,   \* max_attempts
  tried,      \* turns of the loop
  nonce,
  answer      \* "searching", "found" a candidate, or "none": MiningError

searchVars == <<meets, first, attempts, tried, nonce, answer>>

SearchInit ==
  /\ meets \in SUBSET Nonces /\ first \in Nonces /\ attempts \in 1 .. MaxAttempts
  /\ tried = 0 /\ nonce = first /\ answer = "searching"

Searching == answer = "searching"

ExhaustedEarly == tried = attempts - 1 \/ nonce > U64Max

(* The loop has made its turns, or breaks. *)
Exhausted == tried = attempts \/ nonce > U64Max

Find ==
  /\ Searching /\ ~Exhausted /\ nonce \in meets
  /\ answer' = "found"
  /\ UNCHANGED <<meets, first, attempts, tried, nonce>>

TryNext ==
  /\ Searching /\ ~Exhausted /\ nonce \notin meets
  /\ tried' = tried + 1 /\ nonce' = nonce + 1
  /\ UNCHANGED <<meets, first, attempts, answer>>

GiveUp ==
  /\ Searching /\ Exhausted
  /\ answer' = "none"
  /\ UNCHANGED <<meets, first, attempts, tried, nonce>>

SearchNext == Find \/ TryNext \/ GiveUp

SearchSpec == SearchInit /\ [][SearchNext]_searchVars

-----------------------------------------------------------------------------
(* No nonce is used that has no encoding, unless to end the loop. *)
SearchTypeOK ==
  /\ meets \subseteq Nonces /\ first \in Nonces /\ attempts \in 1 .. MaxAttempts
  /\ tried \in 0 .. attempts /\ nonce \in 0 .. U64Max + 1
  /\ answer \in {"searching", "found", "none"}
  /\ answer = "found" => nonce \in Nonces

(* The nonces that the search is to look at, and the answer it owes: the
   first of them that meets the target, or none when there is none.  At the end
   of the range fewer than max_attempts are left (mine_block). *)
Due == {n \in Nonces : first <= n /\ n < first + attempts}

SearchIsExact ==
  /\ answer = "found" => nonce \in Due /\ \A n \in Due \cap meets : nonce <= n
  /\ answer = "none" => Due \cap meets = {}
=============================================================================
