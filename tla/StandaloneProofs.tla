--------------------------- MODULE StandaloneProofs --------------------------
(***************************************************************************)
(* What is proved of components that share no state with any other: wallet *)
(* files, the Proof-of-Work search, the Merkle root, the rate limiter, and *)
(* the end of a node.                                                      *)
(***************************************************************************)
EXTENDS WalletFile, ProofSearch, Merkle, RateLimiter, Shutdown, FiniteSetTheorems,
        WellFoundedInduction, TLAPS

(***************************************************************************)
(* Wallet files, for any number of saves and loads, any passwords and      *)
(* networks, and any number of crashes and power losses.  All rests on one *)
(* fact about the order of save_encrypted's steps: a file is given the     *)
(* destination's name only when it is whole and synced.                    *)
(***************************************************************************)
(* Whatever the destination is, or a power loss may turn it back into, is
   synced, and so is a file that is about to get the name. *)
NamedIsSynced ==
  /\ dest \in past
  /\ past \ {NoFile} \subseteq synced
  /\ \A s \in Saves : saving[s] = "ready" => s \in synced
  /\ \A s \in Saves : saving[s] = "written" => data[s] = "whole"

(* SavedIsThere, from the moment the name is given. *)
PublishedIsThere ==
  powerLosses = 0 => \A s \in Saves : saving[s] \in {"cleaning", "saved"} =>
    dest = s \/ dest \in Overwrites

(* A load that has opened a file has one that stays whole, and no result. *)
OpenedIsSynced ==
  \A q \in Loads :
    /\ loading[q] \in {"called", "opened"} => result[q] = NoFile
    /\ loading[q] = "opened" => opened[q] \in synced

WalletIInv ==
  /\ WalletTypeOK /\ NamedIsSynced /\ PublishedIsThere /\ TemporariesRemoved /\ OpenedIsSynced

-----------------------------------------------------------------------------
LEMMA InitWalletIInv == WalletInit => WalletIInv
<1> SUFFICES ASSUME WalletInit PROVE WalletIInv
  OBVIOUS
<1> USE WalletFileAssumption DEF WalletFileAssumption, WalletInit
<1>1. WalletTypeOK
  BY DEF WalletTypeOK
<1>2. NamedIsSynced
  BY DEF NamedIsSynced
<1>3. PublishedIsThere /\ TemporariesRemoved /\ OpenedIsSynced
  BY DEF PublishedIsThere, TemporariesRemoved, OpenedIsSynced
<1> QED
  BY <1>1, <1>2, <1>3 DEF WalletIInv

(* The steps of one save, and its death. *)
LEMMA SaveKeepsTypes ==
  ASSUME WalletIInv, NEW s \in Saves, SaveStep(s) \/ FailToWrite(s) \/ Kill(s)
  PROVE  WalletTypeOK'
<1> USE WalletFileAssumption DEF WalletFileAssumption, WalletIInv, WalletTypeOK, Goto
<1>1. CASE CheckDestination(s)
  BY <1>1 DEF CheckDestination, fileVars, loadVars
<1>2. CASE MakeTemporary(s)
  BY <1>2 DEF MakeTemporary, loadVars
<1>3. CASE WriteSome(s)
  BY <1>3 DEF WriteSome, loadVars
<1>4. CASE WriteRest(s)
  BY <1>4 DEF WriteRest, loadVars
<1>5. CASE Sync(s)
  BY <1>5 DEF Sync, NamedIsSynced, loadVars
<1>6. CASE Publish(s)
  BY <1>6 DEF Publish, Named, loadVars
<1>7. CASE CleanUp(s)
  BY <1>7 DEF CleanUp, AfterCleaning, loadVars
<1>8. CASE FailToWrite(s) \/ Kill(s)
  BY <1>8 DEF FailToWrite, Kill, fileVars, loadVars
<1> QED
  BY <1>1, <1>2, <1>3, <1>4, <1>5, <1>6, <1>7, <1>8 DEF SaveStep

LEMMA SaveKeepsOrder ==
  ASSUME WalletIInv, NEW s \in Saves, SaveStep(s) \/ FailToWrite(s) \/ Kill(s)
  PROVE  NamedIsSynced'
<1> USE WalletFileAssumption DEF WalletFileAssumption, WalletIInv, WalletTypeOK, Goto, NamedIsSynced
<1>1. CASE CheckDestination(s)
  BY <1>1 DEF CheckDestination, fileVars
<1>2. CASE MakeTemporary(s)
  BY <1>2 DEF MakeTemporary
<1>3. CASE WriteSome(s)
  BY <1>3 DEF WriteSome
<1>4. CASE WriteRest(s)
  BY <1>4 DEF WriteRest
<1>5. CASE Sync(s)
  BY <1>5 DEF Sync
<1>6. CASE Publish(s)
  BY <1>6 DEF Publish, Named
<1>7. CASE CleanUp(s)
  BY <1>7 DEF CleanUp, AfterCleaning
<1>8. CASE FailToWrite(s) \/ Kill(s)
  BY <1>8 DEF FailToWrite, Kill, fileVars
<1> QED
  BY <1>1, <1>2, <1>3, <1>4, <1>5, <1>6, <1>7, <1>8 DEF SaveStep

LEMMA SaveKeepsPublished ==
  ASSUME WalletIInv, NEW s \in Saves, SaveStep(s) \/ FailToWrite(s) \/ Kill(s)
  PROVE  PublishedIsThere' /\ TemporariesRemoved'
<1> USE WalletFileAssumption
    DEF WalletFileAssumption, WalletIInv, WalletTypeOK, Goto, PublishedIsThere, TemporariesRemoved
<1>1. CASE CheckDestination(s)
  BY <1>1 DEF CheckDestination, fileVars
<1>2. CASE MakeTemporary(s)
  BY <1>2 DEF MakeTemporary
<1>3. CASE WriteSome(s)
  BY <1>3 DEF WriteSome
<1>4. CASE WriteRest(s)
  BY <1>4 DEF WriteRest
<1>5. CASE Sync(s)
  BY <1>5 DEF Sync
<1>6. CASE Publish(s)
  <2>1. CASE s \in Overwrites
    BY <1>6, <2>1 DEF Publish, Named
  <2>2. CASE s \notin Overwrites /\ dest = NoFile
    BY <1>6, <2>2 DEF Publish, Named
  <2>3. CASE s \notin Overwrites /\ dest # NoFile
    BY <1>6, <2>3 DEF Publish
  <2> QED
    BY <2>1, <2>2, <2>3
<1>7. CASE CleanUp(s)
  BY <1>7 DEF CleanUp, AfterCleaning
<1>8. CASE FailToWrite(s) \/ Kill(s)
  BY <1>8 DEF FailToWrite, Kill, Ended, fileVars
<1> QED
  BY <1>1, <1>2, <1>3, <1>4, <1>5, <1>6, <1>7, <1>8 DEF SaveStep

(* A save disturbs no load: what is synced stays so. *)
LEMMA SaveKeepsLoads ==
  ASSUME WalletIInv, NEW s \in Saves, SaveStep(s) \/ FailToWrite(s) \/ Kill(s)
  PROVE  OpenedIsSynced'
<1>1. UNCHANGED loadVars /\ synced \subseteq synced'
  BY DEF SaveStep, CheckDestination, MakeTemporary, WriteSome, WriteRest, Sync, Publish,
         CleanUp, FailToWrite, Kill, fileVars
<1> QED
  BY <1>1 DEF WalletIInv, OpenedIsSynced, loadVars

LEMMA LoadKeepsWalletIInv ==
  ASSUME WalletIInv, NEW q \in Loads, LoadStep(q)
  PROVE  WalletIInv'
<1> USE WalletFileAssumption DEF WalletFileAssumption, WalletIInv
<1>1. UNCHANGED <<fileVars, saving, powerLosses>>
  BY DEF LoadStep, Open, Load
<1>2. NamedIsSynced' /\ PublishedIsThere' /\ TemporariesRemoved'
  BY <1>1 DEF NamedIsSynced, PublishedIsThere, TemporariesRemoved, fileVars
<1>3. CASE Open(q)
  <2>1. WalletTypeOK'
    BY <1>1, <1>3 DEF Open, WalletTypeOK, fileVars
  <2>2. OpenedIsSynced'
    BY <1>1, <1>3 DEF Open, WalletTypeOK, OpenedIsSynced, NamedIsSynced, fileVars
  <2> QED
    BY <1>2, <2>1, <2>2
<1>4. CASE Load(q)
  <2>1. opened[q] \in Saves
    BY <1>4 DEF Load, OpenedIsSynced, WalletTypeOK
  <2>2. WalletTypeOK'
    BY <1>1, <1>4, <2>1 DEF Load, WalletTypeOK, fileVars
  <2>3. OpenedIsSynced'
    BY <1>1, <1>4 DEF Load, WalletTypeOK, OpenedIsSynced, fileVars
  <2> QED
    BY <1>2, <2>2, <2>3
<1> QED
  BY <1>3, <1>4 DEF LoadStep

(* What the power loss takes from the disk was not synced. *)
LEMMA PowerLossKeepsWalletIInv ==
  ASSUME WalletIInv, PowerLoss
  PROVE  WalletIInv'
<1> USE WalletFileAssumption DEF WalletFileAssumption, WalletIInv
<1>1. PICK lost \in SUBSET (Saves \ synced) :
        data' = [s \in Saves |-> IF s \in lost THEN "empty" ELSE data[s]]
  BY DEF PowerLoss
<1>2. /\ dest' \in past /\ past' = {dest'} /\ synced' = synced
      /\ temps' \subseteq Saves
      /\ powerLosses' = powerLosses + 1 /\ powerLosses < MaxPowerLosses
      /\ saving' = [s \in Saves |-> IF Ended(saving[s]) THEN saving[s] ELSE "killed"]
      /\ loading' = [q \in Loads |-> IF loading[q] = "opened" THEN "failed" ELSE loading[q]]
      /\ opened' = opened /\ result' = result
  BY DEF PowerLoss
<1>3. powerLosses' # 0
  BY <1>2 DEF WalletTypeOK
<1>4. WalletTypeOK'
  BY <1>1, <1>2 DEF WalletTypeOK
<1>5. NamedIsSynced'
  BY <1>1, <1>2 DEF NamedIsSynced, WalletTypeOK, Ended
<1>6. PublishedIsThere' /\ TemporariesRemoved'
  BY <1>3 DEF PublishedIsThere, TemporariesRemoved
<1>7. OpenedIsSynced'
  BY <1>2 DEF OpenedIsSynced, WalletTypeOK
<1> QED
  BY <1>4, <1>5, <1>6, <1>7

LEMMA NextWalletIInv == WalletIInv /\ [WalletNext]_walletVars => WalletIInv'
<1> SUFFICES ASSUME WalletIInv, [WalletNext]_walletVars PROVE WalletIInv'
  OBVIOUS
<1>1. ASSUME NEW s \in Saves, SaveStep(s) \/ FailToWrite(s) \/ Kill(s) PROVE WalletIInv'
  BY <1>1, SaveKeepsTypes, SaveKeepsOrder, SaveKeepsPublished, SaveKeepsLoads DEF WalletIInv
<1>2. ASSUME NEW q \in Loads, LoadStep(q) PROVE WalletIInv'
  BY <1>2, LoadKeepsWalletIInv
<1>3. CASE PowerLoss
  BY <1>3, PowerLossKeepsWalletIInv
<1>4. CASE UNCHANGED walletVars
  BY <1>4 DEF WalletIInv, WalletTypeOK, NamedIsSynced, PublishedIsThere, TemporariesRemoved,
              OpenedIsSynced, walletVars, fileVars, loadVars
<1> QED
  BY <1>1, <1>2, <1>3, <1>4 DEF WalletNext

-----------------------------------------------------------------------------
(* The inductive invariant holds throughout (wallet.py, save_encrypted and
   load_encrypted). *)
THEOREM WalletInvariance == WalletSpec => []WalletIInv
<1> QED
  BY InitWalletIInv, NextWalletIInv, PTL DEF WalletSpec

(* Types, and that what is synced is whole. *)
THEOREM WalletTypeCorrect == WalletSpec => []WalletTypeOK
<1>1. WalletIInv => WalletTypeOK
  BY DEF WalletIInv
<1> QED
  BY WalletInvariance, <1>1, PTL

(* The destination is absent or a whole wallet document, whatever crashes:
   save_encrypted's temporary file and fsync. *)
THEOREM DestinationWholeTheorem == WalletSpec => []DestinationWhole
<1>1. WalletIInv => DestinationWhole
  BY DEF WalletIInv, WalletTypeOK, NamedIsSynced, DestinationWhole
<1> QED
  BY WalletInvariance, <1>1, PTL

(* A save that reported success is at the destination or was overwritten. *)
THEOREM SavedIsThereTheorem == WalletSpec => []SavedIsThere
<1>1. WalletIInv => SavedIsThere
  BY DEF WalletIInv, PublishedIsThere, SavedIsThere
<1> QED
  BY WalletInvariance, <1>1, PTL

(* A save that ends leaves no temporary name behind: its finally block. *)
THEOREM TemporariesRemovedTheorem == WalletSpec => []TemporariesRemoved
<1>1. WalletIInv => TemporariesRemoved
  BY DEF WalletIInv
<1> QED
  BY WalletInvariance, <1>1, PTL

(* Only an overwriting save takes the destination from a wallet: os.link is the
   check and the act in one. *)
THEOREM CreateNeverReplacesTheorem == WalletSpec => CreateNeverReplaces
<1> DEFINE Keeps == dest # NoFile /\ dest' # dest =>
                      dest' \in Overwrites \/ powerLosses' # powerLosses
<1>1. WalletIInv /\ [WalletNext]_walletVars => [Keeps]_walletVars
  <2> SUFFICES ASSUME WalletIInv, WalletNext, dest # NoFile, dest' # dest
               PROVE  dest' \in Overwrites \/ powerLosses' # powerLosses
    BY DEF walletVars
  <2>1. ASSUME NEW s \in Saves, SaveStep(s) \/ FailToWrite(s) \/ Kill(s)
        PROVE  dest' \in Overwrites
    BY <2>1 DEF SaveStep, CheckDestination, MakeTemporary, WriteSome, WriteRest, Sync,
                Publish, Named, CleanUp, FailToWrite, Kill, fileVars
  <2>2. ASSUME NEW q \in Loads, LoadStep(q) PROVE FALSE
    BY <2>2 DEF LoadStep, Open, Load, fileVars
  <2>3. CASE PowerLoss
    BY <2>3 DEF PowerLoss, WalletIInv, WalletTypeOK
  <2> QED
    BY <2>1, <2>2, <2>3 DEF WalletNext
<1> QED
  BY WalletInvariance, <1>1, PTL DEF WalletSpec, CreateNeverReplaces

(* A load returns the wallet of the file it opened or none, whatever is saved
   between its open and its read. *)
THEOREM LoadSeesOneFileTheorem == WalletSpec => LoadSeesOneFile
<1> DEFINE Sees(q) ==
             loading[q] = "opened" /\ loading'[q] # "opened" /\ powerLosses' = powerLosses
               => /\ loading'[q] = "loaded" <=> Fits(q, opened[q])
                  /\ result'[q] = IF Fits(q, opened[q]) THEN opened[q] ELSE NoFile
<1>1. WalletIInv /\ [WalletNext]_walletVars => [\A q \in Loads : Sees(q)]_walletVars
  <2> SUFFICES ASSUME WalletIInv, WalletNext, NEW q \in Loads, loading[q] = "opened",
                      loading'[q] # "opened", powerLosses' = powerLosses
               PROVE  /\ loading'[q] = "loaded" <=> Fits(q, opened[q])
                      /\ result'[q] = IF Fits(q, opened[q]) THEN opened[q] ELSE NoFile
    BY DEF walletVars
  <2>1. opened[q] \in synced /\ result[q] = NoFile /\ data[opened[q]] = "whole"
    BY DEF WalletIInv, OpenedIsSynced, WalletTypeOK
  <2>2. ASSUME NEW s \in Saves, SaveStep(s) \/ FailToWrite(s) \/ Kill(s) PROVE FALSE
    BY <2>2 DEF SaveStep, CheckDestination, MakeTemporary, WriteSome, WriteRest, Sync,
                Publish, CleanUp, FailToWrite, Kill, loadVars
  <2>3. ASSUME NEW r \in Loads, LoadStep(r), r # q PROVE FALSE
    BY <2>3 DEF LoadStep, Open, Load, WalletIInv, WalletTypeOK
  <2>4. ~PowerLoss
    BY DEF PowerLoss, WalletIInv, WalletTypeOK
  <2>5. Load(q)
    BY <2>2, <2>3, <2>4 DEF WalletNext, LoadStep, Open
  <2> QED
    BY <2>1, <2>5 DEF Load, Decrypts, WalletIInv, WalletTypeOK
<1> QED
  BY WalletInvariance, <1>1, PTL DEF WalletSpec, LoadSeesOneFile

-----------------------------------------------------------------------------
(***************************************************************************)
(* The search of mine_block for every U64_MAX, every first nonce, every    *)
(* max_attempts and every set of nonces that meet the target.              *)
(***************************************************************************)
(* The loop has looked at the nonces before this one and found nothing. *)
SearchProgress ==
  /\ nonce = first + tried
  /\ \A n \in meets : ~(first <= n /\ n < nonce)

SearchIInv == SearchTypeOK /\ SearchProgress /\ SearchIsExact

LEMMA InitSearchIInv == SearchInit => SearchIInv
BY ProofSearchAssumption DEF ProofSearchAssumption, SearchInit, SearchIInv, SearchTypeOK, SearchProgress, SearchIsExact, Nonces

LEMMA NextSearchIInv == SearchIInv /\ [SearchNext]_searchVars => SearchIInv'
<1> SUFFICES ASSUME SearchIInv, [SearchNext]_searchVars PROVE SearchIInv'
  OBVIOUS
<1> USE ProofSearchAssumption
    DEF ProofSearchAssumption, SearchIInv, SearchTypeOK, SearchProgress, SearchIsExact, Due, Nonces,
        Searching, Exhausted
<1>1. CASE Find
  BY <1>1 DEF Find
<1>2. CASE TryNext
  BY <1>2 DEF TryNext
<1>3. CASE GiveUp
  BY <1>3 DEF GiveUp
<1>4. CASE UNCHANGED searchVars
  BY <1>4 DEF searchVars
<1> QED
  BY <1>1, <1>2, <1>3, <1>4 DEF SearchNext

(* The search never seals a nonce that has no 64-bit encoding, and the counter
   of its turns stays within max_attempts (mine_block). *)
THEOREM SearchTypeCorrect == SearchSpec => []SearchTypeOK
<1>1. SearchIInv => SearchTypeOK
  BY DEF SearchIInv
<1> QED
  BY <1>1, InitSearchIInv, NextSearchIInv, PTL DEF SearchSpec

(* mine_block's answer is the first nonce of its window that meets the target,
   and MiningError means that there is none, at the end of the range too. *)
THEOREM SearchIsExactTheorem == SearchSpec => []SearchIsExact
<1>1. SearchIInv => SearchIsExact
  BY DEF SearchIInv
<1> QED
  BY <1>1, InitSearchIInv, NextSearchIInv, PTL DEF SearchSpec

-----------------------------------------------------------------------------
(***************************************************************************)
(* The Merkle root of a list of any length: the loop computes the tree of  *)
(* the list, and lists without repetition with one tree are one list.      *)
(***************************************************************************)
(* A set of natural numbers that is not empty has a least element. *)
LEMMA NatMin ==
  ASSUME NEW T \in SUBSET Nat, T # {}
  PROVE  \E x \in T : \A y \in T : x <= y
<1>1. \E R : IsWellFoundedOn(R, Nat) /\ \A x, y \in Nat : x < y => <<x, y>> \in R
  <2>1. IsWellFoundedOn(OpToRel(<, Nat), Nat)
    BY NatLessThanWellFounded, Zenon
  <2>2. \A x, y \in Nat : x < y => <<x, y>> \in OpToRel(<, Nat)
    BY Zenon DEF OpToRel
  <2> QED
    BY <2>1, <2>2, Zenon
<1>2. PICK R : IsWellFoundedOn(R, Nat) /\ \A x, y \in Nat : x < y => <<x, y>> \in R
  BY <1>1
<1>3. \E x \in T : \A y \in T : ~(<<y, x>> \in R)
  <2>1. IsWellFoundedOn(R, Nat)
    BY <1>2
  <2>2. T \subseteq Nat /\ T # {}
    OBVIOUS
  <2> QED
    BY <2>1, <2>2, WFMin
<1>4. PICK x \in T : \A y \in T : ~(<<y, x>> \in R)
  BY <1>3
<1>5. \A y \in T : ~(y < x)
  BY <1>2, <1>4
<1>6. \A y \in T : x <= y
  BY <1>5
<1> QED
  BY <1>6

(* Induction: a set that contains 0, and n + 1 with n, contains every natural
   number. *)
LEMMA Induction ==
  ASSUME NEW H, 0 \in H, \A n \in Nat : n \in H => n + 1 \in H
  PROVE  Nat \subseteq H
<1> SUFFICES ASSUME Nat \ H # {} PROVE FALSE
  OBVIOUS
<1>1. PICK n \in Nat \ H : \A m \in Nat \ H : n <= m
  BY NatMin
<1>2. n # 0 /\ n - 1 \in Nat
  BY <1>1
<1>3. n - 1 \in H
  BY <1>1, <1>2
<1> QED
  BY <1>1, <1>2, <1>3

LEMMA Upward ==
  ASSUME NEW n \in Nat, NEW H, 0 \in H, \A k \in 0..n : k \in H /\ k + 1 <= n => k + 1 \in H
  PROVE  0..n \subseteq H
<1> DEFINE G == {k \in Nat : k <= n => k \in H}
<1>1. 0 \in G
  OBVIOUS
<1>2. \A k \in Nat : k \in G => k + 1 \in G
  OBVIOUS
<1> HIDE DEF G
<1>3. Nat \subseteq G
  BY <1>1, <1>2, Induction
<1> QED
  BY <1>3 DEF G

LEMMA WidthFacts ==
  /\ Width[0] = 1
  /\ \A h \in Heights : h # 0 => Width[h] = 2 * Width[h - 1]
  /\ \A h \in Heights : Width[h] \in Nat /\ Width[h] >= h + 1
  /\ \A g, h \in Heights : g < h => 2 * Width[g] <= Width[h]
<1> USE MerkleAssumption DEF MerkleAssumption
<1> DEFINE Body(g, i) == IF i = 0 THEN 1 ELSE 2 * g[i - 1]
           H == {n \in Nat : \E g : g = [i \in 0..n |-> Body(g, i)]}
<1>1. 0 \in H
  <2> DEFINE g == [i \in 0..0 |-> 1]
  <2>1. g = [i \in 0..0 |-> Body(g, i)]
    OBVIOUS
  <2> QED
    BY <2>1
<1>2. ASSUME NEW n \in Nat, n \in H PROVE n + 1 \in H
  <2>1. PICK g : g = [i \in 0..n |-> Body(g, i)]
    BY <1>2
  <2> DEFINE h == [i \in 0..(n + 1) |-> IF i <= n THEN g[i] ELSE 2 * g[n]]
  <2>2. /\ \A i \in 0..n : h[i] = g[i]
        /\ h[n + 1] = 2 * h[n]
    OBVIOUS
  <2>3. \A i \in 0..n : g[i] = Body(g, i)
    <3> HIDE DEF Body
    <3> QED
      BY <2>1
  <2>4. h = [i \in 0..(n + 1) |-> h[i]]
    OBVIOUS
  <2> HIDE DEF h
  <2>5. \A i \in 0..n : h[i] = Body(h, i)
    <3>1. \A i \in 0..n : i # 0 => i - 1 \in 0..n
      OBVIOUS
    <3> QED
      BY <2>2, <2>3, <3>1
  <2>6. \A i \in 0..(n + 1) : h[i] = Body(h, i)
    <3>1. h[n + 1] = Body(h, n + 1)
      BY <2>2
    <3>2. \A i \in 0..(n + 1) : i \in 0..n \/ i = n + 1
      OBVIOUS
    <3> HIDE DEF Body
    <3> QED
      BY <2>5, <3>1, <3>2
  <2>7. h = [i \in 0..(n + 1) |-> Body(h, i)]
    <3> HIDE DEF Body
    <3> QED
      BY <2>4, <2>6
  <2> HIDE DEF Body
  <2> QED
    BY <2>7
<1>3. Nat \subseteq H
  <2> HIDE DEF H
  <2> QED
    BY <1>1, <1>2, Induction
<1>4. \E g : g = [i \in Heights |-> Body(g, i)]
  <2> HIDE DEF Body
  <2> QED
    BY <1>3 DEF Heights
<1>5. Width = [i \in Heights |-> Body(Width, i)]
  BY <1>4, Zenon DEF Width
<1>6. Width[0] = 1 /\ \A h \in Heights : h # 0 => Width[h] = 2 * Width[h - 1]
  <2>1. \A h \in Heights : Width[h] = Body(Width, h)
    <3> HIDE DEF Body
    <3> QED
      BY <1>5
  <2> QED
    BY <2>1 DEF Heights
<1>7. \A h \in Heights : Width[h] \in Nat /\ Width[h] >= h + 1
  <2> DEFINE G == {h \in Nat : Width[h] \in Nat /\ Width[h] >= h + 1}
  <2>1. 0 \in G
    BY <1>6
  <2>2. \A k \in Heights : k \in G /\ k + 1 <= MaxLeaves => k + 1 \in G
    <3> SUFFICES ASSUME NEW k \in Heights, k \in G, k + 1 <= MaxLeaves PROVE k + 1 \in G
      OBVIOUS
    <3>1. k + 1 \in Heights /\ k + 1 # 0 /\ (k + 1) - 1 = k
      BY DEF Heights
    <3>2. Width[k + 1] = 2 * Width[k]
      BY <1>6, <3>1
    <3> QED
      BY <3>2
  <2> HIDE DEF G
  <2>3. 0..MaxLeaves \subseteq G
    BY <2>1, <2>2, Upward DEF Heights
  <2> QED
    BY <2>3 DEF G, Heights
<1>8. \A g, h \in Heights : g < h => 2 * Width[g] <= Width[h]
  <2> SUFFICES ASSUME NEW g \in Heights PROVE \A h \in Heights : g < h => 2 * Width[g] <= Width[h]
    OBVIOUS
  <2> DEFINE G == {h \in Nat : g < h => 2 * Width[g] <= Width[h]}
  <2>1. 0 \in G
    BY DEF Heights
  <2>2. \A k \in Heights : k \in G /\ k + 1 <= MaxLeaves => k + 1 \in G
    <3> SUFFICES ASSUME NEW k \in Heights, k \in G, k + 1 <= MaxLeaves PROVE k + 1 \in G
      OBVIOUS
    <3>1. k + 1 \in Heights /\ k + 1 # 0 /\ (k + 1) - 1 = k
      BY DEF Heights
    <3>2. Width[k + 1] = 2 * Width[k] /\ Width[k] \in Nat /\ Width[g] \in Nat
      BY <1>6, <1>7, <3>1
    <3>3. g \in Nat /\ k \in Nat
      BY DEF Heights
    <3>4. CASE g < k
      BY <3>2, <3>3, <3>4
    <3>5. CASE g = k
      BY <3>2, <3>3, <3>5
    <3> QED
      BY <3>3, <3>4, <3>5
  <2> HIDE DEF G
  <2>3. 0..MaxLeaves \subseteq G
    BY <2>1, <2>2, Upward DEF Heights
  <2> QED
    BY <2>3 DEF G, Heights
<1> QED
  BY <1>6, <1>7, <1>8

(* The one height at which a tree holds n leaves and no lower one does. *)
LEMMA HeightFacts ==
  ASSUME NEW n \in 1..MaxLeaves
  PROVE  /\ Height(n) \in Heights /\ Width[Height(n)] >= n
         /\ Height(n) = 0 \/ Width[Height(n) - 1] < n
         /\ \A h \in Heights : Width[h] >= n /\ (h = 0 \/ Width[h - 1] < n) => h = Height(n)
<1> USE MerkleAssumption DEF MerkleAssumption
<1> DEFINE Least(h) == Width[h] >= n /\ (h = 0 \/ Width[h - 1] < n)
<1>1. \E h \in Heights : Least(h)
  <2> DEFINE T == {h \in Heights : Width[h] >= n}
  <2>1. MaxLeaves \in T
    BY WidthFacts DEF Heights
  <2>2. PICK h \in T : \A g \in T : h <= g
    <3>1. T \in SUBSET Nat /\ T # {}
      BY <2>1 DEF Heights
    <3> HIDE DEF T
    <3> QED
      BY <3>1, NatMin
  <2>3. h # 0 => h - 1 \in Heights /\ h - 1 \notin T
    BY <2>2 DEF Heights
  <2>4. h # 0 => Width[h - 1] < n
    BY <2>3, WidthFacts
  <2> QED
    BY <2>2, <2>4
<1>2. Height(n) \in Heights /\ Least(Height(n))
  BY <1>1 DEF Height
<1>3. \A g, h \in Heights : Least(g) /\ Least(h) => ~(g < h)
  <2> SUFFICES ASSUME NEW g \in Heights, NEW h \in Heights, Least(g), Least(h), g < h PROVE FALSE
    OBVIOUS
  <2>1. g \in Nat /\ h \in Nat /\ h # 0 /\ h - 1 \in Heights
    BY DEF Heights
  <2>2. Width[g] <= Width[h - 1]
    BY <2>1, WidthFacts
  <2>3. Width[g] \in Nat /\ Width[h - 1] \in Nat
    BY <2>1, WidthFacts
  <2> QED
    BY <2>1, <2>2, <2>3
<1>4. \A g, h \in Heights : ~(g < h) /\ ~(h < g) => g = h
  BY DEF Heights
<1> HIDE DEF Least
<1>5. \A h \in Heights : Least(h) => h = Height(n)
  BY <1>2, <1>3, <1>4
<1> QED
  BY <1>2, <1>5 DEF Least

(* The place of the right half. *)
Beside(i, n, width) == IF i + width > n THEN i ELSE i + width

LEMMA TreesFacts ==
  ASSUME NEW T, NEW list \in Seq(T)
  PROVE  /\ Trees(list)[0] = list
         /\ \A h \in Heights : h # 0 => \A i \in 1..Len(list) :
              Trees(list)[h][i] = Node(Trees(list)[h - 1][i],
                                       Trees(list)[h - 1][Beside(i, Len(list), Width[h - 1])])
<1> USE MerkleAssumption DEF MerkleAssumption
<1> DEFINE Body(g, h) == IF h = 0 THEN list ELSE Doubled(list, g[h - 1], Width[h - 1])
           H == {n \in Nat : \E g : g = [h \in 0..n |-> Body(g, h)]}
<1>1. 0 \in H
  <2> DEFINE g == [i \in 0..0 |-> list]
  <2>1. g = [i \in 0..0 |-> Body(g, i)]
    OBVIOUS
  <2> QED
    BY <2>1
<1>2. ASSUME NEW n \in Nat, n \in H PROVE n + 1 \in H
  <2>1. PICK g : g = [i \in 0..n |-> Body(g, i)]
    BY <1>2
  <2> DEFINE h == [i \in 0..(n + 1) |-> IF i <= n THEN g[i] ELSE Doubled(list, g[n], Width[n])]
  <2>2. /\ \A i \in 0..n : h[i] = g[i]
        /\ h[n + 1] = Doubled(list, h[n], Width[n])
    OBVIOUS
  <2>3. \A i \in 0..n : g[i] = Body(g, i)
    <3> HIDE DEF Body
    <3> QED
      BY <2>1
  <2>4. h = [i \in 0..(n + 1) |-> h[i]]
    OBVIOUS
  <2> HIDE DEF h
  <2>5. \A i \in 0..n : h[i] = Body(h, i)
    <3>1. \A i \in 0..n : i # 0 => i - 1 \in 0..n
      OBVIOUS
    <3> QED
      BY <2>2, <2>3, <3>1
  <2>6. \A i \in 0..(n + 1) : h[i] = Body(h, i)
    <3>1. h[n + 1] = Body(h, n + 1)
      BY <2>2
    <3>2. \A i \in 0..(n + 1) : i \in 0..n \/ i = n + 1
      OBVIOUS
    <3> HIDE DEF Body
    <3> QED
      BY <2>5, <3>1, <3>2
  <2>7. h = [i \in 0..(n + 1) |-> Body(h, i)]
    <3> HIDE DEF Body
    <3> QED
      BY <2>4, <2>6
  <2> HIDE DEF Body
  <2> QED
    BY <2>7
<1>3. Nat \subseteq H
  <2> HIDE DEF H
  <2> QED
    BY <1>1, <1>2, Induction
<1>4. \E g : g = [i \in Heights |-> Body(g, i)]
  <2> HIDE DEF Body
  <2> QED
    BY <1>3 DEF Heights
<1>5. Trees(list) = [i \in Heights |-> Body(Trees(list), i)]
  BY <1>4, Zenon DEF Trees
<1>6. \A h \in Heights : Trees(list)[h] = Body(Trees(list), h)
  <2> HIDE DEF Body
  <2> QED
    BY <1>5
<1>7. Trees(list)[0] = list
  BY <1>6 DEF Heights
<1>8. \A h \in Heights : h # 0 => Trees(list)[h] = Doubled(list, Trees(list)[h - 1], Width[h - 1])
  BY <1>6
<1> QED
  BY <1>7, <1>8 DEF Doubled, Beside

-----------------------------------------------------------------------------
(* A function on the first m numbers is a sequence. *)
LEMMA SequenceOf ==
  ASSUME NEW m \in Nat, NEW s, s = [i \in 1..m |-> s[i]]
  PROVE  (\E U : s \in Seq(U)) /\ Len(s) = m
<1>1. s \in [1..m -> {s[i] : i \in 1..m}]
  OBVIOUS
<1>2. s \in Seq({s[i] : i \in 1..m}) /\ Len(s) = m
  BY <1>1
<1> QED
  BY <1>2

(* One turn of the loop: half as many nodes, each over two of the level before. *)
LEMMA PairsFacts ==
  ASSUME NEW T, NEW nodes \in Seq(T), Len(nodes) >= 1
  PROVE  /\ Len(Pairs(Even(nodes))) \in Nat \ {0}
         /\ \/ 2 * Len(Pairs(Even(nodes))) = Len(nodes)
            \/ 2 * Len(Pairs(Even(nodes))) = Len(nodes) + 1
         /\ \E U : Pairs(Even(nodes)) \in Seq(U)
         /\ \A j \in 1..Len(Pairs(Even(nodes))) :
              Pairs(Even(nodes))[j]
                = Node(nodes[2 * j - 1], nodes[Beside(2 * j - 1, Len(nodes), 1)])
<1> DEFINE n == Len(nodes)
           even == Even(nodes)
           k == Len(even)
           half == k \div 2
           pairs == Pairs(even)
<1>1. n \in Nat /\ n >= 1 /\ DOMAIN nodes = 1..n /\ \A i \in 1..n : nodes[i] \in T
  OBVIOUS
<1>2. /\ half \in Nat /\ k = 2 * half /\ (k = n \/ k = n + 1)
      /\ \A i \in 1..n : even[i] = nodes[i]
      /\ k = n + 1 => even[k] = nodes[n]
  <2>1. n % 2 \in {0, 1}
    BY <1>1
  <2>2. CASE n % 2 = 1
    <3>1. even = Append(nodes, nodes[n])
      BY <2>2 DEF Even, Last
    <3>2. (n + 1) \div 2 \in Nat /\ n + 1 = 2 * ((n + 1) \div 2)
      <4> HIDE DEF n
      <4> QED
        BY <1>1, <2>2
    <3>3. nodes[n] \in T
      BY <1>1
    <3>4. k = n + 1 /\ even[n + 1] = nodes[n] /\ \A i \in 1..n : even[i] = nodes[i]
      <4> HIDE DEF even
      <4> QED
        BY <1>1, <3>1, <3>3
    <3> HIDE DEF k, n, even
    <3> QED
      BY <1>1, <3>2, <3>4
  <2>3. CASE n % 2 = 0
    <3>1. even = nodes
      BY <2>3 DEF Even
    <3>2. n \div 2 \in Nat /\ n = 2 * (n \div 2)
      <4> HIDE DEF n
      <4> QED
        BY <1>1, <2>3
    <3>3. k = n
      BY <3>1
    <3> HIDE DEF k, n, even
    <3> QED
      BY <1>1, <3>1, <3>2, <3>3
  <2> QED
    BY <2>1, <2>2, <2>3
<1>3. pairs = [i \in 1..half |-> Node(even[2 * i - 1], even[2 * i])]
  BY DEF Pairs
<1> HIDE DEF n, even, k, half, pairs
<1>4. /\ pairs = [i \in 1..half |-> pairs[i]]
      /\ \A i \in 1..half : pairs[i] = Node(even[2 * i - 1], even[2 * i])
  BY <1>3
<1>5. (\E U : pairs \in Seq(U)) /\ Len(pairs) = half
  <2>1. half \in Nat
    BY <1>2
  <2> QED
    BY <1>4, <2>1, SequenceOf
<1>6. n \in Nat /\ n >= 1 /\ half \in Nat /\ k = 2 * half /\ (k = n \/ k = n + 1)
  BY <1>1, <1>2
<1>7. ASSUME NEW j \in 1..half
      PROVE  pairs[j] = Node(nodes[2 * j - 1], nodes[Beside(2 * j - 1, n, 1)])
  <2>1. pairs[j] = Node(even[2 * j - 1], even[2 * j])
    BY <1>4
  <2>2. 2 * j - 1 \in 1..n /\ (2 * j \in 1..n \/ (2 * j = n + 1 /\ k = n + 1))
    BY <1>6
  <2>3. even[2 * j - 1] = nodes[2 * j - 1]
    BY <1>2, <2>2
  <2>4. even[2 * j] = nodes[Beside(2 * j - 1, n, 1)]
    <3>1. CASE 2 * j \in 1..n
      <4>1. Beside(2 * j - 1, n, 1) = 2 * j
        BY <1>6, <3>1 DEF Beside
      <4> QED
        BY <1>2, <3>1, <4>1
    <3>2. CASE 2 * j = n + 1 /\ k = n + 1
      <4>1. Beside(2 * j - 1, n, 1) = n
        BY <1>6, <3>2 DEF Beside
      <4> QED
        BY <1>2, <3>2, <4>1
    <3> QED
      BY <2>2, <3>1, <3>2
  <2> QED
    BY <2>1, <2>3, <2>4
<1>8. half \in Nat \ {0} /\ (2 * half = n \/ 2 * half = n + 1)
  BY <1>6
<1> QED
  BY <1>5, <1>7, <1>8 DEF n, even, pairs

(* The trees over the new level are those over the old one, a height up. *)
LEMMA LoopKeepsTrees ==
  ASSUME NEW T, NEW nodes \in Seq(T), Len(nodes) >= 1,
         NEW h \in Nat, h + 1 \in Heights, NEW j \in 1..Len(Pairs(Even(nodes)))
  PROVE  Trees(Pairs(Even(nodes)))[h][j] = Trees(nodes)[h + 1][2 * j - 1]
<1> USE MerkleAssumption DEF MerkleAssumption
<1> DEFINE pairs == Pairs(Even(nodes))
           n == Len(nodes)
           m == Len(pairs)
           H == {g \in Nat : g + 1 \in Heights =>
                  \A i \in 1..m : Trees(pairs)[g][i] = Trees(nodes)[g + 1][2 * i - 1]}
<1>1. n \in Nat /\ n >= 1
  OBVIOUS
<1>2. m \in Nat
  BY PairsFacts
<1>3. /\ m >= 1 /\ (2 * m = n \/ 2 * m = n + 1)
      /\ \E U : pairs \in Seq(U)
      /\ \A i \in 1..m : pairs[i] = Node(nodes[2 * i - 1], nodes[Beside(2 * i - 1, n, 1)])
  BY PairsFacts
<1> HIDE DEF n, m, pairs
<1>4. PICK U : pairs \in Seq(U)
  BY <1>3
<1>5. /\ Trees(pairs)[0] = pairs
      /\ \A g \in Heights : g # 0 => \A i \in 1..m :
           Trees(pairs)[g][i] = Node(Trees(pairs)[g - 1][i],
                                     Trees(pairs)[g - 1][Beside(i, m, Width[g - 1])])
  BY <1>4, TreesFacts DEF m
<1>6. /\ Trees(nodes)[0] = nodes
      /\ \A g \in Heights : g # 0 => \A i \in 1..n :
           Trees(nodes)[g][i] = Node(Trees(nodes)[g - 1][i],
                                     Trees(nodes)[g - 1][Beside(i, n, Width[g - 1])])
  BY TreesFacts DEF n
<1>7. \A i \in 1..m : 2 * i - 1 \in 1..n
  BY <1>1, <1>2, <1>3
<1>8. 0 \in H
  <2> SUFFICES ASSUME 1 \in Heights, NEW i \in 1..m
               PROVE  Trees(pairs)[0][i] = Trees(nodes)[1][2 * i - 1]
    OBVIOUS
  <2>1. Trees(nodes)[1][2 * i - 1] = Node(nodes[2 * i - 1], nodes[Beside(2 * i - 1, n, Width[0])])
    BY <1>6, <1>7
  <2> QED
    BY <1>3, <1>5, <2>1, WidthFacts
<1>9. ASSUME NEW g \in Nat, g \in H PROVE g + 1 \in H
  <2> SUFFICES ASSUME (g + 1) + 1 \in Heights, NEW i \in 1..m
               PROVE  Trees(pairs)[g + 1][i] = Trees(nodes)[(g + 1) + 1][2 * i - 1]
    OBVIOUS
  <2> DEFINE w == Width[g]
             v == Width[g + 1]
  <2>1. /\ g \in Heights /\ g + 1 \in Heights /\ g + 1 # 0 /\ (g + 1) - 1 = g
        /\ (g + 1) + 1 # 0 /\ ((g + 1) + 1) - 1 = g + 1
    BY DEF Heights
  <2>2. w \in Nat /\ w >= 1 /\ v = 2 * w
    BY <2>1, WidthFacts
  <2> HIDE DEF w, v
  <2>3. \A k \in 1..m : Trees(pairs)[g][k] = Trees(nodes)[g + 1][2 * k - 1]
    BY <1>9, <2>1
  <2>4. Trees(pairs)[g + 1][i] = Node(Trees(pairs)[g][i], Trees(pairs)[g][Beside(i, m, w)])
    BY <1>5, <2>1 DEF w
  <2>5. Trees(nodes)[(g + 1) + 1][2 * i - 1]
          = Node(Trees(nodes)[g + 1][2 * i - 1], Trees(nodes)[g + 1][Beside(2 * i - 1, n, v)])
    BY <1>6, <1>7, <2>1 DEF v
  <2>6. Beside(i, m, w) \in 1..m /\ Beside(2 * i - 1, n, v) = 2 * Beside(i, m, w) - 1
    <3>1. CASE i + w > m
      <4>1. (2 * i - 1) + v > n
        BY <1>1, <1>2, <1>3, <2>2, <3>1
      <4> QED
        BY <3>1, <4>1 DEF Beside
    <3>2. CASE ~(i + w > m)
      <4>1. ~((2 * i - 1) + v > n) /\ (2 * i - 1) + v = 2 * (i + w) - 1
        BY <1>1, <1>2, <1>3, <2>2, <3>2
      <4>2. i + w \in 1..m
        BY <1>2, <2>2, <3>2
      <4> QED
        BY <3>2, <4>1, <4>2 DEF Beside
    <3> QED
      BY <3>1, <3>2
  <2>7. Trees(pairs)[g][Beside(i, m, w)] = Trees(nodes)[g + 1][Beside(2 * i - 1, n, v)]
    BY <2>3, <2>6
  <2> QED
    BY <2>3, <2>4, <2>5, <2>7
<1>10. Nat \subseteq H
  <2> HIDE DEF H
  <2> QED
    BY <1>8, <1>9, Induction
<1> QED
  BY <1>10 DEF pairs, m

(* ... and the tree over all of it is the same. *)
LEMMA LoopKeepsRoot ==
  ASSUME NEW T, NEW nodes \in Seq(T), Len(nodes) \in 2..MaxLeaves
  PROVE  /\ \E U : Pairs(Even(nodes)) \in Seq(U)
         /\ Len(Pairs(Even(nodes))) \in 1..(Len(nodes) - 1)
         /\ Trees(Pairs(Even(nodes)))[Height(Len(Pairs(Even(nodes))))][1]
              = Trees(nodes)[Height(Len(nodes))][1]
<1> USE MerkleAssumption DEF MerkleAssumption
<1> DEFINE pairs == Pairs(Even(nodes))
           n == Len(nodes)
           m == Len(pairs)
           h == Height(n)
<1>1. m \in Nat
  BY PairsFacts
<1>2. /\ m >= 1 /\ (2 * m = n \/ 2 * m = n + 1)
      /\ \E U : pairs \in Seq(U)
  BY PairsFacts
<1>3. n \in 2..MaxLeaves /\ n \in 1..MaxLeaves
  OBVIOUS
<1>4. m \in 1..(n - 1) /\ m \in 1..MaxLeaves
  <2> HIDE DEF m, n
  <2> QED
    BY <1>1, <1>2, <1>3
<1>5. /\ h \in Heights /\ Width[h] >= n /\ (h = 0 \/ Width[h - 1] < n)
  BY <1>3, HeightFacts
<1> HIDE DEF m, n, h, pairs
<1>6. h # 0 /\ h - 1 \in Heights /\ h - 1 \in Nat /\ (h - 1) + 1 = h
  <2>1. h # 0
    BY <1>3, <1>5, WidthFacts
  <2> QED
    BY <1>5, <2>1 DEF Heights
<1>7. Width[h] = 2 * Width[h - 1] /\ Width[h - 1] \in Nat /\ Width[h] \in Nat
  BY <1>5, <1>6, WidthFacts
<1>8. Width[h - 1] >= m
  BY <1>1, <1>2, <1>3, <1>5, <1>7
<1>9. h - 1 = 0 \/ Width[(h - 1) - 1] < m
  <2> SUFFICES ASSUME h - 1 # 0 PROVE Width[(h - 1) - 1] < m
    OBVIOUS
  <2>1. (h - 1) - 1 \in Heights
    BY <1>5, <1>6 DEF Heights
  <2>2. Width[h - 1] = 2 * Width[(h - 1) - 1] /\ Width[(h - 1) - 1] \in Nat
    BY <1>6, <2>1, WidthFacts
  <2>3. Width[h - 1] < n
    BY <1>5, <1>6
  <2> QED
    BY <1>1, <1>2, <1>3, <2>2, <2>3
<1>10. h - 1 = Height(m)
  BY <1>4, <1>6, <1>8, <1>9, HeightFacts
<1>11. Trees(pairs)[h - 1][1] = Trees(nodes)[(h - 1) + 1][2 * 1 - 1]
  <2>1. 1 \in 1..Len(pairs) /\ Len(nodes) >= 1
    BY <1>3, <1>4 DEF m, n
  <2> QED
    BY <1>5, <1>6, <2>1, LoopKeepsTrees DEF pairs
<1>12. Trees(pairs)[Height(m)][1] = Trees(nodes)[h][1]
  BY <1>6, <1>10, <1>11
<1> QED
  BY <1>2, <1>4, <1>12 DEF pairs, m, n, h

-----------------------------------------------------------------------------
LEMMA ListFacts ==
  ASSUME NEW l \in Lists
  PROVE  /\ l \in Seq(Leaf) /\ Len(l) \in 0..MaxLeaves /\ DOMAIN l = 1..Len(l)
         /\ \A i \in 1..Len(l) : l[i] \in Leaf
         /\ l # <<>> <=> Len(l) \in 1..MaxLeaves
<1> USE MerkleAssumption DEF MerkleAssumption
<1>1. PICK n \in 0..MaxLeaves : l \in [1..n -> Leaf]
  BY DEF Lists
<1>2. l \in Seq(Leaf) /\ Len(l) = n /\ n \in Nat
  BY <1>1
<1>3. l # <<>> <=> Len(l) # 0
  BY <1>2
<1> QED
  BY <1>1, <1>2, <1>3

LEMMA NodeFacts ==
  \A p, q, c, d : Node(p, q) = Node(c, d) => p = c /\ q = d
BY DEF Node

(* Two lists have the same w entries from the i-th and from the j-th, or end alike. *)
Agree(l, i, m, j, w) ==
  \A k \in Nat : k < w =>
    /\ i + k <= Len(l) <=> j + k <= Len(m)
    /\ i + k <= Len(l) => l[i + k] = m[j + k]

(* The left halves agree, and so do the right ones, or neither list has one: where
   only one had, its entries would be repeated in the other. *)
LEMMA SameTreeAgrees ==
  ASSUME NEW h \in Heights,
         NEW l \in Lists, ~Repeats(l), NEW i \in 1..Len(l),
         NEW m \in Lists, ~Repeats(m), NEW j \in 1..Len(m),
         Trees(l)[h][i] = Trees(m)[h][j]
  PROVE  Agree(l, i, m, j, Width[h])
<1> USE MerkleAssumption DEF MerkleAssumption
<1> DEFINE Same(g) ==
             \A x, y \in Lists : ~Repeats(x) /\ ~Repeats(y) =>
               \A p \in 1..Len(x), q \in 1..Len(y) :
                 Trees(x)[g][p] = Trees(y)[g][q] => Agree(x, p, y, q, Width[g])
           H == {g \in Nat : Same(g)}
<1>1. 0 \in H
  <2> SUFFICES ASSUME NEW x \in Lists, NEW y \in Lists, NEW p \in 1..Len(x), NEW q \in 1..Len(y),
                      Trees(x)[0][p] = Trees(y)[0][q]
               PROVE  Agree(x, p, y, q, Width[0])
    OBVIOUS
  <2>1. x[p] = y[q]
    BY ListFacts, TreesFacts
  <2>2. Len(x) \in Nat /\ Len(y) \in Nat
    BY ListFacts
  <2> QED
    BY <2>1, <2>2, WidthFacts DEF Agree
<1>2. ASSUME NEW g \in Heights, g \in H, g + 1 <= MaxLeaves PROVE g + 1 \in H
  <2> SUFFICES ASSUME NEW x \in Lists, NEW y \in Lists, ~Repeats(x), ~Repeats(y),
                      NEW p \in 1..Len(x), NEW q \in 1..Len(y),
                      Trees(x)[g + 1][p] = Trees(y)[g + 1][q]
               PROVE  Agree(x, p, y, q, Width[g + 1])
    BY DEF Heights
  <2> DEFINE w == Width[g]
             c == Beside(p, Len(x), w)
             d == Beside(q, Len(y), w)
  <2>1. /\ g \in Nat /\ g + 1 \in Heights /\ g + 1 # 0 /\ (g + 1) - 1 = g
        /\ w \in Nat /\ w >= 1 /\ Width[g + 1] = 2 * w
    <3> HIDE DEF H
    <3>1. g \in Nat /\ g + 1 \in Heights /\ g + 1 # 0 /\ (g + 1) - 1 = g
      BY <1>2 DEF Heights
    <3> QED
      BY <3>1, WidthFacts
  <2>2. Len(x) \in Nat /\ Len(y) \in Nat
    BY ListFacts
  <2>3. /\ Trees(x)[g + 1][p] = Node(Trees(x)[g][p], Trees(x)[g][c])
        /\ Trees(y)[g + 1][q] = Node(Trees(y)[g][q], Trees(y)[g][d])
    BY <2>1, ListFacts, TreesFacts
  <2>4. Trees(x)[g][p] = Trees(y)[g][q] /\ Trees(x)[g][c] = Trees(y)[g][d]
    <3>1. Node(Trees(x)[g][p], Trees(x)[g][c]) = Node(Trees(y)[g][q], Trees(y)[g][d])
      BY <2>3
    <3> QED
      BY <3>1, NodeFacts
  <2>5. c \in 1..Len(x) /\ d \in 1..Len(y)
    <3>1. w \in Nat /\ Len(x) \in Nat /\ Len(y) \in Nat
      BY <2>1, <2>2
    <3> HIDE DEF w
    <3>2. Beside(p, Len(x), w) \in 1..Len(x)
      BY <3>1 DEF Beside
    <3>3. Beside(q, Len(y), w) \in 1..Len(y)
      BY <3>1 DEF Beside
    <3> QED
      BY <3>2, <3>3
  <2>6. Same(g)
    BY <1>2
  <2> HIDE DEF Same, w
  <2>7. Agree(x, p, y, q, w) /\ Agree(x, c, y, d, w)
    BY <2>4, <2>5, <2>6 DEF Same, w
  <2> SUFFICES ASSUME NEW k \in Nat, k < 2 * w
               PROVE  /\ p + k <= Len(x) <=> q + k <= Len(y)
                      /\ p + k <= Len(x) => x[p + k] = y[q + k]
    BY <2>1 DEF Agree
  <2>8. CASE k < w
    BY <2>7, <2>8 DEF Agree
  <2>9. CASE ~(k < w)
    <3>1. k - w \in Nat /\ k - w < w
      BY <2>1, <2>9
    <3>2. CASE p + w > Len(x) /\ q + w > Len(y)
      BY <2>1, <2>2, <2>9, <3>2
    <3>3. CASE ~(p + w > Len(x)) /\ ~(q + w > Len(y))
      <4>1. c = p + w /\ d = q + w
        BY <3>3 DEF Beside
      <4>2. c + (k - w) = p + k /\ d + (k - w) = q + k
        BY <2>1, <4>1
      <4> QED
        BY <2>7, <3>1, <4>2 DEF Agree
    <3>4. CASE p + w > Len(x) /\ ~(q + w > Len(y))
      <4>1. Trees(y)[g][q] = Trees(y)[g][q + w] /\ q + w \in 1..Len(y)
        <5>1. c = p /\ d = q + w
          BY <3>4 DEF Beside
        <5> QED
          BY <2>4, <2>5, <5>1
      <4>2. Agree(y, q, y, q + w, w)
        BY <2>6, <4>1 DEF Same, w
      <4>3. y[q + 0] = y[(q + w) + 0]
        <5>1. 0 \in Nat /\ 0 < w /\ q + 0 <= Len(y)
          BY <2>1, <2>2
        <5> QED
          BY <4>2, <5>1 DEF Agree
      <4>4. y[q] = y[q + w] /\ q # q + w
        BY <2>1, <4>3
      <4> QED
        BY <4>1, <4>4, ListFacts DEF Repeats
    <3>5. CASE ~(p + w > Len(x)) /\ q + w > Len(y)
      <4>1. Trees(x)[g][p] = Trees(x)[g][p + w] /\ p + w \in 1..Len(x)
        <5>1. c = p + w /\ d = q
          BY <3>5 DEF Beside
        <5> QED
          BY <2>4, <2>5, <5>1
      <4>2. Agree(x, p, x, p + w, w)
        BY <2>6, <4>1 DEF Same, w
      <4>3. x[p + 0] = x[(p + w) + 0]
        <5>1. 0 \in Nat /\ 0 < w /\ p + 0 <= Len(x)
          BY <2>1, <2>2
        <5> QED
          BY <4>2, <5>1 DEF Agree
      <4>4. x[p] = x[p + w] /\ p # p + w
        BY <2>1, <4>3
      <4> QED
        BY <4>1, <4>4, ListFacts DEF Repeats
    <3> QED
      BY <3>2, <3>3, <3>4, <3>5
  <2> QED
    BY <2>8, <2>9
<1>3. 0..MaxLeaves \subseteq H
  <2> HIDE DEF H
  <2> QED
    BY <1>1, <1>2, Upward DEF Heights
<1>4. Same(h)
  BY <1>3 DEF Heights
<1> QED
  BY <1>4

-----------------------------------------------------------------------------
(* sha256 gives two nodes another hash than a leaf or the empty list: each has a
   domain of its own. *)
HashesApart == \A left, right : Node(left, right) \notin Leaf \cup {NoLeaves}

(* Trees over leaves tell their height. *)
LEMMA SameTreeSameHeight ==
  ASSUME HashesApart, NEW g \in Heights, NEW h \in Heights,
         NEW l \in Lists, l # <<>>, NEW m \in Lists, m # <<>>,
         Trees(l)[g][1] = Trees(m)[h][1]
  PROVE  g = h
<1> USE MerkleAssumption DEF MerkleAssumption
<1>1. ASSUME NEW x \in Lists, x # <<>>
      PROVE  /\ Trees(x)[0][1] \in Leaf
             /\ \A k \in Heights : k # 0 =>
                  \E right : Trees(x)[k][1] = Node(Trees(x)[k - 1][1], right)
  <2>1. x \in Seq(Leaf) /\ 1 \in 1..Len(x) /\ x[1] \in Leaf
    BY <1>1, ListFacts
  <2> QED
    BY <2>1, TreesFacts
<1> DEFINE H == {p \in Nat : \A q \in Heights : Trees(l)[p][1] = Trees(m)[q][1] => p = q}
<1>2. 0 \in H
  BY <1>1 DEF HashesApart
<1>3. ASSUME NEW p \in Heights, p \in H, p + 1 <= MaxLeaves PROVE p + 1 \in H
  <2> SUFFICES ASSUME NEW q \in Heights, Trees(l)[p + 1][1] = Trees(m)[q][1]
               PROVE  p + 1 = q
    BY DEF Heights
  <2>1. p + 1 \in Heights /\ p + 1 # 0 /\ (p + 1) - 1 = p
    BY <1>3 DEF Heights
  <2>2. PICK right : Trees(l)[p + 1][1] = Node(Trees(l)[p][1], right)
    BY <1>1, <2>1
  <2>3. q # 0
    <3> SUFFICES ASSUME q = 0 PROVE FALSE
      OBVIOUS
    <3>1. Trees(m)[0][1] \in Leaf
      BY <1>1
    <3>2. Node(Trees(l)[p][1], right) \in Leaf
      BY <2>2, <3>1
    <3> QED
      BY <3>2 DEF HashesApart
  <2>4. PICK other : Trees(m)[q][1] = Node(Trees(m)[q - 1][1], other)
    BY <1>1, <2>3
  <2>5. Trees(l)[p][1] = Trees(m)[q - 1][1] /\ q - 1 \in Heights
    <3>1. q - 1 \in Heights
      BY <2>3 DEF Heights
    <3>2. Node(Trees(l)[p][1], right) = Node(Trees(m)[q - 1][1], other)
      BY <2>2, <2>4
    <3> QED
      BY <3>1, <3>2, NodeFacts
  <2>6. p = q - 1
    BY <1>3, <2>5
  <2> QED
    BY <2>6 DEF Heights
<1>4. 0..MaxLeaves \subseteq H
  <2> HIDE DEF H
  <2> QED
    BY <1>2, <1>3, Upward DEF Heights
<1> QED
  BY <1>4 DEF Heights

(* One root, one list. *)
LEMMA RootsTellLists ==
  ASSUME HashesApart, NEW l \in Lists, ~Repeats(l), NEW m \in Lists, ~Repeats(m),
         Root(l) = Root(m)
  PROVE  l = m
<1> USE MerkleAssumption DEF MerkleAssumption
<1>1. ASSUME NEW x \in Lists, x # <<>>
      PROVE  /\ Root(x) = Trees(x)[Height(Len(x))][1] /\ Root(x) # NoLeaves
             /\ Height(Len(x)) \in Heights /\ Width[Height(Len(x))] >= Len(x)
             /\ Len(x) \in 1..MaxLeaves
  <2>1. x \in Seq(Leaf) /\ Len(x) \in 1..MaxLeaves /\ x[1] \in Leaf
    BY <1>1, ListFacts
  <2>2. Height(Len(x)) \in Heights /\ Width[Height(Len(x))] >= Len(x)
    BY <2>1, HeightFacts
  <2>3. Root(x) = Trees(x)[Height(Len(x))][1]
    BY <1>1 DEF Root
  <2>4. CASE Height(Len(x)) = 0
    <3>1. Trees(x)[0] = x
      BY <2>1, TreesFacts
    <3> QED
      BY <2>1, <2>2, <2>3, <2>4, <3>1
  <2>5. CASE Height(Len(x)) # 0
    <3>1. \E left, right : Trees(x)[Height(Len(x))][1] = Node(left, right)
      BY <2>1, <2>2, <2>5, TreesFacts
    <3> QED
      BY <2>1, <2>2, <2>3, <3>1 DEF HashesApart
  <2> QED
    BY <2>1, <2>2, <2>3, <2>4, <2>5
<1>2. CASE l = <<>> \/ m = <<>>
  BY <1>1, <1>2 DEF Root
<1>3. CASE l # <<>> /\ m # <<>>
  <2> DEFINE h == Height(Len(l))
  <2>1. h \in Heights /\ Trees(l)[h][1] = Trees(m)[h][1] /\ h = Height(Len(m))
    BY <1>1, <1>3, SameTreeSameHeight
  <2>2. Len(l) \in 1..MaxLeaves /\ Len(m) \in 1..MaxLeaves
    BY <1>1, <1>3
  <2>3. Width[h] >= Len(l) /\ Width[h] >= Len(m) /\ Width[h] \in Nat
    BY <1>1, <1>3, <2>1, WidthFacts
  <2>4. Agree(l, 1, m, 1, Width[h])
    <3>1. 1 \in 1..Len(l) /\ 1 \in 1..Len(m)
      BY <2>2
    <3> QED
      BY <2>1, <3>1, SameTreeAgrees
  <2> HIDE DEF h
  <2>5. Len(l) = Len(m)
    <3>1. CASE Len(l) < Len(m)
      <4>1. Len(l) \in Nat /\ Len(l) < Width[h]
        BY <2>2, <2>3, <3>1
      <4> QED
        BY <2>2, <2>4, <3>1, <4>1 DEF Agree
    <3>2. CASE Len(m) < Len(l)
      <4>1. Len(m) \in Nat /\ Len(m) < Width[h]
        BY <2>2, <2>3, <3>2
      <4> QED
        BY <2>2, <2>4, <3>2, <4>1 DEF Agree
    <3> QED
      BY <2>2, <3>1, <3>2
  <2>6. ASSUME NEW i \in 1..Len(l) PROVE l[i] = m[i]
    <3>1. i - 1 \in Nat /\ i - 1 < Width[h] /\ 1 + (i - 1) = i /\ i <= Len(l)
      BY <2>2, <2>3
    <3> QED
      BY <2>4, <3>1 DEF Agree
  <2>7. l \in Seq(Leaf) /\ m \in Seq(Leaf)
    BY ListFacts
  <2> QED
    BY <2>5, <2>6, <2>7
<1> QED
  BY <1>2, <1>3

-----------------------------------------------------------------------------
(* Every level has the root of the list. *)
MerkleIInv ==
  /\ leaves \in Lists
  /\ leaves = <<>> => level = <<NoLeaves>>
  /\ leaves # <<>> =>
       /\ \E T : level \in Seq(T)
       /\ Len(level) \in 1..Len(leaves)
       /\ Trees(level)[Height(Len(level))][1] = Root(leaves)

(* Each turn of merkle_root's loop leaves the root of the list what it was. *)
THEOREM MerkleInvariance == MerkleSpec => []MerkleIInv
<1>1. MerkleInit => MerkleIInv
  <2> SUFFICES ASSUME MerkleInit PROVE MerkleIInv
    OBVIOUS
  <2>1. leaves \in Lists /\ level = IF leaves = <<>> THEN <<NoLeaves>> ELSE leaves
    BY DEF MerkleInit
  <2>2. CASE leaves = <<>>
    BY <2>1, <2>2 DEF MerkleIInv
  <2>3. CASE leaves # <<>>
    BY <2>1, <2>3, ListFacts DEF MerkleIInv, Root
  <2> QED
    BY <2>2, <2>3
<1>2. MerkleIInv /\ [MerkleNext]_merkleVars => MerkleIInv'
  <2> SUFFICES ASSUME MerkleIInv, [MerkleNext]_merkleVars PROVE MerkleIInv'
    OBVIOUS
  <2>1. CASE UNCHANGED merkleVars
    BY <2>1 DEF MerkleIInv, merkleVars
  <2>2. CASE Step
    <3>1. Len(level) > 1 /\ level' = Pairs(Even(level)) /\ leaves' = leaves
      BY <2>2 DEF Step
    <3>2. leaves # <<>>
      <4> SUFFICES ASSUME leaves = <<>> PROVE FALSE
        OBVIOUS
      <4>1. level = <<NoLeaves>>
        BY DEF MerkleIInv
      <4> QED
        BY <3>1, <4>1
    <3>3. leaves \in Lists /\ Len(leaves) \in 1..MaxLeaves
      BY <3>2, ListFacts DEF MerkleIInv
    <3>4. PICK T : level \in Seq(T)
      BY <3>2 DEF MerkleIInv
    <3>5. /\ Len(level) \in 1..Len(leaves)
          /\ Trees(level)[Height(Len(level))][1] = Root(leaves)
      BY <3>2 DEF MerkleIInv
    <3>6. Len(level) \in 2..MaxLeaves
      BY <3>1, <3>3, <3>5, MerkleAssumption DEF MerkleAssumption
    <3>7. /\ \E U : level' \in Seq(U)
          /\ Len(level') \in 1..(Len(level) - 1)
          /\ Trees(level')[Height(Len(level'))][1] = Root(leaves)
      BY <3>1, <3>4, <3>5, <3>6, LoopKeepsRoot
    <3>8. Len(level') \in 1..Len(leaves)
      BY <3>3, <3>5, <3>7
    <3> QED
      BY <3>1, <3>2, <3>3, <3>7, <3>8 DEF MerkleIInv
  <2> QED
    BY <2>1, <2>2 DEF MerkleNext
<1> QED
  BY <1>1, <1>2, PTL DEF MerkleSpec

(* The loop of merkle_root works on a list of hashes and levels that are no longer. *)
THEOREM MerkleTypeCorrect == MerkleSpec => []MerkleTypeOK
<1>1. MerkleIInv => MerkleTypeOK
  <2> SUFFICES ASSUME MerkleIInv PROVE MerkleTypeOK
    OBVIOUS
  <2>1. leaves = <<>> => Len(level) = 1
    BY DEF MerkleIInv
  <2> QED
    BY <2>1 DEF MerkleIInv, MerkleTypeOK
<1> QED
  BY <1>1, MerkleInvariance, PTL

(* Whatever the length of a list without repetition, the root that the loop ends
   with is that of no other such list: a header's transactions_root names the
   block's transactions and their order. *)
THEOREM RootFixesListTheorem == HashesApart /\ MerkleSpec => []RootFixesList
<1>1. ASSUME HashesApart, MerkleIInv PROVE RootFixesList
  <2> SUFFICES ASSUME Done, ~Repeats(leaves), NEW other \in Lists, ~Repeats(other),
                      Root(other) = level[1]
               PROVE  other = leaves
    BY DEF RootFixesList
  <2>1. level[1] = Root(leaves)
    <3>1. CASE leaves = <<>>
      BY <1>1, <3>1 DEF MerkleIInv, Root
    <3>2. CASE leaves # <<>>
      <4>1. PICK T : level \in Seq(T)
        BY <1>1, <3>2 DEF MerkleIInv
      <4>2. Len(level) = 1 /\ Trees(level)[Height(1)][1] = Root(leaves)
        BY <1>1, <3>2 DEF MerkleIInv, Done
      <4>3. 1 \in 1..MaxLeaves /\ 0 \in Heights
        <5>1. leaves \in Lists
          BY <1>1 DEF MerkleIInv
        <5> QED
          BY <3>2, <5>1, ListFacts, MerkleAssumption DEF MerkleAssumption, Heights
      <4>4. Height(1) = 0
        BY <4>3, HeightFacts, WidthFacts
      <4>5. Trees(level)[0] = level
        BY <4>1, TreesFacts
      <4> QED
        BY <4>2, <4>4, <4>5
    <3> QED
      BY <3>1, <3>2
  <2> QED
    BY <1>1, <2>1, RootsTellLists DEF MerkleIInv
<1>2. CASE HashesApart
  <2>1. MerkleIInv => RootFixesList
    BY <1>1, <1>2
  <2> QED
    BY <2>1, MerkleInvariance, PTL
<1> QED
  BY <1>2

-----------------------------------------------------------------------------
(***************************************************************************)
(* The rate limiter, for any window, limits and sizes: the pruned deque    *)
(* and its running total judge every frame as the whole history does.      *)
(***************************************************************************)
(* A sum over a finite set takes its elements in an order that CHOOSE gives. *)
Chosen(I) == CHOOSE i \in I : TRUE

IsVolume(sum, messages, I) ==
  sum = [J \in SUBSET I |-> IF J = {} THEN 0
                            ELSE messages[Chosen(J)].size + sum[J \ {Chosen(J)}]]

LEMMA ChosenFacts ==
  ASSUME NEW I, IsFiniteSet(I), I # {}
  PROVE  /\ Chosen(I) \in I /\ IsFiniteSet(I \ {Chosen(I)})
         /\ Cardinality(I) \in Nat /\ Cardinality(I \ {Chosen(I)}) \in Nat
         /\ Cardinality(I) = Cardinality(I \ {Chosen(I)}) + 1
<1>1. Chosen(I) \in I
  BY DEF Chosen
<1>2. Cardinality(I) \in Nat
  BY FS_CardinalityType
<1>3. IsFiniteSet(I \ {Chosen(I)}) /\ Cardinality(I \ {Chosen(I)}) = Cardinality(I) - 1
  BY <1>1, FS_RemoveElement
<1>4. Cardinality(I \ {Chosen(I)}) \in Nat
  BY <1>3, FS_CardinalityType
<1> QED
  BY <1>1, <1>2, <1>3, <1>4

LEMMA NoneLeft ==
  ASSUME NEW I, IsFiniteSet(I), Cardinality(I) <= 0
  PROVE  I = {}
<1> SUFFICES ASSUME I # {} PROVE FALSE
  OBVIOUS
<1>1. Cardinality(I) = Cardinality(I \ {Chosen(I)}) + 1 /\ Cardinality(I \ {Chosen(I)}) \in Nat
  BY ChosenFacts
<1> QED
  BY <1>1

LEMMA VolumeExists ==
  ASSUME NEW messages, NEW I, IsFiniteSet(I), \A i \in I : messages[i].size \in Nat
  PROVE  \E sum : /\ IsVolume(sum, messages, I) /\ sum \in [SUBSET I -> Nat]
                  /\ Volume(messages, I) = sum[I]
<1> DEFINE Body(g, J) == IF J = {} THEN 0
                         ELSE messages[Chosen(J)].size + g[J \ {Chosen(J)}]
           Upto(g, n) == \A J \in SUBSET I : Cardinality(J) <= n => g[J] = Body(g, J)
           H == {n \in Nat : \E g \in [SUBSET I -> Nat] : Upto(g, n)}
<1>1. \A J \in SUBSET I : IsFiniteSet(J)
  BY FS_Subset
<1>2. 0 \in H
  <2> DEFINE g == [J \in SUBSET I |-> 0]
  <2>1. Upto(g, 0)
    <3> SUFFICES ASSUME NEW J \in SUBSET I, Cardinality(J) <= 0 PROVE g[J] = Body(g, J)
      OBVIOUS
    <3>1. J = {}
      BY <1>1, NoneLeft
    <3> QED
      BY <3>1
  <2>2. g \in [SUBSET I -> Nat]
    OBVIOUS
  <2> QED
    BY <2>1, <2>2
<1>3. ASSUME NEW n \in Nat, n \in H PROVE n + 1 \in H
  <2>1. PICK g \in [SUBSET I -> Nat] : Upto(g, n)
    BY <1>3
  <2> DEFINE h == [J \in SUBSET I |-> IF Cardinality(J) <= n THEN g[J] ELSE Body(g, J)]
  <2>2. h \in [SUBSET I -> Nat]
    <3> SUFFICES ASSUME NEW J \in SUBSET I PROVE Body(g, J) \in Nat
      OBVIOUS
    <3>1. CASE J = {}
      BY <3>1
    <3>2. CASE J # {}
      <4>1. Chosen(J) \in I /\ J \ {Chosen(J)} \in SUBSET I
        BY <1>1, <3>2, ChosenFacts
      <4>2. messages[Chosen(J)].size \in Nat /\ g[J \ {Chosen(J)}] \in Nat
        BY <4>1
      <4> QED
        BY <3>2, <4>2
    <3> QED
      BY <3>1, <3>2
  <2>3. Upto(h, n + 1)
    <3> SUFFICES ASSUME NEW J \in SUBSET I, Cardinality(J) <= n + 1
                 PROVE  h[J] = Body(h, J)
      OBVIOUS
    <3>1. h[J] = Body(g, J)
      BY <2>1
    <3>2. CASE J = {}
      BY <3>1, <3>2
    <3>3. CASE J # {}
      <4>1. /\ J \ {Chosen(J)} \in SUBSET I /\ Cardinality(J \ {Chosen(J)}) <= n
        <5>1. Cardinality(J) = Cardinality(J \ {Chosen(J)}) + 1 /\ Cardinality(J \ {Chosen(J)}) \in Nat
          BY <1>1, <3>3, ChosenFacts
        <5> QED
          BY <5>1
      <4> QED
        BY <3>1, <3>3, <4>1
    <3> QED
      BY <3>2, <3>3
  <2> HIDE DEF h, Upto
  <2> QED
    BY <2>2, <2>3
<1>4. Nat \subseteq H
  <2> HIDE DEF H
  <2> QED
    BY <1>2, <1>3, Induction
<1>5. Cardinality(I) \in Nat
  BY FS_CardinalityType
<1>6. PICK g \in [SUBSET I -> Nat] : Upto(g, Cardinality(I))
  BY <1>4, <1>5
<1>7. \A J \in SUBSET I : g[J] = Body(g, J)
  BY <1>6, FS_Subset
<1>8. g = [J \in SUBSET I |-> Body(g, J)]
  BY <1>7
<1>9. \E f : f = [J \in SUBSET I |-> Body(f, J)] /\ Volume(messages, I) = f[I]
  BY <1>8, Zenon DEF Volume, MapThenSumSet, MapThenFoldSet, Chosen
<1>10. PICK f : f = [J \in SUBSET I |-> Body(f, J)] /\ Volume(messages, I) = f[I]
  BY <1>9
<1>11. \A J \in SUBSET I : f[J] = Body(f, J)
  <2> HIDE DEF Body
  <2> QED
    BY <1>10
<1>12. f \in [SUBSET I -> Nat]
  <2> DEFINE G == {n \in Nat : \A J \in SUBSET I : Cardinality(J) = n => f[J] \in Nat}
  <2>1. 0 \in G
    BY <1>1, <1>11, NoneLeft
  <2>2. ASSUME NEW n \in Nat, n \in G PROVE n + 1 \in G
    <3> SUFFICES ASSUME NEW J \in SUBSET I, Cardinality(J) = n + 1 PROVE f[J] \in Nat
      OBVIOUS
    <3>1. J # {}
      BY FS_EmptySet
    <3>2. /\ Chosen(J) \in I /\ J \ {Chosen(J)} \in SUBSET I
          /\ Cardinality(J \ {Chosen(J)}) = n
      <4>1. /\ Chosen(J) \in J /\ Cardinality(J \ {Chosen(J)}) \in Nat
            /\ Cardinality(J) = Cardinality(J \ {Chosen(J)}) + 1
        BY <1>1, <3>1, ChosenFacts
      <4> QED
        BY <4>1
    <3>3. messages[Chosen(J)].size \in Nat /\ f[J \ {Chosen(J)}] \in Nat
      BY <2>2, <3>2
    <3>4. f[J] = messages[Chosen(J)].size + f[J \ {Chosen(J)}]
      BY <1>11, <3>1
    <3> QED
      BY <3>3, <3>4
  <2>3. Nat \subseteq G
    <3> HIDE DEF G
    <3> QED
      BY <2>1, <2>2, Induction
  <2>4. \A J \in SUBSET I : f[J] \in Nat
    BY <1>1, <2>3, FS_CardinalityType
  <2>5. f = [J \in SUBSET I |-> f[J]]
    <3> HIDE DEF Body
    <3> QED
      BY <1>10
  <2> QED
    BY <2>4, <2>5
<1> QED
  BY <1>10, <1>12 DEF IsVolume

(* Two sums agree where their messages do. *)
LEMMA VolumesAgree ==
  ASSUME NEW s, NEW t, NEW I, NEW K, IsFiniteSet(I),
         NEW f, IsVolume(f, s, I), NEW g, IsVolume(g, t, K),
         NEW J \in SUBSET I, J \subseteq K, \A i \in J : s[i] = t[i]
  PROVE  f[J] = g[J]
<1> DEFINE H == {n \in Nat : \A L \in SUBSET J : Cardinality(L) = n => f[L] = g[L]}
<1>1. \A L \in SUBSET J : IsFiniteSet(L)
  BY FS_Subset
<1>2. \A L \in SUBSET J : L = {} => f[L] = 0 /\ g[L] = 0
  BY DEF IsVolume
<1>3. \A L \in SUBSET J : L # {} =>
        /\ f[L] = s[Chosen(L)].size + f[L \ {Chosen(L)}]
        /\ g[L] = t[Chosen(L)].size + g[L \ {Chosen(L)}]
  BY DEF IsVolume
<1>4. 0 \in H
  BY <1>1, <1>2, NoneLeft
<1>5. ASSUME NEW n \in Nat, n \in H PROVE n + 1 \in H
  <2> SUFFICES ASSUME NEW L \in SUBSET J, Cardinality(L) = n + 1 PROVE f[L] = g[L]
    OBVIOUS
  <2>1. L # {}
    BY FS_EmptySet
  <2>2. /\ Chosen(L) \in J /\ L \ {Chosen(L)} \in SUBSET J
        /\ Cardinality(L \ {Chosen(L)}) = n
    <3>1. /\ Chosen(L) \in L /\ Cardinality(L \ {Chosen(L)}) \in Nat
          /\ Cardinality(L) = Cardinality(L \ {Chosen(L)}) + 1
      BY <1>1, <2>1, ChosenFacts
    <3> QED
      BY <3>1
  <2>3. s[Chosen(L)] = t[Chosen(L)] /\ f[L \ {Chosen(L)}] = g[L \ {Chosen(L)}]
    BY <1>5, <2>2
  <2> QED
    BY <1>3, <2>1, <2>3
<1>6. Nat \subseteq H
  <2> HIDE DEF H
  <2> QED
    BY <1>4, <1>5, Induction
<1>7. IsFiniteSet(J) /\ Cardinality(J) \in Nat
  BY <1>1, FS_CardinalityType
<1> QED
  BY <1>6, <1>7

LEMMA VolumeSame ==
  ASSUME NEW s, NEW t, NEW I, IsFiniteSet(I), \A i \in I : s[i] = t[i] /\ s[i].size \in Nat
  PROVE  Volume(s, I) = Volume(t, I) /\ Volume(s, I) \in Nat
<1>1. PICK f : /\ IsVolume(f, s, I) /\ f \in [SUBSET I -> Nat] /\ Volume(s, I) = f[I]
  BY VolumeExists
<1>2. \A i \in I : t[i].size \in Nat
  OBVIOUS
<1>3. PICK g : IsVolume(g, t, I) /\ Volume(t, I) = g[I]
  BY <1>2, VolumeExists
<1>4. f[I] = g[I]
  BY <1>1, <1>3, VolumesAgree
<1> QED
  BY <1>1, <1>3, <1>4

(* The volume of a set with one more message, whichever. *)
LEMMA VolumeAdd ==
  ASSUME NEW messages, NEW I, IsFiniteSet(I), \A i \in I : messages[i].size \in Nat,
         NEW x, x \notin I, messages[x].size \in Nat
  PROVE  /\ Volume(messages, {}) = 0 /\ Volume(messages, I) \in Nat
         /\ Volume(messages, I \cup {x}) = Volume(messages, I) + messages[x].size
<1> DEFINE M == I \cup {x}
<1>1. IsFiniteSet(M) /\ \A i \in M : messages[i].size \in Nat
  BY FS_AddElement
<1>2. PICK f : IsVolume(f, messages, M) /\ f \in [SUBSET M -> Nat] /\ Volume(messages, M) = f[M]
  BY <1>1, VolumeExists
<1>3. \A J \in SUBSET M : Volume(messages, J) = f[J]
  <2> SUFFICES ASSUME NEW J \in SUBSET M PROVE Volume(messages, J) = f[J]
    OBVIOUS
  <2>1. IsFiniteSet(J)
    BY <1>1, FS_Subset
  <2>2. PICK g : IsVolume(g, messages, J) /\ Volume(messages, J) = g[J]
    BY <1>1, <2>1, VolumeExists
  <2> QED
    BY <1>1, <1>2, <2>1, <2>2, VolumesAgree
<1>4. f[{}] = 0 /\ \A J \in SUBSET M : J # {} => f[J] = messages[Chosen(J)].size + f[J \ {Chosen(J)}]
  BY <1>2 DEF IsVolume
<1> DEFINE Plus(J, y) == f[J \cup {y}] = f[J] + messages[y].size
           H == {n \in Nat : \A J \in SUBSET M, y \in M :
                  Cardinality(J) = n /\ y \notin J => Plus(J, y)}
<1>5. \A J \in SUBSET M : IsFiniteSet(J) /\ Cardinality(J) \in Nat
  BY <1>1, FS_Subset, FS_CardinalityType
<1>6. ASSUME NEW J \in SUBSET M, NEW y \in M, y \notin J, Chosen(J \cup {y}) = y
      PROVE  Plus(J, y)
  <2>1. (J \cup {y}) \ {y} = J /\ J \cup {y} \in SUBSET M /\ J \cup {y} # {}
    BY <1>6
  <2>2. f[J \cup {y}] = messages[y].size + f[J]
    BY <1>4, <1>6, <2>1
  <2>3. f[J] \in Nat /\ messages[y].size \in Nat
    BY <1>1, <1>2
  <2> QED
    BY <2>2, <2>3
<1>7. 0 \in H
  <2> HIDE DEF Plus
  <2> SUFFICES ASSUME NEW J \in SUBSET M, NEW y \in M, Cardinality(J) = 0, y \notin J
               PROVE  Plus(J, y)
    OBVIOUS
  <2>1. J = {}
    BY <1>5, NoneLeft
  <2>2. Chosen(J \cup {y}) = y
    BY <2>1 DEF Chosen
  <2> QED
    BY <1>6, <2>2
<1>8. ASSUME NEW n \in Nat, n \in H PROVE n + 1 \in H
  <2> HIDE DEF Plus
  <2> SUFFICES ASSUME NEW J \in SUBSET M, NEW y \in M, Cardinality(J) = n + 1, y \notin J
               PROVE  Plus(J, y)
    OBVIOUS
  <2> DEFINE z == Chosen(J \cup {y})
             J1 == J \ {z}
  <2>1. CASE z = y
    BY <1>6, <2>1
  <2>2. CASE z # y
    <3>1. z \in J
      BY <2>2 DEF Chosen
    <3>2. IsFiniteSet(J) /\ J1 \in SUBSET M /\ Cardinality(J1) = n /\ z \notin J1 /\ y \notin J1 /\ z \in M
      <4>1. IsFiniteSet(J) /\ Cardinality(J1) = Cardinality(J) - 1
        BY <1>5, <3>1, FS_RemoveElement
      <4> QED
        BY <3>1, <4>1
    <3>3. Plus(J1, y) /\ Plus(J1, z)
      BY <1>8, <3>2
    <3>4. J1 \cup {z} = J /\ (J \cup {y}) \ {z} = J1 \cup {y}
      BY <2>2, <3>1
    <3>5. f[J \cup {y}] = messages[z].size + f[J1 \cup {y}]
      <4>1. J \cup {y} \in SUBSET M /\ J \cup {y} # {}
        OBVIOUS
      <4> QED
        BY <1>4, <3>4, <4>1
    <3> HIDE DEF J1, z
    <3>6. f[J1 \cup {y}] = f[J1] + messages[y].size /\ f[J] = f[J1] + messages[z].size
      BY <3>3, <3>4 DEF Plus
    <3>7. f[J1] \in Nat /\ messages[y].size \in Nat /\ messages[z].size \in Nat
      BY <1>1, <1>2, <3>2
    <3> QED
      BY <3>5, <3>6, <3>7 DEF Plus
  <2> QED
    BY <2>1, <2>2
<1>9. Nat \subseteq H
  <2> HIDE DEF H
  <2> QED
    BY <1>7, <1>8, Induction
<1>10. Plus(I, x)
  <2>1. I \in SUBSET M /\ x \in M
    OBVIOUS
  <2> HIDE DEF Plus, M
  <2> QED
    BY <1>5, <1>9, <2>1
<1>11. f[{}] = 0 /\ f[I] \in Nat /\ {} \in SUBSET M /\ I \in SUBSET M /\ M \in SUBSET M
  BY <1>2, <1>4
<1> QED
  BY <1>3, <1>10, <1>11

(* A range of numbers with the next one. *)
LEMMA VolumeNext ==
  ASSUME NEW s, NEW l \in Int, NEW n \in Int, l <= n + 1,
         \A i \in l..(n + 1) : s[i].size \in Nat
  PROVE  /\ Volume(s, l..n) \in Nat
         /\ Volume(s, l..(n + 1)) = Volume(s, l..n) + s[n + 1].size
<1>1. l..(n + 1) = (l..n) \cup {n + 1} /\ n + 1 \notin l..n /\ n + 1 \in l..(n + 1)
  OBVIOUS
<1>2. IsFiniteSet(l..n)
  BY FS_Interval
<1> QED
  BY <1>1, <1>2, VolumeAdd

LEMMA VolumeNone == \A s : Volume(s, {}) = 0
<1> SUFFICES ASSUME NEW s PROVE Volume(s, {}) = 0
  OBVIOUS
<1>1. PICK sum : IsVolume(sum, s, {}) /\ Volume(s, {}) = sum[{}]
  BY FS_EmptySet, VolumeExists
<1> QED
  BY <1>1 DEF IsVolume

(* The messages of s from l to n are those of t that come p later. *)
Shifted(s, l, n, t, p) ==
  /\ p \in Nat /\ l \in Nat /\ n \in Nat
  /\ \A i \in l..n : s[i] = t[p + i] /\ s[i].size \in Nat

LEMMA VolumeShift ==
  ASSUME NEW s, NEW t, NEW p, NEW l, NEW n, Shifted(s, l, n, t, p)
  PROVE  Volume(s, l..n) \in Nat /\ Volume(s, l..n) = Volume(t, (p + l)..(p + n))
<1> SUFFICES ASSUME p \in Nat, l \in Nat, n \in Nat,
                    \A i \in l..n : s[i] = t[p + i] /\ s[i].size \in Nat
             PROVE  Volume(s, l..n) \in Nat /\ Volume(s, l..n) = Volume(t, (p + l)..(p + n))
  BY DEF Shifted
<1> DEFINE Good(k) == Volume(s, l..k) \in Nat /\ Volume(s, l..k) = Volume(t, (p + l)..(p + k))
           H == {k \in Nat : k <= n => Good(k)}
<1>1. ASSUME NEW k \in Nat, k < l PROVE Good(k)
  <2>1. l..k = {} /\ (p + l)..(p + k) = {}
    BY <1>1
  <2> QED
    BY <2>1, VolumeNone
<1>2. ASSUME NEW k \in Int, l <= k + 1, k + 1 \in Nat, k + 1 <= n,
             Volume(s, l..k) = Volume(t, (p + l)..(p + k))
      PROVE  Good(k + 1)
  <2>1. /\ Volume(s, l..k) \in Nat
        /\ Volume(s, l..(k + 1)) = Volume(s, l..k) + s[k + 1].size
    <3>1. \A i \in l..(k + 1) : s[i].size \in Nat
      BY <1>2
    <3>2. l \in Int /\ l <= k + 1
      BY <1>2
    <3> QED
      BY <3>1, <3>2, VolumeNext
  <2>2. Volume(t, (p + l)..((p + k) + 1)) = Volume(t, (p + l)..(p + k)) + t[(p + k) + 1].size
    <3>1. ASSUME NEW i \in (p + l)..((p + k) + 1) PROVE t[i].size \in Nat
      <4>1. i - p \in l..n /\ p + (i - p) = i
        BY <1>2
      <4> QED
        BY <4>1
    <3>2. p + l \in Int /\ p + k \in Int /\ p + l <= (p + k) + 1
      BY <1>2
    <3> QED
      BY <3>1, <3>2, VolumeNext
  <2>3. (p + k) + 1 = p + (k + 1)
    BY <1>2
  <2>4. s[k + 1] = t[(p + k) + 1] /\ s[k + 1].size \in Nat
    <3>1. k + 1 \in l..n
      BY <1>2
    <3> QED
      BY <2>3, <3>1
  <2> QED
    BY <1>2, <2>1, <2>2, <2>3, <2>4
<1>3. 0 \in H
  <2>1. CASE 0 < l
    BY <1>1, <2>1
  <2>2. CASE l = 0
    <3>1. l..(-1) = {} /\ (p + l)..(p + (-1)) = {}
      BY <2>2
    <3>2. Volume(s, l..(-1)) = Volume(t, (p + l)..(p + (-1)))
      BY <3>1, VolumeNone
    <3>3. -1 \in Int /\ l <= (-1) + 1 /\ (-1) + 1 = 0
      BY <2>2
    <3> HIDE DEF Good
    <3>4. 0 <= n => Good((-1) + 1)
      BY <1>2, <3>2, <3>3
    <3> QED
      BY <3>3, <3>4
  <2> QED
    BY <2>1, <2>2
<1>4. ASSUME NEW k \in Nat, k \in H PROVE k + 1 \in H
  <2> SUFFICES ASSUME k + 1 <= n PROVE Good(k + 1)
    OBVIOUS
  <2>1. CASE k + 1 < l
    BY <1>1, <2>1
  <2>2. CASE ~(k + 1 < l)
    <3>1. l <= k + 1 /\ k <= n
      BY <2>2
    <3>2. Volume(s, l..k) = Volume(t, (p + l)..(p + k))
      BY <1>4, <3>1
    <3> QED
      BY <1>2, <3>1, <3>2
  <2> QED
    BY <2>1, <2>2
<1>5. Nat \subseteq H
  <2> HIDE DEF H
  <2> QED
    BY <1>3, <1>4, Induction
<1> QED
  BY <1>5

Splits(s, m, n) ==
  m \in Nat /\ n \in Nat /\ m <= n /\ \A i \in 1..n : s[i].size \in Nat

LEMMA VolumeSplit ==
  ASSUME NEW s, NEW m, NEW n, Splits(s, m, n)
  PROVE  /\ Volume(s, 1..m) \in Nat /\ Volume(s, (m + 1)..n) \in Nat
         /\ Volume(s, 1..n) = Volume(s, 1..m) + Volume(s, (m + 1)..n)
<1> SUFFICES ASSUME m \in Nat, n \in Nat, m <= n, \A i \in 1..n : s[i].size \in Nat
             PROVE  /\ Volume(s, 1..m) \in Nat /\ Volume(s, (m + 1)..n) \in Nat
                    /\ Volume(s, 1..n) = Volume(s, 1..m) + Volume(s, (m + 1)..n)
  BY DEF Splits
<1>1. Volume(s, 1..m) \in Nat
  <2>1. IsFiniteSet(1..m) /\ \A i \in 1..m : s[i].size \in Nat
    BY FS_Interval
  <2>2. PICK f : f \in [SUBSET (1..m) -> Nat] /\ Volume(s, 1..m) = f[1..m]
    BY <2>1, VolumeExists
  <2> QED
    BY <2>2
<1> DEFINE Good(k) == /\ Volume(s, (m + 1)..k) \in Nat
                      /\ Volume(s, 1..k) = Volume(s, 1..m) + Volume(s, (m + 1)..k)
           H == {k \in Nat : m <= k /\ k <= n => Good(k)}
<1>2. Good(m)
  <2>1. (m + 1)..m = {}
    OBVIOUS
  <2> QED
    BY <1>1, <2>1, VolumeNone
<1>3. 0 \in H
  <2>1. m <= 0 => m = 0
    OBVIOUS
  <2> HIDE DEF Good
  <2> QED
    BY <1>2, <2>1
<1>4. ASSUME NEW k \in Nat, k \in H PROVE k + 1 \in H
  <2> SUFFICES ASSUME m <= k + 1, k + 1 <= n PROVE Good(k + 1)
    OBVIOUS
  <2>1. CASE m = k + 1
    BY <1>2, <2>1
  <2>2. CASE m # k + 1
    <3>1. m <= k /\ k <= n /\ k + 1 \in 1..n
      BY <2>2
    <3>2. Good(k)
      BY <1>4, <3>1
    <3>3. Volume(s, (m + 1)..(k + 1)) = Volume(s, (m + 1)..k) + s[k + 1].size
      <4>1. \A i \in (m + 1)..(k + 1) : s[i].size \in Nat
        BY <3>1
      <4>2. m + 1 \in Int /\ k \in Int /\ m + 1 <= k + 1
        BY <3>1
      <4> QED
        BY <4>1, <4>2, VolumeNext
    <3>4. Volume(s, 1..(k + 1)) = Volume(s, 1..k) + s[k + 1].size
      <4>1. \A i \in 1..(k + 1) : s[i].size \in Nat
        BY <3>1
      <4>2. 1 \in Int /\ k \in Int /\ 1 <= k + 1
        OBVIOUS
      <4> QED
        BY <4>1, <4>2, VolumeNext
    <3>5. s[k + 1].size \in Nat
      BY <3>1
    <3> QED
      BY <1>1, <3>2, <3>3, <3>4, <3>5
  <2> QED
    BY <2>1, <2>2
<1>5. Nat \subseteq H
  <2> HIDE DEF H
  <2> QED
    BY <1>3, <1>4, Induction
<1> QED
  BY <1>1, <1>5

-----------------------------------------------------------------------------
AllowedFrame == [at : Nat, size : Sizes]

(* The deque is the end of the log, without what was allowed a minute ago or
   earlier, and the running total is its volume. *)
LimiterIInv ==
  /\ now \in 0..MaxTime /\ allowed \in BOOLEAN
  /\ log \in Seq(AllowedFrame) /\ events \in Seq(AllowedFrame)
  /\ Len(events) <= MaxMessages /\ bytes <= MaxBytes
  /\ bytes = Volume(events, 1..Len(events))
  /\ Len(events) <= Len(log)
  /\ \A i \in 1..Len(events) : events[i] = log[(Len(log) - Len(events)) + i]
  /\ \A i \in 1..(Len(log) - Len(events)) : log[i].at <= now - Window
  /\ \A i \in 1..Len(log) : log[i].at <= now /\ \A j \in 1..i : log[j].at <= log[i].at

LEMMA StaleFacts ==
  ASSUME LimiterIInv
  PROVE  /\ Stale(now - Window) \in 0..Len(events)
         /\ \A i \in 1..Stale(now - Window) : events[i].at <= now - Window
         /\ Stale(now - Window) < Len(events) => events[Stale(now - Window) + 1].at > now - Window
<1> DEFINE cutoff == now - Window
           Past(n) == /\ \A i \in 1..n : events[i].at <= cutoff
                      /\ n < Len(events) => events[n + 1].at > cutoff
           T == {n \in 0..Len(events) : n < Len(events) => events[n + 1].at > cutoff}
<1>1. Len(events) \in Nat /\ \A i \in 1..Len(events) : events[i].at \in Nat
  <2>1. events \in Seq(AllowedFrame)
    BY DEF LimiterIInv
  <2>2. Len(events) \in Nat /\ \A i \in 1..Len(events) : events[i] \in AllowedFrame
    BY <2>1
  <2> QED
    BY <2>2 DEF AllowedFrame
<1>2. cutoff \in Int
  BY RateWindowAssumption DEF LimiterIInv, RateWindowAssumption
<1> HIDE DEF cutoff
<1>3. T \in SUBSET Nat /\ T # {}
  <2>1. Len(events) \in T
    BY <1>1
  <2> QED
    BY <2>1
<1>4. PICK n \in T : \A k \in T : n <= k
  <2> HIDE DEF T
  <2> QED
    BY <1>3, NatMin
<1>5. \A i \in 1..n : events[i].at <= cutoff
  <2> SUFFICES ASSUME NEW i \in 1..n, ~(events[i].at <= cutoff) PROVE FALSE
    OBVIOUS
  <2>1. n \in 0..Len(events) /\ i \in 1..Len(events) /\ i - 1 \in 0..Len(events) /\ (i - 1) + 1 = i
    BY <1>1, <1>4
  <2>2. events[i].at > cutoff
    BY <1>1, <1>2, <2>1
  <2>3. i - 1 \in T
    BY <2>1, <2>2
  <2>4. n <= i - 1 /\ n \in Nat /\ i \in 1..n
    <3> HIDE DEF T
    <3> QED
      BY <1>3, <1>4, <2>3
  <2> QED
    BY <2>4
<1>6. \E k \in 0..Len(events) : Past(k)
  BY <1>4, <1>5
<1>7. Stale(cutoff) \in 0..Len(events) /\ Past(Stale(cutoff))
  BY <1>6, Zenon DEF Stale
<1> QED
  BY <1>7 DEF cutoff

(* lg is a log of P + K messages, and ev its last stale + K ones, of which the first
   stale are not after the cutoff. *)
PrunesAt(ev, stale, K, lg, P, Q, cutoff) ==
  /\ stale \in Nat /\ K \in Nat /\ P \in Nat /\ Q \in Nat /\ P = Q + stale /\ cutoff \in Int
  /\ \A i \in 1..(stale + K) : ev[i] = lg[Q + i]
  /\ \A i \in 1..(P + K) : lg[i].at \in Nat /\ lg[i].size \in Nat
  /\ \A i \in 1..(P + K) : \A j \in 1..i : lg[j].at <= lg[i].at
  /\ \A i \in 1..Q : lg[i].at <= cutoff
  /\ \A i \in 1..stale : ev[i].at <= cutoff
  /\ K # 0 => ev[stale + 1].at > cutoff

(* What ev has after them is what lg has after the cutoff. *)
LEMMA SuffixIsRecent ==
  ASSUME NEW ev, NEW stale, NEW K, NEW lg, NEW P, NEW Q, NEW cutoff,
         PrunesAt(ev, stale, K, lg, P, Q, cutoff)
  PROVE  /\ \A i \in 1..P : lg[i].at <= cutoff
         /\ {i \in 1..(P + K) : cutoff < lg[i].at} = (P + 1)..(P + K)
         /\ Cardinality((P + 1)..(P + K)) = K
         /\ Volume(ev, 1..stale) \in Nat
         /\ Volume(ev, 1..(stale + K)) = Volume(ev, 1..stale) + Volume(lg, (P + 1)..(P + K))
         /\ Volume(lg, (P + 1)..(P + K)) \in Nat
<1> USE DEF PrunesAt
<1>1. \A i \in 1..P : lg[i].at <= cutoff
  <2> SUFFICES ASSUME NEW i \in 1..P, ~(i \in 1..Q) PROVE lg[i].at <= cutoff
    OBVIOUS
  <2>1. i - Q \in 1..stale /\ i - Q \in 1..(stale + K) /\ Q + (i - Q) = i
    OBVIOUS
  <2>2. ev[i - Q].at <= cutoff /\ ev[i - Q] = lg[Q + (i - Q)]
    BY <2>1
  <2> QED
    BY <2>1, <2>2
<1>2. \A i \in (P + 1)..(P + K) : lg[i].at > cutoff
  <2> SUFFICES ASSUME NEW i \in (P + 1)..(P + K) PROVE lg[i].at > cutoff
    OBVIOUS
  <2>1. K # 0 /\ stale + 1 \in 1..(stale + K) /\ Q + (stale + 1) = P + 1
    OBVIOUS
  <2>2. P + 1 \in 1..i /\ P + 1 \in 1..(P + K) /\ i \in 1..(P + K)
    OBVIOUS
  <2>3. lg[P + 1].at > cutoff
    BY <2>1
  <2>4. lg[P + 1].at <= lg[i].at
    BY <2>2
  <2>5. lg[P + 1].at \in Nat /\ lg[i].at \in Nat
    BY <2>2
  <2> QED
    BY <2>3, <2>4, <2>5
<1>3. {i \in 1..(P + K) : cutoff < lg[i].at} = (P + 1)..(P + K)
  <2>1. \A i \in 1..(P + K) : i \in 1..P \/ i \in (P + 1)..(P + K)
    OBVIOUS
  <2>2. ASSUME NEW i \in 1..(P + K) PROVE cutoff < lg[i].at <=> i \in (P + 1)..(P + K)
    <3>1. lg[i].at \in Nat
      OBVIOUS
    <3>2. CASE i \in 1..P
      <4>1. lg[i].at <= cutoff /\ i \notin (P + 1)..(P + K)
        BY <1>1, <3>2
      <4> QED
        BY <3>1, <4>1
    <3>3. CASE i \in (P + 1)..(P + K)
      BY <1>2, <3>1, <3>3
    <3> QED
      BY <2>1, <3>2, <3>3
  <2>3. (P + 1)..(P + K) \subseteq 1..(P + K)
    OBVIOUS
  <2> QED
    BY <2>2, <2>3
<1>4. Cardinality((P + 1)..(P + K)) = K
  <2>1. P + 1 \in Int /\ P + K \in Int
    OBVIOUS
  <2>2. Cardinality((P + 1)..(P + K)) = IF P + 1 > P + K THEN 0 ELSE (P + K) - (P + 1) + 1
    BY <2>1, FS_Interval
  <2>3. (IF P + 1 > P + K THEN 0 ELSE (P + K) - (P + 1) + 1) = K
    OBVIOUS
  <2> QED
    BY <2>2, <2>3
<1>5. \A i \in 1..(stale + K) : ev[i] = lg[Q + i] /\ ev[i].size \in Nat
  <2> SUFFICES ASSUME NEW i \in 1..(stale + K) PROVE ev[i].size \in Nat
    OBVIOUS
  <2>1. Q + i \in 1..(P + K)
    OBVIOUS
  <2> QED
    BY <2>1
<1>6. /\ Volume(ev, 1..stale) \in Nat /\ Volume(ev, (stale + 1)..(stale + K)) \in Nat
      /\ Volume(ev, 1..(stale + K)) = Volume(ev, 1..stale) + Volume(ev, (stale + 1)..(stale + K))
  <2>1. Splits(ev, stale, stale + K)
    BY <1>5 DEF Splits
  <2> QED
    BY <2>1, VolumeSplit
<1>7. Volume(ev, (stale + 1)..(stale + K)) = Volume(lg, (P + 1)..(P + K))
  <2>1. \A i \in (stale + 1)..(stale + K) : ev[i] = lg[Q + i] /\ ev[i].size \in Nat
    BY <1>5
  <2>2. Shifted(ev, stale + 1, stale + K, lg, Q)
    BY <2>1 DEF Shifted
  <2>3. Volume(ev, (stale + 1)..(stale + K)) = Volume(lg, (Q + (stale + 1))..(Q + (stale + K)))
    BY <2>2, VolumeShift
  <2>4. Q + (stale + 1) = P + 1 /\ Q + (stale + K) = P + K
    OBVIOUS
  <2> QED
    BY <2>3, <2>4
<1> QED
  BY <1>1, <1>3, <1>4, <1>6, <1>7

(* What is left of the deque is what the history holds of the last minute. *)
LEMMA PrunedIsRecent ==
  ASSUME LimiterIInv, NEW stale \in 0..Len(events),
         \A i \in 1..stale : events[i].at <= now - Window,
         stale < Len(events) => events[stale + 1].at > now - Window,
         NEW kept, Len(kept) = Len(events) - stale,
         \A i \in 1..Len(kept) : kept[i] = events[stale + i],
         NEW left, left = bytes - Volume(events, 1..stale)
  PROVE  /\ \A i \in 1..Len(kept) : kept[i] = log[(Len(log) - Len(kept)) + i]
         /\ \A i \in 1..(Len(log) - Len(kept)) : log[i].at <= now - Window
         /\ left = Volume(kept, 1..Len(kept)) /\ left \in Nat /\ left <= bytes
         /\ Cardinality(Recent) = Len(kept) /\ Volume(log, Recent) = left
<1> DEFINE L == Len(events)
           N == Len(log)
           cutoff == now - Window
           K == L - stale
           P == N - K
           Q == N - L
<1>1. /\ L \in Nat /\ N \in Nat /\ L <= N /\ cutoff \in Int
      /\ stale \in 0..L
      /\ events \in Seq(AllowedFrame) /\ log \in Seq(AllowedFrame)
      /\ DOMAIN log = 1..N
  BY RateWindowAssumption DEF LimiterIInv, RateWindowAssumption
<1>2. /\ \A i \in 1..L : events[i] \in AllowedFrame /\ events[i] = log[Q + i]
      /\ \A i \in 1..N : log[i] \in AllowedFrame
      /\ \A i \in 1..Q : log[i].at <= cutoff
      /\ \A i \in 1..N : \A j \in 1..i : log[j].at <= log[i].at
  BY <1>1 DEF LimiterIInv
<1>3. /\ \A i \in 1..stale : events[i].at <= cutoff
      /\ stale < L => events[stale + 1].at > cutoff
  OBVIOUS
<1>4. bytes = Volume(events, 1..L)
  BY DEF LimiterIInv
<1>5. Recent = {i \in 1..N : cutoff < log[i].at}
  BY <1>1 DEF Recent
<1> HIDE DEF L, N, cutoff
<1>6. \A x \in AllowedFrame : x.size \in Nat /\ x.at \in Nat
  BY RateWindowAssumption DEF AllowedFrame, RateWindowAssumption
<1>7. Len(kept) = K /\ \A i \in 1..K : kept[i] = events[stale + i]
  BY DEF L
<1>8. /\ stale \in Nat /\ K \in Nat /\ P \in Nat /\ Q \in Nat
      /\ L = stale + K /\ P = Q + stale /\ N = P + K /\ (K # 0 => stale < L)
  <2>1. stale \in Nat /\ L \in Nat /\ N \in Nat /\ stale <= L /\ L <= N
    BY <1>1
  <2> QED
    BY <2>1
<1> HIDE DEF K, P, Q
<1>9. /\ \A i \in 1..P : log[i].at <= cutoff
      /\ {i \in 1..(P + K) : cutoff < log[i].at} = (P + 1)..(P + K)
      /\ Cardinality((P + 1)..(P + K)) = K
      /\ Volume(events, 1..stale) \in Nat
      /\ Volume(events, 1..(stale + K)) = Volume(events, 1..stale) + Volume(log, (P + 1)..(P + K))
      /\ Volume(log, (P + 1)..(P + K)) \in Nat
  <2>1. PrunesAt(events, stale, K, log, P, Q, cutoff)
    BY <1>1, <1>2, <1>3, <1>6, <1>8 DEF PrunesAt
  <2> QED
    BY <2>1, SuffixIsRecent
<1>10. ASSUME NEW i \in 1..K PROVE kept[i] = log[P + i] /\ kept[i] \in AllowedFrame
  <2>1. stale + i \in 1..L /\ Q + (stale + i) = P + i
    <3>1. i \in Nat /\ 1 <= i /\ i <= K /\ stale \in Nat /\ K \in Nat /\ Q \in Nat
      BY <1>8
    <3> QED
      BY <1>8, <3>1
  <2> QED
    BY <1>2, <1>7, <2>1
<1>11. left = Volume(log, (P + 1)..(P + K)) /\ left \in Nat /\ left <= bytes
  <2>1. bytes = Volume(events, 1..(stale + K))
    BY <1>4, <1>8
  <2> QED
    BY <1>9, <2>1
<1>12. Volume(kept, 1..K) = Volume(log, (P + 1)..(P + K))
  <2>1. \A i \in 1..K : kept[i] = log[P + i] /\ kept[i].size \in Nat
    BY <1>6, <1>10
  <2>2. Shifted(kept, 1, K, log, P)
    BY <1>8, <2>1 DEF Shifted
  <2> QED
    BY <2>2, VolumeShift
<1>13. Recent = (P + 1)..(P + K)
  BY <1>5, <1>8, <1>9
<1>14. N - K = P /\ L - stale = K
  BY DEF P, K
<1> QED
  BY <1>1, <1>7, <1>9, <1>10, <1>11, <1>12, <1>13, <1>14 DEF L, N, cutoff

-----------------------------------------------------------------------------
LEMMA LimiterInitIInv == LimiterInit => LimiterIInv
<1> SUFFICES ASSUME LimiterInit PROVE LimiterIInv
  OBVIOUS
<1>1. now = 0 /\ log = <<>> /\ allowed = TRUE /\ events = <<>> /\ bytes = 0
  BY DEF LimiterInit, WindowInit
<1>2. Len(events) = 0 /\ Len(log) = 0 /\ log \in Seq(AllowedFrame) /\ events \in Seq(AllowedFrame)
  BY <1>1
<1>3. Volume(events, 1..Len(events)) = 0
  <2>1. 1..Len(events) = {}
    BY <1>2
  <2> QED
    BY <2>1, VolumeNone
<1> QED
  BY <1>1, <1>2, <1>3, RateWindowAssumption DEF LimiterIInv, RateWindowAssumption

(* One verdict: it is the one that the whole history gives. *)
LEMMA AllowStep ==
  ASSUME LimiterIInv, NEW size \in Sizes, Allow(size)
  PROVE  LimiterIInv' /\ Judge(size)
<1> DEFINE stale == Stale(now - Window)
           kept  == SubSeq(events, stale + 1, Len(events))
           left  == bytes - Volume(events, 1..stale)
           m     == Message(size)
<1>1. /\ allowed' = (Len(kept) + 1 <= MaxMessages /\ left + size <= MaxBytes)
      /\ events' = IF allowed' THEN Append(kept, m) ELSE kept
      /\ bytes' = IF allowed' THEN left + size ELSE left
      /\ log' = IF allowed' THEN Append(log, m) ELSE log
      /\ now' = now
  BY DEF Allow
<1>2. /\ stale \in 0..Len(events) /\ kept \in Seq(AllowedFrame)
      /\ Len(kept) = Len(events) - stale
      /\ \A i \in 1..Len(kept) : kept[i] = log[(Len(log) - Len(kept)) + i]
      /\ \A i \in 1..(Len(log) - Len(kept)) : log[i].at <= now - Window
      /\ left = Volume(kept, 1..Len(kept)) /\ left \in Nat /\ left <= bytes
      /\ Cardinality(Recent) = Len(kept) /\ Volume(log, Recent) = left
  <2>1. /\ stale \in 0..Len(events)
        /\ \A i \in 1..stale : events[i].at <= now - Window
        /\ stale < Len(events) => events[stale + 1].at > now - Window
    BY StaleFacts
  <2>2. events \in Seq(AllowedFrame)
    BY DEF LimiterIInv
  <2> HIDE DEF stale
  <2>3. /\ kept \in Seq(AllowedFrame) /\ Len(kept) = Len(events) - stale
        /\ \A i \in 1..Len(kept) : kept[i] = events[stale + i]
    BY <2>1, <2>2
  <2> HIDE DEF kept
  <2> QED
    BY <2>1, <2>3, PrunedIsRecent
<1>3. /\ now \in 0..MaxTime /\ log \in Seq(AllowedFrame) /\ Len(log) \in Nat
      /\ Len(events) \in Nat /\ Len(events) <= MaxMessages /\ bytes <= MaxBytes
      /\ Len(events) <= Len(log)
      /\ \A i \in 1..Len(log) : log[i].at <= now /\ \A j \in 1..i : log[j].at <= log[i].at
  BY DEF LimiterIInv
<1>4. bytes \in Nat
  <2>1. \A i \in 1..Len(events) : events[i].size \in Nat
    <3>1. events \in Seq(AllowedFrame) /\ \A x \in AllowedFrame : x.size \in Nat
      BY RateWindowAssumption DEF LimiterIInv, AllowedFrame, RateWindowAssumption
    <3> QED
      BY <3>1
  <2>2. IsFiniteSet(1..Len(events))
    BY FS_Interval
  <2>3. PICK f : f \in [SUBSET (1..Len(events)) -> Nat] /\ Volume(events, 1..Len(events)) = f[1..Len(events)]
    BY <2>1, <2>2, VolumeExists
  <2> QED
    BY <2>3 DEF LimiterIInv
<1>5. /\ m \in AllowedFrame /\ m.at = now /\ m.size = size /\ size \in Nat
      /\ MaxMessages \in Nat /\ MaxBytes \in Nat /\ Window \in Nat /\ MaxTime \in Nat
  BY <1>3, RateWindowAssumption DEF Message, AllowedFrame, RateWindowAssumption
<1>6. \A x \in AllowedFrame : x.at \in Nat /\ x.size \in Nat
  BY RateWindowAssumption DEF AllowedFrame, RateWindowAssumption
<1> HIDE DEF stale, kept, left, m
<1>7. Len(kept) \in Nat /\ Len(kept) <= Len(events) /\ Len(kept) <= Len(log)
  BY <1>2, <1>3
<1>8. Judge(size)
  <2>1. Len(kept) + 1 <= MaxMessages <=> Len(kept) < MaxMessages
    BY <1>5, <1>7
  <2> QED
    BY <1>1, <1>2, <2>1 DEF Judge, m
<1>9. CASE ~allowed'
  <2>1. events' = kept /\ bytes' = left /\ log' = log /\ now' = now /\ allowed' \in BOOLEAN
    BY <1>1, <1>9
  <2>2. Len(kept) <= MaxMessages /\ left <= MaxBytes
    BY <1>2, <1>3, <1>4, <1>5, <1>7
  <2>3. LimiterIInv'
    BY <1>2, <1>3, <1>7, <2>1, <2>2 DEF LimiterIInv
  <2> QED
    BY <1>8, <2>3
<1>10. CASE allowed'
  <2> DEFINE ev == Append(kept, m)
             lg == Append(log, m)
             k == Len(kept)
             n == Len(log)
  <2>1. /\ events' = ev /\ bytes' = left + size /\ log' = lg /\ now' = now /\ allowed' \in BOOLEAN
        /\ k + 1 <= MaxMessages /\ left + size <= MaxBytes
    BY <1>1, <1>10
  <2>2. /\ ev \in Seq(AllowedFrame) /\ Len(ev) = k + 1 /\ ev[k + 1] = m /\ \A i \in 1..k : ev[i] = kept[i]
    BY <1>2, <1>5
  <2>3. /\ lg \in Seq(AllowedFrame) /\ Len(lg) = n + 1 /\ lg[n + 1] = m /\ \A i \in 1..n : lg[i] = log[i]
    BY <1>3, <1>5
  <2> HIDE DEF ev, lg
  <2>4. k \in Nat /\ n \in Nat /\ k <= n
    BY <1>3, <1>7
  <2>5. /\ \A i \in 1..k : kept[i] = log[(n - k) + i] /\ kept[i] \in AllowedFrame
        /\ \A i \in 1..(n - k) : log[i].at <= now - Window
        /\ left = Volume(kept, 1..k)
    <3>1. \A i \in 1..Len(kept) : kept[i] = log[(n - k) + i] /\ kept[i] \in AllowedFrame
      BY <1>2
    <3>2. \A i \in 1..(n - k) : log[i].at <= now - Window
      BY <1>2
    <3>3. left = Volume(kept, 1..Len(kept))
      BY <1>2
    <3> QED
      BY <3>1, <3>2, <3>3
  <2>6. /\ \A i \in 1..n : log[i] \in AllowedFrame
        /\ \A i \in 1..n : log[i].at <= now /\ \A j \in 1..i : log[j].at <= log[i].at
    BY <1>3
  <2> HIDE DEF k, n
  <2>7. left + size = Volume(ev, 1..(k + 1))
    <3>1. \A i \in 1..k : kept[i] = ev[i] /\ kept[i].size \in Nat
      BY <1>6, <2>2, <2>4, <2>5
    <3>2. IsFiniteSet(1..k)
      BY <2>4, FS_Interval
    <3>3. Volume(kept, 1..k) = Volume(ev, 1..k)
      BY <3>1, <3>2, VolumeSame
    <3>4. \A i \in 1..(k + 1) : ev[i].size \in Nat
      BY <1>6, <2>2
    <3>5. Volume(ev, 1..(k + 1)) = Volume(ev, 1..k) + ev[k + 1].size
      <4>1. 1 \in Int /\ k \in Int /\ 1 <= k + 1
        BY <2>4
      <4> QED
        BY <3>4, <4>1, VolumeNext
    <3> QED
      BY <1>5, <2>2, <2>5, <3>3, <3>5
  <2>8. (n + 1) - (k + 1) = n - k
    BY <2>4
  <2>9. ASSUME NEW i \in 1..(k + 1) PROVE ev[i] = lg[(n - k) + i]
    <3>1. CASE i \in 1..k
      <4>1. (n - k) + i \in 1..n
        BY <2>4, <3>1
      <4> QED
        BY <2>2, <2>3, <2>5, <3>1, <4>1
    <3>2. CASE i = k + 1
      <4>1. (n - k) + i = n + 1
        BY <2>4, <3>2
      <4> QED
        BY <2>2, <2>3, <3>2, <4>1
    <3> QED
      BY <2>4, <3>1, <3>2
  <2>10. ASSUME NEW i \in 1..(n - k) PROVE lg[i].at <= now - Window
    <3>1. i \in 1..n
      BY <2>4
    <3> QED
      BY <2>3, <2>5, <3>1
  <2>11. ASSUME NEW i \in 1..(n + 1) PROVE lg[i].at <= now /\ \A j \in 1..i : lg[j].at <= lg[i].at
    <3>1. now \in Nat
      BY <1>3, <1>5
    <3>2. CASE i \in 1..n
      <4>1. \A j \in 1..i : j \in 1..n
        BY <2>4, <3>2
      <4> QED
        BY <2>3, <2>6, <3>2, <4>1
    <3>3. CASE i = n + 1
      <4>1. lg[i].at = now
        BY <1>5, <2>3, <3>3
      <4>2. ASSUME NEW j \in 1..i PROVE lg[j].at <= now
        <5>1. CASE j \in 1..n
          BY <2>3, <2>6, <5>1
        <5>2. CASE j = n + 1
          BY <3>1, <3>3, <4>1, <5>2
        <5> QED
          BY <2>4, <3>3, <5>1, <5>2
      <4> QED
        BY <3>1, <4>1, <4>2
    <3> QED
      BY <2>4, <3>2, <3>3
  <2>12. k + 1 <= n + 1
    BY <2>4
  <2>13. LimiterIInv'
    BY <1>3, <2>1, <2>2, <2>3, <2>7, <2>8, <2>9, <2>10, <2>11, <2>12 DEF LimiterIInv
  <2> QED
    BY <1>8, <2>13
<1> QED
  BY <1>9, <1>10

LEMMA LimiterTickStep ==
  ASSUME LimiterIInv, LimiterTick
  PROVE  LimiterIInv' /\ WindowTick
<1>1. /\ now < MaxTime /\ now' = now + 1
      /\ log' = log /\ allowed' = allowed /\ events' = events /\ bytes' = bytes
  BY DEF LimiterTick, WindowTick
<1>2. now \in 0..MaxTime /\ MaxTime \in Nat /\ Window \in Nat
  BY RateWindowAssumption DEF LimiterIInv, RateWindowAssumption
<1>3. now' \in 0..MaxTime /\ now <= now' /\ now - Window <= now' - Window
  BY <1>1, <1>2
<1>4. \A i \in 1..Len(log) : log[i].at \in Nat
  <2>1. log \in Seq(AllowedFrame)
    BY DEF LimiterIInv
  <2>2. \A i \in 1..Len(log) : log[i] \in AllowedFrame
    BY <2>1
  <2> QED
    BY <2>2 DEF AllowedFrame
<1>5. \A i \in 1..(Len(log) - Len(events)) : log[i].at <= now' - Window
  <2> SUFFICES ASSUME NEW i \in 1..(Len(log) - Len(events)) PROVE log[i].at <= now' - Window
    OBVIOUS
  <2>1. log[i].at <= now - Window
    BY DEF LimiterIInv
  <2>2. Len(log) \in Nat /\ Len(events) \in Nat
    BY DEF LimiterIInv
  <2>3. i \in 1..Len(log)
    BY <2>2
  <2> QED
    BY <1>1, <1>2, <1>4, <2>1, <2>3
<1>6. \A i \in 1..Len(log) : log[i].at <= now' /\ \A j \in 1..i : log[j].at <= log[i].at
  <2>1. \A i \in 1..Len(log) : log[i].at <= now /\ \A j \in 1..i : log[j].at <= log[i].at
    BY DEF LimiterIInv
  <2> QED
    BY <1>1, <1>2, <1>4, <2>1
<1>7. LimiterIInv'
  BY <1>1, <1>3, <1>5, <1>6 DEF LimiterIInv
<1> QED
  BY <1>7 DEF LimiterTick

LEMMA LimiterNextIInv == LimiterIInv /\ [LimiterNext]_limiterVars => LimiterIInv'
<1>1. CASE UNCHANGED limiterVars
  BY <1>1 DEF LimiterIInv, limiterVars
<1> QED
  BY <1>1, AllowStep, LimiterTickStep DEF LimiterNext

(* The deque holds exactly the last minute's part of all that was allowed, or frames
   that are to be pruned before it is asked again, and never more than the limits. *)
THEOREM LimiterInvariance == LimiterSpec => []LimiterIInv
<1> QED
  BY LimiterInitIInv, LimiterNextIInv, PTL DEF LimiterSpec

(* _RateLimiter.allow's deque and total stay within the limits and their types. *)
THEOREM LimiterTypeCorrect == LimiterSpec => []LimiterTypeOK
<1>1. LimiterIInv => LimiterTypeOK
  <2> SUFFICES ASSUME LimiterIInv PROVE LimiterTypeOK
    OBVIOUS
  <2>1. /\ events \in Seq(AllowedFrame) /\ Len(events) \in Nat /\ DOMAIN events = 1..Len(events)
        /\ log \in Seq(AllowedFrame) /\ Len(log) \in Nat /\ Len(events) <= Len(log)
    BY DEF LimiterIInv
  <2>2. ASSUME NEW i \in 1..Len(events) PROVE events[i].at \in 0..now /\ events[i].size \in Sizes
    <3>1. (Len(log) - Len(events)) + i \in 1..Len(log)
      BY <2>1
    <3>2. events[i].at <= now
      BY <3>1 DEF LimiterIInv
    <3>3. events[i] \in AllowedFrame /\ now \in Nat
      BY <2>1, RateWindowAssumption DEF LimiterIInv, RateWindowAssumption
    <3> QED
      BY <3>2, <3>3 DEF AllowedFrame
  <2>3. bytes \in Nat
    <3>1. \A i \in 1..Len(events) : events[i].size \in Nat
      BY <2>2, RateWindowAssumption DEF RateWindowAssumption
    <3>2. IsFiniteSet(1..Len(events))
      BY FS_Interval
    <3>3. PICK f : /\ f \in [SUBSET (1..Len(events)) -> Nat]
                   /\ Volume(events, 1..Len(events)) = f[1..Len(events)]
      BY <3>1, <3>2, VolumeExists
    <3> QED
      BY <3>3 DEF LimiterIInv
  <2>4. bytes \in 0..MaxBytes
    BY <2>3, RateWindowAssumption DEF LimiterIInv, RateWindowAssumption
  <2> QED
    BY <2>1, <2>2, <2>4 DEF LimiterIInv, LimiterTypeOK
<1> QED
  BY <1>1, LimiterInvariance, PTL

(* _RateLimiter, which prunes only when it is asked, answers every frame as the
   promise does, which looks at all that was ever allowed. *)
THEOREM LimiterImplementsRateWindow == LimiterSpec => ImplementsRateWindow
<1>1. LimiterInit => Promised!WindowInit
  BY DEF LimiterInit, WindowInit, Promised!WindowInit
<1>2. LimiterIInv /\ [LimiterNext]_limiterVars => [Promised!WindowNext]_<<now, log, allowed>>
  <2> SUFFICES ASSUME LimiterIInv, [LimiterNext]_limiterVars
               PROVE  [Promised!WindowNext]_<<now, log, allowed>>
    OBVIOUS
  <2>1. CASE LimiterTick
    <3>1. WindowTick
      BY <2>1 DEF LimiterTick
    <3> QED
      BY <3>1 DEF WindowTick, Promised!WindowTick, Promised!WindowNext
  <2>2. ASSUME NEW size \in Sizes, Allow(size) PROVE Promised!WindowNext
    <3>1. Judge(size)
      BY <2>2, AllowStep
    <3>2. Promised!Judge(size)
      <4>1. Promised!Cardinality(Recent) = Cardinality(Recent)
        BY Zenon DEF Cardinality, Promised!Cardinality
      <4>2. Promised!Volume(log, Recent) = Volume(log, Recent)
        BY Zenon DEF Volume, Promised!Volume, MapThenSumSet, Promised!MapThenSumSet,
             MapThenFoldSet, Promised!MapThenFoldSet
      <4>3. Promised!Recent = Recent /\ Promised!Message(size) = Message(size)
        BY DEF Recent, Promised!Recent, Message, Promised!Message
      <4> QED
        BY <3>1, <4>1, <4>2, <4>3 DEF Judge, Promised!Judge
    <3> QED
      BY <3>2 DEF Promised!WindowNext
  <2>3. CASE UNCHANGED limiterVars
    BY <2>3 DEF limiterVars
  <2> QED
    BY <2>1, <2>2, <2>3 DEF LimiterNext
<1> QED
  BY <1>1, <1>2, LimiterInvariance, PTL DEF LimiterSpec, ImplementsRateWindow, Promised!WindowSpec

-----------------------------------------------------------------------------
(***************************************************************************)
(* The end of a node, for any nodes, links and orders of dialling, and     *)
(* with processes that stop responding anywhere: no task of a connection   *)
(* can use the storage after it is closed.                                 *)
(***************************************************************************)
(* A node listens from the end of start to the beginning of close. *)
ServerFollowsMain ==
  \A n \in Nodes :
    /\ server[n] = "listening" <=> main[n] \in {"connecting", "serving"}
    /\ main[n] = "starting" => server[n] = "none"

(* A node dials its own links only, and both ends of a link begin together. *)
DialsOwnLinks ==
  \A n \in Nodes : \A i \in DOMAIN todo[n] : Dialer[todo[n][i]] = n

LinksBeginWhole ==
  \A l \in Links : task[<<l, "out">>] = "none" => task[<<l, "in">>] = "none"

(* An accepted transport whose task has not run yet: it keeps its node waiting
   for the server, so that the snapshot of the connections comes later. *)
AcceptedHoldsServer ==
  \A e \in Ends : task[e] = "accepted" =>
    /\ e[2] = "in" /\ sock[e] = "open"
    /\ main[Owner(e)] \in {"connecting", "serving", "waitServer"}

(* After the snapshot nothing is registered, and no task of the snapshot outlives
   the node's main coroutine. *)
SnapshotIsComplete ==
  /\ \A e \in connections :
       main[Owner(e)] \in {"connecting", "serving", "waitServer", "closing"}
  /\ \A e \in cancelled :
       /\ main[Owner(e)] \in {"closingStreams", "cancelling", "exited"}
       /\ task[e] \notin {"none", "accepted"}
       /\ main[Owner(e)] = "exited" => task[e] = "done"

StorageFollowsMain ==
  \A n \in Nodes : storage[n] = "closed" <=> main[n] = "exited"

IInv ==
  /\ ShutdownTypeOK /\ ServerFollowsMain /\ DialsOwnLinks /\ LinksBeginWhole
  /\ AcceptedHoldsServer /\ SnapshotIsComplete /\ StorageFollowsMain

-----------------------------------------------------------------------------
LEMMA EndFacts ==
  ASSUME NEW e \in Ends
  PROVE  /\ Owner(e) \in Nodes /\ Peer(e) \in Ends
         /\ e[1] \in Links /\ e[2] \in {"out", "in"} /\ e = <<e[1], e[2]>>
BY ShutdownAssumption DEF ShutdownAssumption, Owner, Peer, Ends

LEMMA LinkEnds ==
  ASSUME NEW l \in Links
  PROVE  /\ <<l, "out">> \in Ends /\ <<l, "in">> \in Ends
         /\ Owner(<<l, "out">>) = Dialer[l] /\ Owner(<<l, "in">>) = Acceptor[l]
         /\ Dialer[l] \in Nodes /\ Acceptor[l] \in Nodes
BY ShutdownAssumption DEF ShutdownAssumption, Owner, Ends

LEMMA DialledFacts ==
  ASSUME ShutdownTypeOK, DialsOwnLinks, NEW n \in Nodes, todo[n] # <<>>
  PROVE  /\ Head(todo[n]) \in Links /\ Dialer[Head(todo[n])] = n
         /\ Tail(todo[n]) \in Seq(Links)
         /\ \A i \in DOMAIN Tail(todo[n]) : Dialer[Tail(todo[n])[i]] = n
<1>1. todo[n] \in Seq(Links) /\ Len(todo[n]) \in Nat \ {0}
  BY DEF ShutdownTypeOK
<1>2. 1 \in DOMAIN todo[n] /\ Head(todo[n]) = todo[n][1] /\ todo[n][1] \in Links
  BY <1>1
<1>3. Tail(todo[n]) \in Seq(Links) /\ Len(Tail(todo[n])) = Len(todo[n]) - 1
  BY <1>1
<1>4. ASSUME NEW i \in DOMAIN Tail(todo[n])
      PROVE  Dialer[Tail(todo[n])[i]] = n
  <2>1. i + 1 \in DOMAIN todo[n] /\ Tail(todo[n])[i] = todo[n][i + 1]
    BY <1>1, <1>3
  <2> QED
    BY <2>1 DEF DialsOwnLinks
<1> QED
  BY <1>2, <1>3, <1>4 DEF DialsOwnLinks

LEMMA InitIInv == ShutdownInit => IInv
<1> SUFFICES ASSUME ShutdownInit PROVE IInv
  OBVIOUS
<1>1. ShutdownTypeOK
  BY ShutdownAssumption DEF ShutdownAssumption, ShutdownInit, ShutdownTypeOK
<1>2. DialsOwnLinks
  BY ShutdownAssumption DEF ShutdownAssumption, ShutdownInit, DialsOwnLinks
<1>3. ServerFollowsMain /\ StorageFollowsMain
  BY DEF ShutdownInit, ServerFollowsMain, StorageFollowsMain
<1>4. LinksBeginWhole /\ AcceptedHoldsServer /\ SnapshotIsComplete
  BY EndFacts, LinkEnds DEF ShutdownInit, LinksBeginWhole, AcceptedHoldsServer, SnapshotIsComplete
<1> QED
  BY <1>1, <1>2, <1>3, <1>4 DEF IInv

-----------------------------------------------------------------------------
(* The steps of the main coroutine. *)

(* However the main coroutine comes to its end, the server goes with it and
   the connections stay. *)
LEMMA BeginCloseStep ==
  ASSUME IInv, NEW n \in Nodes, main[n] \in {"starting", "connecting", "serving"},
         BeginClose(n), UNCHANGED <<todo, storage, endVars, frozen, frames>>
  PROVE  IInv'
<1> USE DEF IInv, BeginClose, endVars
<1>1. ShutdownTypeOK'
  BY DEF ShutdownTypeOK
<1>2. main[n] = "starting" => \A e \in Ends : task[e] = "accepted" => Owner(e) # n
  BY DEF AcceptedHoldsServer
<1>3. ServerFollowsMain' /\ DialsOwnLinks' /\ LinksBeginWhole' /\ StorageFollowsMain'
  BY DEF ShutdownTypeOK, ServerFollowsMain, DialsOwnLinks, LinksBeginWhole, StorageFollowsMain
<1>4. AcceptedHoldsServer'
  BY <1>2, EndFacts DEF ShutdownTypeOK, ServerFollowsMain, AcceptedHoldsServer
<1>5. SnapshotIsComplete'
  BY EndFacts DEF ShutdownTypeOK, ServerFollowsMain, SnapshotIsComplete
<1> QED
  BY <1>1, <1>3, <1>4, <1>5

LEMMA StartStep ==
  ASSUME IInv, NEW n \in Nodes, Start(n) PROVE IInv'
<1>1. CASE BeginClose(n)
  BY <1>1, BeginCloseStep DEF Start
<1>2. CASE ~BeginClose(n)
  <2>1. /\ main[n] = "starting" /\ main' = [main EXCEPT ![n] = "connecting"]
        /\ server' = [server EXCEPT ![n] = "listening"]
        /\ UNCHANGED <<todo, storage, endVars, frozen, frames>>
    BY <1>2 DEF Start
  <2> USE <2>1 DEF IInv, endVars
  <2>2. ShutdownTypeOK' /\ ServerFollowsMain' /\ DialsOwnLinks' /\ LinksBeginWhole'
    BY DEF ShutdownTypeOK, ServerFollowsMain, DialsOwnLinks, LinksBeginWhole
  <2>3. AcceptedHoldsServer' /\ StorageFollowsMain'
    BY EndFacts DEF ShutdownTypeOK, AcceptedHoldsServer, StorageFollowsMain
  <2>4. SnapshotIsComplete'
    BY EndFacts DEF ShutdownTypeOK, SnapshotIsComplete
  <2> QED
    BY <2>2, <2>3, <2>4
<1> QED
  BY <1>1, <1>2

LEMMA DialStep ==
  ASSUME IInv, NEW n \in Nodes, Dial(n) PROVE IInv'
<1> DEFINE l == Head(todo[n])
           out == <<l, "out">>
           in  == <<l, "in">>
<1>1. CASE server[Acceptor[l]] # "listening"
  BY <1>1, BeginCloseStep DEF Dial, endVars
<1>2. CASE server[Acceptor[l]] = "listening"
  <2>1. l \in Links /\ Dialer[l] = n
    BY DialledFacts DEF Dial, IInv
  <2>2. /\ out \in Ends /\ in \in Ends /\ out # in
        /\ Owner(out) = n /\ Owner(in) = Acceptor[l] /\ Acceptor[l] \in Nodes
        /\ out[2] = "out" /\ in[2] = "in"
    BY <2>1, LinkEnds
  <2>3. /\ main[n] = "connecting" /\ task[out] = "none"
        /\ sock' = [sock EXCEPT ![out] = "open", ![in] = "open"]
        /\ task' = [task EXCEPT ![out] = "running", ![in] = "accepted"]
        /\ connections' = connections \cup {out}
        /\ UNCHANGED <<main, server, todo, storage, unsent, cancelled, frozen, frames>>
    BY <1>2 DEF Dial
  <2>4. task[in] = "none" /\ main[Acceptor[l]] \in {"connecting", "serving"}
    BY <1>2, <2>1, <2>2, <2>3 DEF IInv, LinksBeginWhole, ServerFollowsMain
  <2> HIDE DEF l, out, in
  <2> USE DEF IInv
  <2>5. ShutdownTypeOK'
    <3>1. connections' \subseteq {e \in Ends : task'[e] \in {"running", "handling"}}
      BY <2>2, <2>3, <2>4 DEF ShutdownTypeOK
    <3> QED
      BY <2>2, <2>3, <3>1 DEF ShutdownTypeOK
  <2>6. ServerFollowsMain' /\ DialsOwnLinks' /\ StorageFollowsMain'
    BY <2>3 DEF ServerFollowsMain, DialsOwnLinks, StorageFollowsMain
  <2>7. LinksBeginWhole'
    BY <2>2, <2>3, LinkEnds DEF ShutdownTypeOK, LinksBeginWhole, out, in
  <2>8. AcceptedHoldsServer'
    BY <2>2, <2>3, <2>4 DEF ShutdownTypeOK, AcceptedHoldsServer
  <2>9. SnapshotIsComplete'
    BY <2>2, <2>3, <2>4 DEF ShutdownTypeOK, SnapshotIsComplete
  <2> QED
    BY <2>5, <2>6, <2>7, <2>8, <2>9
<1> QED
  BY <1>1, <1>2

LEMMA ConnectReturnsStep ==
  ASSUME IInv, NEW n \in Nodes, ConnectReturns(n) PROVE IInv'
<1> USE DEF IInv, ConnectReturns, Connecting, endVars
<1>1. ShutdownTypeOK' /\ DialsOwnLinks'
  BY DialledFacts DEF ShutdownTypeOK, DialsOwnLinks
<1> QED
  BY <1>1 DEF ServerFollowsMain, LinksBeginWhole, AcceptedHoldsServer,
              SnapshotIsComplete, StorageFollowsMain

LEMMA ConnectFailsStep ==
  ASSUME IInv, NEW n \in Nodes, ConnectFails(n) PROVE IInv'
BY BeginCloseStep DEF ConnectFails, Connecting

LEMMA StopStep ==
  ASSUME IInv, NEW n \in Nodes, Stop(n) PROVE IInv'
BY BeginCloseStep DEF Stop

LEMMA ServeStep ==
  ASSUME IInv, NEW n \in Nodes, Serve(n) PROVE IInv'
<1> USE DEF IInv, Serve, endVars
<1>1. ShutdownTypeOK' /\ ServerFollowsMain' /\ StorageFollowsMain'
  BY DEF ShutdownTypeOK, ServerFollowsMain, StorageFollowsMain
<1>2. AcceptedHoldsServer' /\ SnapshotIsComplete'
  BY EndFacts DEF ShutdownTypeOK, AcceptedHoldsServer, SnapshotIsComplete
<1> QED
  BY <1>1, <1>2 DEF DialsOwnLinks, LinksBeginWhole

(* Server.wait_closed has returned: no accepted transport is left, so no task
   of this node is still to be registered. *)
LEMMA WaitServerStep ==
  ASSUME IInv, NEW n \in Nodes, WaitServer(n) PROVE IInv'
<1> USE DEF IInv, WaitServer, endVars
<1>1. ShutdownTypeOK' /\ ServerFollowsMain' /\ StorageFollowsMain'
  BY DEF ShutdownTypeOK, ServerFollowsMain, StorageFollowsMain
<1>2. ASSUME NEW e \in Ends, task[e] = "accepted"
      PROVE  Owner(e) # n
  <2>1. e[1] \in Links /\ e = <<e[1], "in">> /\ sock[e] = "open"
    BY <1>2, EndFacts DEF AcceptedHoldsServer
  <2>2. Owner(e) = Acceptor[e[1]]
    BY <2>1, LinkEnds
  <2> QED
    BY <2>1, <2>2 DEF ServerClosed
<1>3. AcceptedHoldsServer'
  BY <1>2, EndFacts DEF ShutdownTypeOK, AcceptedHoldsServer
<1>4. SnapshotIsComplete'
  BY EndFacts DEF ShutdownTypeOK, SnapshotIsComplete
<1> QED
  BY <1>1, <1>3, <1>4 DEF DialsOwnLinks, LinksBeginWhole

LEMMA CloseConnectionsStep ==
  ASSUME IInv, NEW n \in Nodes, CloseConnections(n) PROVE IInv'
<1> USE DEF IInv, CloseConnections, CloseSockets, Mine
<1>1. ShutdownTypeOK' /\ ServerFollowsMain' /\ StorageFollowsMain'
  BY DEF ShutdownTypeOK, ServerFollowsMain, StorageFollowsMain
<1>2. AcceptedHoldsServer'
  BY EndFacts DEF ShutdownTypeOK, AcceptedHoldsServer
<1>3. SnapshotIsComplete'
  <2>1. \A e \in connections' : e \in connections /\ Owner(e) # n
    BY DEF ShutdownTypeOK
  <2>2. \A e \in cancelled' : (e \in cancelled /\ Owner(e) # n) \/ e \in Mine(n)
    BY DEF ShutdownTypeOK, SnapshotIsComplete
  <2>4. \A m \in Nodes : main'[m] = IF m = n THEN "closingStreams" ELSE main[m]
    BY DEF ShutdownTypeOK
  <2>5. \A e \in Mine(n) : Owner(e) = n /\ task[e] \in {"running", "handling"}
    BY DEF ShutdownTypeOK
  <2>6. \A e \in connections' : main'[Owner(e)] = main[Owner(e)]
    BY <2>1, <2>4, EndFacts DEF ShutdownTypeOK
  <2>7. \A e \in cancelled' : \/ main'[Owner(e)] = main[Owner(e)] /\ e \in cancelled
                              \/ main'[Owner(e)] = "closingStreams" /\ e \in Mine(n)
    BY <2>2, <2>4, <2>5, EndFacts DEF ShutdownTypeOK
  <2>8. task' = task
    OBVIOUS
  <2> HIDE DEF CloseConnections, CloseSockets, Mine
  <2> QED
    BY <2>1, <2>5, <2>6, <2>7, <2>8 DEF SnapshotIsComplete
<1> QED
  BY <1>1, <1>2, <1>3 DEF DialsOwnLinks, LinksBeginWhole

LEMMA StreamsClosedStep ==
  ASSUME IInv, NEW n \in Nodes, StreamsClosed(n) PROVE IInv'
<1> USE DEF IInv, StreamsClosed, endVars
<1>1. ShutdownTypeOK' /\ ServerFollowsMain' /\ StorageFollowsMain'
  BY DEF ShutdownTypeOK, ServerFollowsMain, StorageFollowsMain
<1>2. AcceptedHoldsServer' /\ SnapshotIsComplete'
  BY EndFacts DEF ShutdownTypeOK, AcceptedHoldsServer, SnapshotIsComplete
<1> QED
  BY <1>1, <1>2 DEF DialsOwnLinks, LinksBeginWhole

LEMMA ExitStep ==
  ASSUME IInv, NEW n \in Nodes, Exit(n) PROVE IInv'
<1> USE DEF IInv, Exit, Snapshot
<1>1. ShutdownTypeOK' /\ ServerFollowsMain' /\ StorageFollowsMain'
  BY DEF ShutdownTypeOK, ServerFollowsMain, StorageFollowsMain
<1>2. AcceptedHoldsServer'
  BY EndFacts DEF ShutdownTypeOK, AcceptedHoldsServer
<1>3. SnapshotIsComplete'
  BY EndFacts DEF ShutdownTypeOK, SnapshotIsComplete
<1> QED
  BY <1>1, <1>2, <1>3 DEF DialsOwnLinks, LinksBeginWhole

LEMMA FreezeStep ==
  ASSUME IInv, NEW n \in Nodes, Freeze(n) PROVE IInv'
BY DEF IInv, Freeze, endVars, ShutdownTypeOK, ServerFollowsMain, DialsOwnLinks, LinksBeginWhole,
       AcceptedHoldsServer, SnapshotIsComplete, StorageFollowsMain

-----------------------------------------------------------------------------
(* The steps of a connection's task and transport: the main coroutines stay
   where they are. *)
LEMMA MainStays ==
  ASSUME IInv, UNCHANGED <<main, todo, server, storage>>
  PROVE  ServerFollowsMain' /\ DialsOwnLinks' /\ StorageFollowsMain'
BY DEF IInv, ServerFollowsMain, DialsOwnLinks, StorageFollowsMain

LEMMA AcceptStep ==
  ASSUME IInv, NEW e \in Ends, AcceptPeer(e) PROVE IInv'
<1> USE DEF IInv, AcceptPeer
<1>1. ShutdownTypeOK' /\ LinksBeginWhole'
  BY LinkEnds DEF ShutdownTypeOK, LinksBeginWhole
<1>2. AcceptedHoldsServer' /\ SnapshotIsComplete'
  BY EndFacts DEF ShutdownTypeOK, AcceptedHoldsServer, SnapshotIsComplete
<1> QED
  BY <1>1, <1>2, MainStays

LEMMA TakeFrameStep ==
  ASSUME IInv, NEW e \in Ends, TakeFrame(e) PROVE IInv'
<1> USE DEF IInv, TakeFrame
<1>1. ShutdownTypeOK' /\ LinksBeginWhole'
  BY LinkEnds, ShutdownAssumption DEF ShutdownAssumption, ShutdownTypeOK, LinksBeginWhole
<1>2. AcceptedHoldsServer' /\ SnapshotIsComplete'
  BY EndFacts DEF ShutdownTypeOK, AcceptedHoldsServer, SnapshotIsComplete
<1> QED
  BY <1>1, <1>2, MainStays

LEMMA HandleFrameStep ==
  ASSUME IInv, NEW e \in Ends, HandleFrame(e) PROVE IInv'
<1> USE DEF IInv, HandleFrame
<1>1. ShutdownTypeOK' /\ LinksBeginWhole'
  BY LinkEnds DEF ShutdownTypeOK, LinksBeginWhole
<1>2. AcceptedHoldsServer' /\ SnapshotIsComplete'
  BY EndFacts DEF ShutdownTypeOK, AcceptedHoldsServer, SnapshotIsComplete
<1> QED
  BY <1>1, <1>2, MainStays

LEMMA SendFailsStep ==
  ASSUME IInv, NEW e \in Ends, SendFails(e) PROVE IInv'
<1> USE DEF IInv, CloseSockets
<1>1. /\ e \in connections /\ connections' = connections \ {e} /\ CloseSockets({e})
      /\ UNCHANGED <<main, todo, server, storage, unsent, task, cancelled, frozen, frames>>
  BY DEF SendFails
<1>2. ShutdownTypeOK' /\ LinksBeginWhole'
  BY <1>1, LinkEnds DEF ShutdownTypeOK, LinksBeginWhole
<1>3. task[e] # "accepted" /\ \A x \in Ends : x # e => sock'[x] = sock[x]
  BY <1>1 DEF ShutdownTypeOK
<1>4. AcceptedHoldsServer'
  BY <1>1, <1>3, EndFacts DEF AcceptedHoldsServer
<1>5. SnapshotIsComplete'
  BY <1>1, EndFacts DEF SnapshotIsComplete
<1> QED
  BY <1>1, <1>2, <1>4, <1>5, MainStays

LEMMA NoticeStep ==
  ASSUME IInv, NEW e \in Ends, Notice(e) PROVE IInv'
<1> USE DEF IInv, Notice, CloseSockets
<1>1. ShutdownTypeOK' /\ LinksBeginWhole'
  BY LinkEnds DEF ShutdownTypeOK, LinksBeginWhole
<1>2. AcceptedHoldsServer' /\ SnapshotIsComplete'
  BY EndFacts DEF ShutdownTypeOK, AcceptedHoldsServer, SnapshotIsComplete
<1> QED
  BY <1>1, <1>2, MainStays

LEMMA EndTaskStep ==
  ASSUME IInv, NEW e \in Ends, EndTask(e) PROVE IInv'
<1> USE DEF IInv, EndTask
<1>1. ShutdownTypeOK' /\ LinksBeginWhole'
  BY LinkEnds DEF ShutdownTypeOK, LinksBeginWhole
<1>2. AcceptedHoldsServer' /\ SnapshotIsComplete'
  BY EndFacts DEF ShutdownTypeOK, AcceptedHoldsServer, SnapshotIsComplete
<1> QED
  BY <1>1, <1>2, MainStays

LEMMA CancelTaskStep ==
  ASSUME IInv, NEW e \in Ends, CancelTask(e) PROVE IInv'
<1> USE DEF IInv, CancelTask
<1>0. e \notin connections
  BY DEF SnapshotIsComplete
<1>1. ShutdownTypeOK' /\ LinksBeginWhole'
  BY <1>0, LinkEnds DEF ShutdownTypeOK, LinksBeginWhole
<1>2. AcceptedHoldsServer' /\ SnapshotIsComplete'
  BY EndFacts DEF ShutdownTypeOK, AcceptedHoldsServer, SnapshotIsComplete
<1> QED
  BY <1>1, <1>2, MainStays

LEMMA TransportStep ==
  ASSUME IInv, NEW e \in Ends, Stuff(e) \/ ConnectionLost(e) \/ Reset(e) PROVE IInv'
<1> USE DEF IInv, Stuff, ConnectionLost, Reset
<1>1. sock' \in [Ends -> {"none", "open", "closing", "closed"}] /\ unsent' \subseteq Ends
  BY DEF ShutdownTypeOK
<1>2. ShutdownTypeOK'
  BY <1>1 DEF ShutdownTypeOK
<1>3. LinksBeginWhole'
  BY DEF ShutdownTypeOK, LinksBeginWhole
<1>4. SnapshotIsComplete'
  BY DEF SnapshotIsComplete
<1>5. AcceptedHoldsServer'
  BY DEF ShutdownTypeOK, AcceptedHoldsServer
<1> QED
  BY <1>2, <1>3, <1>4, <1>5, MainStays

LEMMA NextIInv == IInv /\ [ShutdownNext]_shutdownVars => IInv'
<1> SUFFICES ASSUME IInv, [ShutdownNext]_shutdownVars PROVE IInv'
  OBVIOUS
<1>1. CASE \E n \in Nodes : MainStep(n) \/ Stop(n) \/ Freeze(n)
  BY <1>1, StartStep, DialStep, ConnectReturnsStep, ConnectFailsStep, ServeStep,
     WaitServerStep, CloseConnectionsStep, StreamsClosedStep, ExitStep, StopStep,
     FreezeStep DEF MainStep
<1>2. CASE \E e \in Ends : TaskStep(e) \/ TakeFrame(e) \/ SendFails(e)
  BY <1>2, AcceptStep, HandleFrameStep, NoticeStep, EndTaskStep, CancelTaskStep,
     TakeFrameStep, SendFailsStep DEF TaskStep
<1>3. CASE \E e \in Ends : Stuff(e) \/ ConnectionLost(e) \/ Reset(e)
  BY <1>3, TransportStep
<1>4. CASE UNCHANGED shutdownVars
  BY <1>4 DEF shutdownVars, IInv, ShutdownTypeOK, ServerFollowsMain, DialsOwnLinks, LinksBeginWhole,
              AcceptedHoldsServer, SnapshotIsComplete, StorageFollowsMain
<1> QED
  BY <1>1, <1>2, <1>3, <1>4 DEF ShutdownNext, Proceed

(* The inductive invariant holds in every reachable state of every node's
   start, service and close. *)
THEOREM IInvTheorem == ShutdownSpec => []IInv
<1>1. ShutdownInit => IInv
  BY InitIInv
<1>2. IInv /\ [ShutdownNext]_shutdownVars => IInv'
  BY NextIInv
<1> QED
  BY <1>1, <1>2, PTL DEF ShutdownSpec

(* Every variable keeps its type; what is registered has a task that runs. *)
THEOREM TypeOKTheorem == ShutdownSpec => []ShutdownTypeOK
<1>1. IInv => ShutdownTypeOK
  BY DEF IInv
<1> QED
  BY <1>1, IInvTheorem, PTL

(* No task that close waits for and that may still submit a block sees its storage
   closed, however Ctrl+C, frames, failed relays and closing peers interleave
   (run_network_node: `await service.close()` before `node.close()`). *)
THEOREM StorageOutlivesPeersTheorem == ShutdownSpec => []StorageOutlivesPeers
<1>1. IInv => StorageOutlivesPeers
  <2> SUFFICES ASSUME IInv, NEW e \in Ends, MayUseStorage(e), ~Abandoned(e)
               PROVE  storage[Owner(e)] = "open"
    BY DEF StorageOutlivesPeers
  <2>1. task[e] = "accepted" \/ e \in connections \/ (e \in cancelled /\ task[e] # "done")
    BY DEF MayUseStorage, Abandoned
  <2>2. main[Owner(e)] # "exited"
    BY <2>1 DEF IInv, AcceptedHoldsServer, SnapshotIsComplete
  <2>3. storage[Owner(e)] \in {"open", "closed"} /\ Owner(e) \in Nodes
    BY EndFacts DEF IInv, ShutdownTypeOK
  <2> QED
    BY <2>2, <2>3 DEF IInv, StorageFollowsMain
<1> QED
  BY <1>1, IInvTheorem, PTL
=============================================================================
