----------------------------- MODULE WalletFile ----------------------------
(***************************************************************************)
(* Encrypted wallet files (wallet.py): several processes save wallets      *)
(* under one file name and load it, while the disk may fill up, processes  *)
(* may be killed and the machine may lose power.                           *)
(*                                                                         *)
(* save_encrypted writes a temporary file of its own, syncs it and then    *)
(* gives it the destination's name, with link for a new wallet and with    *)
(* replace to overwrite.  Every save has one inode, so an inode is named   *)
(* by the save that created it.  After a power loss the directory may be   *)
(* as it was at any earlier time, because only the file is synced, and     *)
(* data that was not synced may be missing.                                *)
(*                                                                         *)
(* A wallet, its encryption under a password and its chain_id are data.    *)
(***************************************************************************)
EXTENDS Integers, FiniteSets

CONSTANTS
  Saves,            \* calls of save_encrypted, each by a process of its own
  Loads,            \* calls of load_encrypted
  NoFile,
  Overwrites,       \* the saves called with overwrite=True
  PasswordOf,       \* save or load -> the password it is given
  ChainOf,          \* save or load -> the chain_id of its network
  MaxPowerLosses    \* bound

ASSUME WalletFileAssumption ==
  /\ NoFile \notin Saves /\ Overwrites \subseteq Saves
  /\ DOMAIN PasswordOf = Saves \cup Loads /\ DOMAIN ChainOf = Saves \cup Loads
  /\ MaxPowerLosses \in Nat

VARIABLES
  dest,       \* the inode at the destination, or NoFile
  past,       \* what the destination has been, on disk or in memory
  temps,      \* the saves whose temporary name exists
  data,       \* save -> what its inode holds
  synced,     \* the saves whose inode is on disk
  saving,     \* save -> how far it has come
  loading,    \* load -> how far it has come
  opened,     \* load -> the inode it has opened, or NoFile
  result,     \* load -> the save whose wallet it returned, or NoFile
  powerLosses

fileVars == <<dest, past, temps, data, synced>>
loadVars == <<loading, opened, result>>
walletVars == <<fileVars, saving, loadVars, powerLosses>>

WalletInit ==
  /\ dest = NoFile /\ past = {NoFile}
  /\ temps = {} /\ synced = {}
  /\ data = [s \in Saves |-> "empty"]
  /\ saving = [s \in Saves |-> "called"]
  /\ loading = [q \in Loads |-> "called"]
  /\ opened = [q \in Loads |-> NoFile]
  /\ result = [q \in Loads |-> NoFile]
  /\ powerLosses = 0

Goto(s, step) == saving' = [saving EXCEPT ![s] = step]

-----------------------------------------------------------------------------
(* save_encrypted *)

(* The first look at the destination. *)
CheckDestination(s) ==
  /\ saving[s] = "called"
  /\ Goto(s, IF dest # NoFile /\ s \notin Overwrites THEN "refused" ELSE "checked")
  /\ UNCHANGED <<fileVars, loadVars, powerLosses>>

(* mkstemp, after the slow key derivation; it may fail. *)
MakeTemporary(s) ==
  /\ saving[s] = "checked"
  /\ \/ temps' = temps \cup {s} /\ Goto(s, "writing")
     \/ Goto(s, "failed") /\ UNCHANGED temps
  /\ UNCHANGED <<dest, past, data, synced, loadVars, powerLosses>>

(* A part of the document is written, and the rest. *)
WriteSome(s) ==
  /\ saving[s] = "writing" /\ data[s] = "empty"
  /\ data' = [data EXCEPT ![s] = "part"]
  /\ UNCHANGED <<dest, past, temps, synced, saving, loadVars, powerLosses>>

WriteRest(s) ==
  /\ saving[s] = "writing" /\ data[s] = "part"
  /\ data' = [data EXCEPT ![s] = "whole"]
  /\ Goto(s, "written")
  /\ UNCHANGED <<dest, past, temps, synced, loadVars, powerLosses>>

(* flush and fsync, the close, and chmod.  (A save that leaves the data to the
   operating system.) *)
SyncNot(s) ==
  /\ saving[s] = "written"
  /\ Goto(s, "ready")
  /\ UNCHANGED <<fileVars, loadVars, powerLosses>>

Sync(s) ==
  /\ saving[s] = "written"
  /\ synced' = synced \cup {s}
  /\ Goto(s, "ready")
  /\ UNCHANGED <<dest, past, temps, data, loadVars, powerLosses>>

(* Any of these fails: the finally block removes the temporary name, and the
   error goes to the caller. *)
FailToWrite(s) ==
  /\ saving[s] \in {"writing", "written", "ready"}
  /\ Goto(s, "cleaningFailed")
  /\ UNCHANGED <<fileVars, loadVars, powerLosses>>

(* os.replace moves the temporary name, os.link adds a second one unless the
   destination exists.  (A FileExistsError that passes for success.) *)
Named(s) == dest' = s /\ past' = past \cup {s}

PublishQuietly(s) ==
  /\ saving[s] = "ready"
  /\ IF s \in Overwrites \/ dest = NoFile THEN Named(s) ELSE UNCHANGED <<dest, past>>
  /\ temps' = temps \ (Overwrites \cap {s})
  /\ Goto(s, "cleaning")
  /\ UNCHANGED <<data, synced, loadVars, powerLosses>>

Publish(s) ==
  /\ saving[s] = "ready"
  /\ \/ /\ s \in Overwrites
        /\ Named(s) /\ temps' = temps \ {s} /\ Goto(s, "cleaning")
     \/ /\ s \notin Overwrites /\ dest = NoFile
        /\ Named(s) /\ UNCHANGED temps /\ Goto(s, "cleaning")
     \/ /\ s \notin Overwrites /\ dest # NoFile
        /\ Goto(s, "cleaningRefused")
        /\ UNCHANGED <<dest, past, temps>>
  /\ UNCHANGED <<data, synced, loadVars, powerLosses>>

(* The finally block.  unlink may fail too, and its error then hides that the
   wallet is in place. *)
AfterCleaning(step) ==
  CASE step = "cleaning"        -> "saved"
    [] step = "cleaningRefused" -> "refused"
    [] step = "cleaningFailed"  -> "failed"

CleanUp(s) ==
  /\ saving[s] \in {"cleaning", "cleaningRefused", "cleaningFailed"}
  /\ \/ temps' = temps \ {s} /\ Goto(s, AfterCleaning(saving[s]))
     \/ s \in temps /\ Goto(s, "littered") /\ UNCHANGED temps
  /\ UNCHANGED <<dest, past, data, synced, loadVars, powerLosses>>

-----------------------------------------------------------------------------
(* load_encrypted *)

(* open; a missing file is an error. *)
Open(q) ==
  /\ loading[q] = "called"
  /\ loading' = [loading EXCEPT ![q] = IF dest = NoFile THEN "failed" ELSE "opened"]
  /\ opened' = [opened EXCEPT ![q] = dest]
  /\ UNCHANGED <<fileVars, saving, result, powerLosses>>

(* The document is a whole one of this network, and the password decrypts it. *)
Fits(q, s) == ChainOf[q] = ChainOf[s] /\ PasswordOf[q] = PasswordOf[s]
Decrypts(q, s) == data[s] = "whole" /\ Fits(q, s)

(* The opened document is read, checked and decrypted. *)
Load(q) ==
  /\ loading[q] = "opened"
  /\ IF Decrypts(q, opened[q])
       THEN /\ loading' = [loading EXCEPT ![q] = "loaded"]
            /\ result' = [result EXCEPT ![q] = opened[q]]
       ELSE /\ loading' = [loading EXCEPT ![q] = "failed"]
            /\ UNCHANGED result
  /\ UNCHANGED <<fileVars, saving, opened, powerLosses>>

-----------------------------------------------------------------------------
(* Crashes *)

Ended(step) == step \in {"called", "saved", "refused", "failed", "littered", "killed"}

(* A saving process is killed: its finally does not run. *)
Kill(s) ==
  /\ ~Ended(saving[s])
  /\ Goto(s, "killed")
  /\ UNCHANGED <<fileVars, loadVars, powerLosses>>

(* All processes are killed; the destination is as on disk, where any of its
   past values may be, temporary names may be gone or back, and an inode that
   was not synced may have lost data. *)
PowerLoss ==
  /\ powerLosses < MaxPowerLosses /\ powerLosses' = powerLosses + 1
  /\ dest' \in past
  /\ \E lost \in SUBSET (Saves \ synced) :
       data' = [s \in Saves |-> IF s \in lost THEN "empty" ELSE data[s]]
  /\ past' = {dest'}
  /\ temps' \in SUBSET {s \in Saves : saving[s] \notin {"called", "checked"}}
  /\ saving' = [s \in Saves |-> IF Ended(saving[s]) THEN saving[s] ELSE "killed"]
  /\ loading' = [q \in Loads |-> IF loading[q] = "opened" THEN "failed" ELSE loading[q]]
  /\ UNCHANGED <<synced, opened, result>>

SaveStep(s) ==
  \/ CheckDestination(s) \/ MakeTemporary(s) \/ WriteSome(s) \/ WriteRest(s)
  \/ Sync(s) \/ Publish(s) \/ CleanUp(s)

LoadStep(q) == Open(q) \/ Load(q)

WalletNext ==
  \/ \E s \in Saves : SaveStep(s) \/ FailToWrite(s) \/ Kill(s)
  \/ \E q \in Loads : LoadStep(q)
  \/ PowerLoss

WalletSpec == WalletInit /\ [][WalletNext]_walletVars

-----------------------------------------------------------------------------
WalletTypeOK ==
  /\ dest \in Saves \cup {NoFile} /\ past \subseteq Saves \cup {NoFile}
  /\ temps \subseteq Saves /\ synced \subseteq {s \in Saves : data[s] = "whole"}
  /\ data \in [Saves -> {"empty", "part", "whole"}]
  /\ saving \in [Saves -> {"called", "checked", "writing", "written", "ready", "cleaning",
                           "cleaningRefused", "cleaningFailed", "saved", "refused",
                           "failed", "littered", "killed"}]
  /\ loading \in [Loads -> {"called", "opened", "loaded", "failed"}]
  /\ opened \in [Loads -> Saves \cup {NoFile}]
  /\ result \in [Loads -> Saves \cup {NoFile}]
  /\ powerLosses \in 0..MaxPowerLosses

(* Whatever fails or crashes, the destination is absent or a whole wallet
   document, so a wallet that was there is never lost to a half-written one
   (save_encrypted's temporary file and fsync). *)
DestinationWhole == dest # NoFile => data[dest] = "whole"

(* Creating a wallet never replaces one: an existing destination gives way only
   to a save with overwrite, also when it appears while a key is being derived
   (docs/threat-model.md: "Creating a new wallet refuses an existing destination
   atomically").  A power loss may bring back an older state. *)
CreateNeverReplaces ==
  [][dest # NoFile /\ dest' # dest =>
       dest' \in Overwrites \/ powerLosses' # powerLosses]_walletVars

(* Of the saves that report success none is lost: without a power loss the
   wallet of each is at the destination or was replaced by a later overwrite, and
   so no two saves without overwrite both succeed. *)
SavedIsThere ==
  powerLosses = 0 => \A s \in Saves : saving[s] = "saved" =>
    dest = s \/ dest \in Overwrites

(* A save that ends leaves nothing behind, whether it succeeded or not:
   temporary names are left over by crashes and failed unlinks only. *)
TemporariesRemoved ==
  powerLosses = 0 =>
    \A s \in temps : saving[s] \notin {"called", "checked", "saved", "refused", "failed"}

(* A load sees the one file it has opened: it succeeds exactly if that wallet's
   password and network are given, whichever saves replace the file between its
   open and its read (load_encrypted reads the document through one handle). *)
LoadSeesOneFile ==
  [][\A q \in Loads :
       loading[q] = "opened" /\ loading'[q] # "opened" /\ powerLosses' = powerLosses
         => /\ loading'[q] = "loaded" <=> Fits(q, opened[q])
            /\ result'[q] = IF Fits(q, opened[q]) THEN opened[q] ELSE NoFile]_walletVars
=============================================================================
