---------------------------- MODULE BackupProofs ----------------------------
(***************************************************************************)
(* Proofs about Backup, for any services among the four, any entries, and  *)
(* any number of uploads and restarts.  An upload loses nothing because    *)
(* what a rollback would restore holds what the user had all the while the *)
(* services that it has started may still write.                           *)
(***************************************************************************)
EXTENDS Backup, TLAPS

\* An upload is under way, and one that may still write or restore.
Uploading == upload.pc \notin {"idle", "done"}
Live == Uploading \/ \E s \in Services : jobs[s].pc # "idle"

Before == {"lock", "step", "unlock", "wallet", "seed", "stored", "refused", "services"}
Undoing == {"undo", "accounts", "forget", "failed"}

\* The wallet: a stored mnemonic belongs to the accounts, and an installed wallet has all
\* it needs.
WalletIsWhole ==
  /\ own # None => /\ checker /\ step = "mnemonic" /\ seed = own
                   /\ secrets.mnemonic \in {own, None}
  /\ own = None => \A s \in Services : kept[s] = {}
  /\ step = "new" => seed = None \/ torn \/ upload.pc \in {"stored", "refused"}
  /\ seed # None => seed \in accounts.owners /\ accounts.key = seed
  /\ file.mnemonic \in file.owners

\* How far an upload has come.
UploadFits ==
  /\ upload.pc \in Before \cup {"done"} => \A s \in Services : jobs[s].pc = "idle"
  /\ upload.pc \in Before => store = restore.store
  /\ upload.pc \in {"step", "unlock", "wallet", "seed", "stored", "refused", "services", "all"} =>
       checker
  /\ upload.pc \in {"step", "unlock"} => own = None
  /\ upload.pc = "seed" =>
       seed = None /\ accounts.key = file.mnemonic /\ file.mnemonic \in accounts.owners
  /\ upload.pc \in {"stored", "refused"} =>
       own = None /\ restore.seed = None /\ seed = file.mnemonic
  /\ upload.pc \in {"seed", "stored", "refused", "services", "all"} => file.owners \subseteq accounts.owners
  /\ upload.pc \in {"services", "all"} => seed # None /\ secrets.mnemonic = seed
  /\ upload.pc \in Undoing => checker = restore.checker /\ seed = restore.seed
  /\ upload.pc \in Undoing \ {"undo"} => accounts = restore.accounts
  /\ upload.pc = "forget" => upload.fresh
  /\ upload.pc \in {"forget", "failed"} /\ upload.fresh => step = "new"
  /\ upload.pc = "failed" /\ upload.fresh => secrets = NoSecrets

\* What a rollback would restore is what the user had.
Restorable ==
  /\ Uploading =>
       /\ restore.seed \in {None, seed}
       /\ restore.seed # None =>
            restore.seed \in restore.accounts.owners /\ restore.accounts.key = restore.seed
       /\ upload.fresh => own = None
       /\ upload.fresh => restore.seed = None \/ torn
       /\ own # None => restore.checker /\ restore.seed = own
  /\ Live => \A s \in Services : kept[s] # {} =>
               kept[s] \subseteq restore.store[s].entries /\ restore.store[s].key = own

\* A service merges what it had when the upload began, and loads again what it has kept.
JobsFit ==
  \A s \in Services :
    /\ jobs[s].pc # "idle" =>
         /\ file.entries[s] # {}
         /\ restore.store[s] = NoData => store[s].entries \subseteq file.entries[s]
         /\ store[s] = NoData => restore.store[s] = NoData
    /\ jobs[s].pc = "load" => jobs[s].got = restore.store[s]
    /\ jobs[s].pc = "reload" =>
         /\ kept[s] # {} => kept[s] \subseteq jobs[s].got.entries /\ jobs[s].got.key = own
         /\ restore.store[s] = NoData => jobs[s].got.entries \subseteq file.entries[s]
         /\ s = "identity"

\* The maps: an open wallet shows what the user has, and a map of a service that stores
\* nothing holds at most what a failed upload has left in it.
MapsFit ==
  \A s \in Services \ {"credentials"} :
    /\ own # None /\ secrets.mnemonic # None => kept[s] \subseteq map[s]
    /\ (store[s] = NoData \/ (Live /\ restore.store[s] = NoData)) /\ file.entries[s] # {} =>
         map[s] \subseteq file.entries[s]

\* The services that are done have merged.
MergedSoFar ==
  upload.pc = "all" =>
    \A s \in Services : file.entries[s] # {} =>
      /\ jobs[s].pc \in {"idle", "write", "reload"} =>
           /\ store[s].entries = restore.store[s].entries \cup file.entries[s]
           /\ store[s].key = seed
      /\ jobs[s].pc = "idle" /\ s # "credentials" => map[s] = store[s].entries
      /\ jobs[s].pc = "write" /\ s \notin {"identity", "credentials"} => map[s] = store[s].entries
      /\ jobs[s].pc = "reload" => jobs[s].got = store[s]

BackupInv ==
  /\ BackupTypeOK
  /\ WalletIsWhole
  /\ UploadFits
  /\ Restorable
  /\ JobsFit
  /\ MapsFit
  /\ MergedSoFar
  /\ NothingLost
  /\ UploadIsWhole
  /\ FailedInstallIsUndone

-----------------------------------------------------------------------------
(* Operators. *)

LEMMA NothingTyped ==
  /\ NoData \in Data /\ NoAccounts \in Accounts
  /\ NoSecrets \in [password: BOOLEAN, mnemonic: Mnemonics \cup {None}]
  /\ NoJob \in [pc: {"idle", "load", "write", "full", "reload"}, got: Data]
  /\ NoJob.pc = "idle" /\ NoSecrets.mnemonic = None /\ NoSecrets.password = FALSE
  /\ NoData.entries = {} /\ NoData.key = None /\ NoAccounts.owners = {} /\ NoAccounts.key = None
BY DEF NoData, NoAccounts, NoSecrets, NoJob, Data, Accounts

LEMMA OnboardKeeps ==
  ASSUME BackupInv, Onboard
  PROVE  BackupInv'
<1>1. /\ upload.pc = "idle" /\ (\A s \in Services : jobs[s].pc = "idle") /\ step = "new" /\ ~checker
      /\ checker' = TRUE /\ seed' = Mine /\ step' = "mnemonic"
      /\ accounts' = [owners |-> {Mine}, key |-> Mine]
      /\ secrets' = [password |-> TRUE, mnemonic |-> Mine]
      /\ own' = Mine
      /\ UNCHANGED <<store, map, jobs, file, upload, restore, kept, uploads, restarts, torn>>
  BY DEF Onboard, Quiet, walletVars, serviceVars, historyVars, Goto
<1>2. BackupTypeOK'
  BY <1>1, BackupAssumption DEF BackupInv, BackupTypeOK, Steps, Mnemonics, Accounts
<1>3. WalletIsWhole'
  BY <1>1, BackupAssumption DEF BackupInv, BackupTypeOK, WalletIsWhole, UploadFits,
     Restorable, Live, Uploading, Before, Undoing
<1>4. UploadFits'
  BY <1>1, BackupAssumption DEF BackupInv, BackupTypeOK, WalletIsWhole, UploadFits,
     Restorable, Live, Uploading, Before, Undoing
<1>5. Restorable'
  BY <1>1, BackupAssumption DEF BackupInv, BackupTypeOK, Restorable, WalletIsWhole,
     UploadFits, NothingLost, Live, Uploading, Before, Undoing
<1>6. JobsFit'
  BY <1>1, BackupAssumption DEF BackupInv, BackupTypeOK, JobsFit, UploadFits, MapsFit,
     MergedSoFar, NothingLost, Live, Uploading, Before, Undoing
<1>7. MapsFit'
  BY <1>1, BackupAssumption DEF BackupInv, BackupTypeOK, MapsFit, JobsFit, UploadFits,
     MergedSoFar, NothingLost, WalletIsWhole, Restorable, Live, Uploading, Before, Undoing
<1>8. MergedSoFar'
  BY <1>1, BackupAssumption DEF BackupInv, BackupTypeOK, MergedSoFar, JobsFit, UploadFits,
     MapsFit, Live, Uploading, Before, Undoing
<1>9. NothingLost'
  BY <1>1, BackupAssumption DEF BackupInv, BackupTypeOK, NothingLost, Restorable, JobsFit,
     WalletIsWhole, MergedSoFar, Live, Uploading, Before, Undoing
<1>10. UploadIsWhole'
  BY <1>1, BackupAssumption DEF BackupInv, BackupTypeOK, UploadIsWhole, UploadFits,
     MergedSoFar, Live, Uploading, Before, Undoing
<1>11. FailedInstallIsUndone'
  BY <1>4, <1>5 DEF UploadFits, Restorable, FailedInstallIsUndone, Uploading, Undoing
<1>12. QED
  BY <1>2, <1>3, <1>4, <1>5, <1>6, <1>7, <1>8, <1>9, <1>10, <1>11 DEF BackupInv

LEMMA UnlockKeeps ==
  ASSUME BackupInv, Unlock
  PROVE  BackupInv'
<1>1. /\ upload.pc = "idle" /\ (\A s \in Services : jobs[s].pc = "idle")
      /\ checker /\ step = "mnemonic" /\ ~secrets.password
      /\ secrets' = [password |-> TRUE, mnemonic |-> seed]
      /\ map' = [s \in Services |-> IF store[s].key = seed THEN Shown(store[s], map[s]) ELSE map[s]]
      /\ UNCHANGED <<checker, seed, accounts, step, store, jobs, file, upload, restore, own,
                     kept, uploads, restarts, torn>>
  BY DEF Unlock, Quiet, walletVars, serviceVars, historyVars, Goto
<1>2. BackupTypeOK'
  BY <1>1 DEF BackupInv, BackupTypeOK, Steps, Shown, Data
<1>3. WalletIsWhole'
  BY <1>1 DEF BackupInv, BackupTypeOK, WalletIsWhole, UploadFits, Restorable, Live, Uploading,
     Before, Undoing
<1>4. UploadFits'
  BY <1>1 DEF BackupInv, BackupTypeOK, WalletIsWhole, UploadFits, Restorable, Live, Uploading,
     Before, Undoing
<1>5. Restorable'
  BY <1>1 DEF BackupInv, BackupTypeOK, Restorable, WalletIsWhole, UploadFits, NothingLost,
     Live, Uploading, Before, Undoing
<1>6. JobsFit'
  BY <1>1 DEF BackupInv, BackupTypeOK, JobsFit, UploadFits, MapsFit, MergedSoFar, NothingLost,
     Live, Uploading, Before, Undoing
<1>7. MapsFit'
  BY <1>1, NothingTyped DEF BackupInv, BackupTypeOK, MapsFit, JobsFit, UploadFits,
     MergedSoFar, NothingLost, WalletIsWhole, Restorable, Live, Uploading, Before, Undoing,
     Shown
<1>8. MergedSoFar'
  BY <1>1 DEF BackupInv, BackupTypeOK, MergedSoFar, JobsFit, UploadFits, MapsFit, Live,
     Uploading, Before, Undoing
<1>9. NothingLost'
  BY <1>1 DEF BackupInv, BackupTypeOK, NothingLost, Restorable, JobsFit, WalletIsWhole,
     MergedSoFar, Live, Uploading, Before, Undoing
<1>10. UploadIsWhole'
  BY <1>1 DEF BackupInv, BackupTypeOK, UploadIsWhole, UploadFits, MergedSoFar, Live,
     Uploading, Before, Undoing
<1>11. FailedInstallIsUndone'
  BY <1>4, <1>5 DEF UploadFits, Restorable, FailedInstallIsUndone, Uploading, Undoing
<1>12. QED
  BY <1>2, <1>3, <1>4, <1>5, <1>6, <1>7, <1>8, <1>9, <1>10, <1>11 DEF BackupInv

LEMMA DownloadKeeps ==
  ASSUME BackupInv, Download
  PROVE  BackupInv'
<1>1. /\ upload.pc = "idle" /\ (\A s \in Services : jobs[s].pc = "idle") /\ seed # None
      /\ file' = [mnemonic |-> seed, owners |-> accounts.owners, entries |-> [s \in Services |-> store[s].entries]]
      /\ UNCHANGED <<checker, seed, accounts, step, store, map, jobs, secrets, upload, restore,
                     own, kept, uploads, restarts, torn>>
  BY DEF Download, DownloadBackup, DownloadWallet, DownloadService, Quiet, walletVars,
     serviceVars, historyVars, Goto
<1>2. BackupTypeOK'
  BY <1>1 DEF BackupInv, BackupTypeOK, Steps, Data, Accounts
<1>3. WalletIsWhole'
  BY <1>1 DEF BackupInv, BackupTypeOK, WalletIsWhole, UploadFits, Restorable, Live, Uploading,
     Before, Undoing
<1>4. UploadFits'
  BY <1>1 DEF BackupInv, BackupTypeOK, WalletIsWhole, UploadFits, Restorable, Live, Uploading,
     Before, Undoing
<1>5. Restorable'
  BY <1>1 DEF BackupInv, BackupTypeOK, Restorable, WalletIsWhole, UploadFits, NothingLost,
     Live, Uploading, Before, Undoing
<1>6. JobsFit'
  BY <1>1 DEF BackupInv, BackupTypeOK, JobsFit, UploadFits, MapsFit, MergedSoFar, NothingLost,
     Live, Uploading, Before, Undoing
<1>7. MapsFit'
  BY <1>1, NothingTyped DEF BackupInv, BackupTypeOK, MapsFit, JobsFit, UploadFits,
     MergedSoFar, NothingLost, WalletIsWhole, Restorable, Live, Uploading, Before, Undoing
<1>8. MergedSoFar'
  BY <1>1 DEF BackupInv, BackupTypeOK, MergedSoFar, JobsFit, UploadFits, MapsFit, Live,
     Uploading, Before, Undoing
<1>9. NothingLost'
  BY <1>1 DEF BackupInv, BackupTypeOK, NothingLost, Restorable, JobsFit, WalletIsWhole,
     MergedSoFar, Live, Uploading, Before, Undoing
<1>10. UploadIsWhole'
  BY <1>1 DEF BackupInv, BackupTypeOK, UploadIsWhole, UploadFits, MergedSoFar, Live,
     Uploading, Before, Undoing
<1>11. FailedInstallIsUndone'
  BY <1>4, <1>5 DEF UploadFits, Restorable, FailedInstallIsUndone, Uploading, Undoing
<1>12. QED
  BY <1>2, <1>3, <1>4, <1>5, <1>6, <1>7, <1>8, <1>9, <1>10, <1>11 DEF BackupInv

LEMMA UploadCallKeeps ==
  ASSUME BackupInv, UploadCall
  PROVE  BackupInv'
<1>1. /\ upload.pc = "idle" /\ (\A s \in Services : jobs[s].pc = "idle") /\ uploads < MaxUploads
      /\ upload' = [pc |-> "lock", fresh |-> step = "new"]
      /\ restore' = [checker |-> checker, store |-> store,
                      seed |-> SavedWallet.seed, accounts |-> SavedWallet.accounts]
      /\ uploads' = uploads + 1
      /\ UNCHANGED <<checker, seed, accounts, step, store, map, jobs, secrets, file, own, kept,
                     restarts, torn>>
  BY DEF UploadCall, Quiet, walletVars, serviceVars, historyVars, Goto
<1>2. /\ SavedWallet.seed = seed /\ SavedWallet.accounts \in Accounts
      /\ seed # None => SavedWallet.accounts = accounts
  BY NothingTyped DEF SavedWallet, BackupInv, BackupTypeOK, WalletIsWhole
<1>3. BackupTypeOK'
  BY <1>1, <1>2, BackupAssumption DEF BackupInv, BackupTypeOK, Steps
<1>4. WalletIsWhole'
  BY <1>1, <1>2 DEF BackupInv, BackupTypeOK, WalletIsWhole, UploadFits, Restorable, Live,
     Uploading, Before, Undoing
<1>5. UploadFits'
  BY <1>1, <1>2 DEF BackupInv, BackupTypeOK, WalletIsWhole, UploadFits, Restorable, Live,
     Uploading, Before, Undoing
<1>6. Restorable'
  BY <1>1, <1>2 DEF BackupInv, BackupTypeOK, Restorable, WalletIsWhole, UploadFits,
     NothingLost, Live, Uploading, Before, Undoing
<1>7. JobsFit'
  BY <1>1, <1>2 DEF BackupInv, BackupTypeOK, JobsFit, UploadFits, MapsFit, MergedSoFar,
     NothingLost, Live, Uploading, Before, Undoing
<1>8. MapsFit'
  BY <1>1, <1>2 DEF BackupInv, BackupTypeOK, MapsFit, JobsFit, UploadFits, MergedSoFar,
     NothingLost, WalletIsWhole, Restorable, Live, Uploading, Before, Undoing
<1>9. MergedSoFar'
  BY <1>1, <1>2 DEF BackupInv, BackupTypeOK, MergedSoFar, JobsFit, UploadFits, MapsFit, Live,
     Uploading, Before, Undoing
<1>10. NothingLost'
  BY <1>1, <1>2 DEF BackupInv, BackupTypeOK, NothingLost, Restorable, JobsFit, WalletIsWhole,
     MergedSoFar, Live, Uploading, Before, Undoing
<1>11. UploadIsWhole'
  BY <1>1, <1>2 DEF BackupInv, BackupTypeOK, UploadIsWhole, UploadFits, MergedSoFar, Live,
     Uploading, Before, Undoing
<1>12. FailedInstallIsUndone'
  BY <1>5, <1>6 DEF UploadFits, Restorable, FailedInstallIsUndone, Uploading, Undoing
<1>13. QED
  BY <1>3, <1>4, <1>5, <1>6, <1>7, <1>8, <1>9, <1>10, <1>11, <1>12 DEF BackupInv

LEMMA RestartKeeps ==
  ASSUME BackupInv, Restart
  PROVE  BackupInv'
<1>0. /\ torn' \in BOOLEAN /\ (torn => torn')
      /\ upload.pc \in {"stored", "refused"} => torn'
  BY Zenon DEF Restart
<1>1. /\ restarts' \in 0..MaxRestarts
      /\ map' = [s \in Services |-> {}] /\ jobs' = [s \in Services |-> NoJob]
      /\ secrets' = NoSecrets
      /\ upload' = [upload EXCEPT !.pc = "idle"]
      /\ UNCHANGED <<checker, seed, accounts, step, store, file, restore, own, kept, uploads>>
  BY BackupAssumption DEF Restart, BackupInv, BackupTypeOK, walletVars, serviceVars,
     historyVars, Goto
<1>2. upload'.pc = "idle" /\ secrets'.mnemonic = None /\ \A s \in Services : jobs'[s].pc = "idle"
  BY <1>1, NothingTyped DEF BackupInv, BackupTypeOK
<1>3. BackupTypeOK'
  BY <1>0, <1>1, <1>2, NothingTyped DEF BackupInv, BackupTypeOK, Steps
<1>4. WalletIsWhole'
  BY <1>0, <1>1, <1>2, NothingTyped DEF BackupInv, BackupTypeOK, WalletIsWhole, UploadFits,
     Restorable, Live, Uploading, Before, Undoing
<1>5. UploadFits'
  BY <1>0, <1>1, <1>2, NothingTyped DEF BackupInv, BackupTypeOK, WalletIsWhole, UploadFits,
     Restorable, Live, Uploading, Before, Undoing
<1>6. Restorable'
  BY <1>0, <1>1, <1>2, NothingTyped DEF BackupInv, BackupTypeOK, Restorable, WalletIsWhole,
     UploadFits, NothingLost, Live, Uploading, Before, Undoing
<1>7. JobsFit'
  BY <1>0, <1>1, <1>2, NothingTyped DEF BackupInv, BackupTypeOK, JobsFit, UploadFits, MapsFit,
     MergedSoFar, NothingLost, Live, Uploading, Before, Undoing
<1>8. MapsFit'
  BY <1>0, <1>1, <1>2, NothingTyped DEF BackupInv, BackupTypeOK, MapsFit, JobsFit, UploadFits,
     MergedSoFar, NothingLost, WalletIsWhole, Restorable, Live, Uploading, Before, Undoing
<1>9. MergedSoFar'
  BY <1>0, <1>1, <1>2, NothingTyped DEF BackupInv, BackupTypeOK, MergedSoFar, JobsFit, UploadFits,
     MapsFit, Live, Uploading, Before, Undoing
<1>10. NothingLost'
  BY <1>0, <1>1, <1>2, NothingTyped DEF BackupInv, BackupTypeOK, NothingLost, Restorable, JobsFit,
     WalletIsWhole, MergedSoFar, Live, Uploading, Before, Undoing
<1>11. UploadIsWhole'
  BY <1>0, <1>1, <1>2, NothingTyped DEF BackupInv, BackupTypeOK, UploadIsWhole, UploadFits,
     MergedSoFar, Live, Uploading, Before, Undoing
<1>12. FailedInstallIsUndone'
  BY <1>5, <1>6 DEF UploadFits, Restorable, FailedInstallIsUndone, Uploading, Undoing
<1>13. QED
  BY <1>3, <1>4, <1>5, <1>6, <1>7, <1>8, <1>9, <1>10, <1>11, <1>12 DEF BackupInv

LEMMA UploadLockStepKeeps ==
  ASSUME BackupInv, UploadLockStep
  PROVE  BackupInv'
<1>1. /\ upload.pc = "step" /\ step' = "password" /\ upload' = [upload EXCEPT !.pc = "unlock"]
      /\ UNCHANGED <<checker, seed, accounts, store, map, jobs, secrets, file, restore, own,
                     kept, uploads, restarts, torn>>
  BY DEF UploadLockStep, walletVars, serviceVars, historyVars, Goto
<1>2. /\ upload'.pc # "idle" /\ upload'.pc # "done" /\ upload'.fresh = upload.fresh
      /\ secrets' \in [password: BOOLEAN, mnemonic: Mnemonics \cup {None}]
  BY <1>1, NothingTyped DEF BackupInv, BackupTypeOK
<1>3. BackupTypeOK'
  BY <1>1, <1>2, NothingTyped, BackupAssumption DEF BackupInv, BackupTypeOK, Steps
<1>4. WalletIsWhole'
  BY <1>1, <1>2, NothingTyped, BackupAssumption DEF BackupInv, BackupTypeOK, WalletIsWhole,
     UploadFits, Restorable, Live, Uploading, Before, Undoing
<1>5. UploadFits'
  BY <1>1, <1>2, NothingTyped, BackupAssumption DEF BackupInv, BackupTypeOK, WalletIsWhole,
     UploadFits, Restorable, Live, Uploading, Before, Undoing
<1>6. Restorable'
  BY <1>1, <1>2, NothingTyped, BackupAssumption DEF BackupInv, BackupTypeOK, Restorable,
     WalletIsWhole, UploadFits, NothingLost, Live, Uploading, Before, Undoing
<1>7. JobsFit'
  BY <1>1, <1>2, NothingTyped, BackupAssumption DEF BackupInv, BackupTypeOK, JobsFit,
     UploadFits, MapsFit, MergedSoFar, NothingLost, Live, Uploading, Before, Undoing
<1>8. MapsFit'
  BY <1>1, <1>2, NothingTyped, BackupAssumption DEF BackupInv, BackupTypeOK, MapsFit, JobsFit,
     UploadFits, MergedSoFar, NothingLost, WalletIsWhole, Restorable, Live, Uploading, Before,
     Undoing
<1>9. MergedSoFar'
  BY <1>1, <1>2, NothingTyped, BackupAssumption DEF BackupInv, BackupTypeOK, MergedSoFar,
     JobsFit, UploadFits, MapsFit, Live, Uploading, Before, Undoing
<1>10. NothingLost'
  BY <1>1, <1>2, NothingTyped, BackupAssumption DEF BackupInv, BackupTypeOK, NothingLost,
     Restorable, JobsFit, WalletIsWhole, MergedSoFar, Live, Uploading, Before, Undoing
<1>11. UploadIsWhole'
  BY <1>1, <1>2, NothingTyped, BackupAssumption DEF BackupInv, BackupTypeOK, UploadIsWhole,
     UploadFits, MergedSoFar, Live, Uploading, Before, Undoing
<1>12. FailedInstallIsUndone'
  BY <1>5, <1>6 DEF UploadFits, Restorable, FailedInstallIsUndone, Uploading, Undoing
<1>13. QED
  BY <1>3, <1>4, <1>5, <1>6, <1>7, <1>8, <1>9, <1>10, <1>11, <1>12 DEF BackupInv

LEMMA UploadLockUnlockKeeps ==
  ASSUME BackupInv, UploadLockUnlock
  PROVE  BackupInv'
<1>1. /\ upload.pc = "unlock" /\ secrets' = [secrets EXCEPT !.password = TRUE]
      /\ upload' = [upload EXCEPT !.pc = "wallet"]
      /\ UNCHANGED <<checker, seed, accounts, step, store, map, jobs, file, restore, own, kept,
                     uploads, restarts, torn>>
  BY DEF UploadLockUnlock, walletVars, serviceVars, historyVars, Goto
<1>2. /\ upload'.pc # "idle" /\ upload'.pc # "done" /\ upload'.fresh = upload.fresh
      /\ secrets' \in [password: BOOLEAN, mnemonic: Mnemonics \cup {None}]
  BY <1>1, NothingTyped DEF BackupInv, BackupTypeOK
<1>3. BackupTypeOK'
  BY <1>1, <1>2, NothingTyped, BackupAssumption DEF BackupInv, BackupTypeOK, Steps
<1>4. WalletIsWhole'
  BY <1>1, <1>2, NothingTyped, BackupAssumption DEF BackupInv, BackupTypeOK, WalletIsWhole,
     UploadFits, Restorable, Live, Uploading, Before, Undoing
<1>5. UploadFits'
  BY <1>1, <1>2, NothingTyped, BackupAssumption DEF BackupInv, BackupTypeOK, WalletIsWhole,
     UploadFits, Restorable, Live, Uploading, Before, Undoing
<1>6. Restorable'
  BY <1>1, <1>2, NothingTyped, BackupAssumption DEF BackupInv, BackupTypeOK, Restorable,
     WalletIsWhole, UploadFits, NothingLost, Live, Uploading, Before, Undoing
<1>7. JobsFit'
  BY <1>1, <1>2, NothingTyped, BackupAssumption DEF BackupInv, BackupTypeOK, JobsFit,
     UploadFits, MapsFit, MergedSoFar, NothingLost, Live, Uploading, Before, Undoing
<1>8. MapsFit'
  BY <1>1, <1>2, NothingTyped, BackupAssumption DEF BackupInv, BackupTypeOK, MapsFit, JobsFit,
     UploadFits, MergedSoFar, NothingLost, WalletIsWhole, Restorable, Live, Uploading, Before,
     Undoing
<1>9. MergedSoFar'
  BY <1>1, <1>2, NothingTyped, BackupAssumption DEF BackupInv, BackupTypeOK, MergedSoFar,
     JobsFit, UploadFits, MapsFit, Live, Uploading, Before, Undoing
<1>10. NothingLost'
  BY <1>1, <1>2, NothingTyped, BackupAssumption DEF BackupInv, BackupTypeOK, NothingLost,
     Restorable, JobsFit, WalletIsWhole, MergedSoFar, Live, Uploading, Before, Undoing
<1>11. UploadIsWhole'
  BY <1>1, <1>2, NothingTyped, BackupAssumption DEF BackupInv, BackupTypeOK, UploadIsWhole,
     UploadFits, MergedSoFar, Live, Uploading, Before, Undoing
<1>12. FailedInstallIsUndone'
  BY <1>5, <1>6 DEF UploadFits, Restorable, FailedInstallIsUndone, Uploading, Undoing
<1>13. QED
  BY <1>3, <1>4, <1>5, <1>6, <1>7, <1>8, <1>9, <1>10, <1>11, <1>12 DEF BackupInv

LEMMA UploadInstalledKeeps ==
  ASSUME BackupInv, UploadInstalled
  PROVE  BackupInv'
<1>1. /\ upload.pc = "stored" /\ secrets' = [secrets EXCEPT !.mnemonic = file.mnemonic]
      /\ \/ step' = "mnemonic" /\ upload' = [upload EXCEPT !.pc = "services"]
         \/ step' = step /\ upload' = [upload EXCEPT !.pc = "refused"]
      /\ UNCHANGED <<checker, seed, accounts, store, map, jobs, file, restore, own, kept, uploads,
                     restarts, torn>>
  BY DEF UploadInstalled, walletVars, serviceVars, historyVars, Goto
<1>2. /\ \/ upload'.pc = "services" /\ step' = "mnemonic"
         \/ upload'.pc = "refused" /\ step' = step
      /\ /\ upload'.fresh = upload.fresh
      /\ secrets' \in [password: BOOLEAN, mnemonic: Mnemonics \cup {None}]
  BY <1>1, NothingTyped DEF BackupInv, BackupTypeOK
<1>3. /\ own = None /\ restore.seed = None /\ seed = file.mnemonic
      /\ secrets'.mnemonic = file.mnemonic /\ file.mnemonic # None
      /\ file.mnemonic \in Mnemonics
  BY <1>1, BackupAssumption DEF BackupInv, BackupTypeOK, WalletIsWhole, UploadFits, Mnemonics
<1>4. BackupTypeOK'
  BY <1>1, <1>2, <1>3, NothingTyped, BackupAssumption DEF BackupInv, BackupTypeOK, Steps
<1>5. WalletIsWhole'
  BY <1>1, <1>2, <1>3, NothingTyped, BackupAssumption DEF BackupInv, BackupTypeOK,
     WalletIsWhole, UploadFits, Restorable, Live, Uploading, Before, Undoing
<1>6. UploadFits'
  BY <1>1, <1>2, <1>3, NothingTyped, BackupAssumption DEF BackupInv, BackupTypeOK,
     WalletIsWhole, UploadFits, Restorable, Live, Uploading, Before, Undoing
<1>7. Restorable'
  BY <1>1, <1>2, <1>3, NothingTyped, BackupAssumption DEF BackupInv, BackupTypeOK, Restorable,
     WalletIsWhole, UploadFits, NothingLost, Live, Uploading, Before, Undoing
<1>8. JobsFit'
  BY <1>1, <1>2, <1>3, NothingTyped, BackupAssumption DEF BackupInv, BackupTypeOK, JobsFit,
     UploadFits, MapsFit, MergedSoFar, NothingLost, Live, Uploading, Before, Undoing
<1>9. MapsFit'
  BY <1>1, <1>2, <1>3, NothingTyped, BackupAssumption DEF BackupInv, BackupTypeOK, MapsFit,
     JobsFit, UploadFits, MergedSoFar, NothingLost, WalletIsWhole, Restorable, Live,
     Uploading, Before, Undoing
<1>10. MergedSoFar'
  BY <1>1, <1>2, <1>3, NothingTyped, BackupAssumption DEF BackupInv, BackupTypeOK,
     MergedSoFar, JobsFit, UploadFits, MapsFit, Live, Uploading, Before, Undoing
<1>11. NothingLost'
  BY <1>1, <1>2, <1>3, NothingTyped, BackupAssumption DEF BackupInv, BackupTypeOK,
     NothingLost, Restorable, JobsFit, WalletIsWhole, MergedSoFar, Live, Uploading, Before,
     Undoing
<1>12. UploadIsWhole'
  BY <1>1, <1>2, <1>3, NothingTyped, BackupAssumption DEF BackupInv, BackupTypeOK,
     UploadIsWhole, UploadFits, MergedSoFar, Live, Uploading, Before, Undoing
<1>13. FailedInstallIsUndone'
  BY <1>6, <1>7 DEF UploadFits, Restorable, FailedInstallIsUndone, Uploading, Undoing
<1>14. QED
  BY <1>4, <1>5, <1>6, <1>7, <1>8, <1>9, <1>10, <1>11, <1>12, <1>13 DEF BackupInv

LEMMA RollbackAccountsKeeps ==
  ASSUME BackupInv, RollbackAccounts
  PROVE  BackupInv'
<1>1. /\ upload.pc = "undo" /\ accounts' = restore.accounts
      /\ upload' = [upload EXCEPT !.pc = "accounts"]
      /\ UNCHANGED <<checker, seed, step, store, map, jobs, secrets, file, restore, own, kept,
                     uploads, restarts, torn>>
  BY DEF RollbackAccounts, walletVars, serviceVars, historyVars, Goto
<1>2. /\ upload'.pc # "idle" /\ upload'.pc # "done" /\ upload'.fresh = upload.fresh
      /\ secrets' \in [password: BOOLEAN, mnemonic: Mnemonics \cup {None}]
  BY <1>1, NothingTyped DEF BackupInv, BackupTypeOK
<1>3. BackupTypeOK'
  BY <1>1, <1>2, NothingTyped, BackupAssumption DEF BackupInv, BackupTypeOK, Steps
<1>4. WalletIsWhole'
  BY <1>1, <1>2, NothingTyped, BackupAssumption DEF BackupInv, BackupTypeOK, WalletIsWhole,
     UploadFits, Restorable, Live, Uploading, Before, Undoing
<1>5. UploadFits'
  BY <1>1, <1>2, NothingTyped, BackupAssumption DEF BackupInv, BackupTypeOK, WalletIsWhole,
     UploadFits, Restorable, Live, Uploading, Before, Undoing
<1>6. Restorable'
  BY <1>1, <1>2, NothingTyped, BackupAssumption DEF BackupInv, BackupTypeOK, Restorable,
     WalletIsWhole, UploadFits, NothingLost, Live, Uploading, Before, Undoing
<1>7. JobsFit'
  BY <1>1, <1>2, NothingTyped, BackupAssumption DEF BackupInv, BackupTypeOK, JobsFit,
     UploadFits, MapsFit, MergedSoFar, NothingLost, Live, Uploading, Before, Undoing
<1>8. MapsFit'
  BY <1>1, <1>2, NothingTyped, BackupAssumption DEF BackupInv, BackupTypeOK, MapsFit, JobsFit,
     UploadFits, MergedSoFar, NothingLost, WalletIsWhole, Restorable, Live, Uploading, Before,
     Undoing
<1>9. MergedSoFar'
  BY <1>1, <1>2, NothingTyped, BackupAssumption DEF BackupInv, BackupTypeOK, MergedSoFar,
     JobsFit, UploadFits, MapsFit, Live, Uploading, Before, Undoing
<1>10. NothingLost'
  BY <1>1, <1>2, NothingTyped, BackupAssumption DEF BackupInv, BackupTypeOK, NothingLost,
     Restorable, JobsFit, WalletIsWhole, MergedSoFar, Live, Uploading, Before, Undoing
<1>11. UploadIsWhole'
  BY <1>1, <1>2, NothingTyped, BackupAssumption DEF BackupInv, BackupTypeOK, UploadIsWhole,
     UploadFits, MergedSoFar, Live, Uploading, Before, Undoing
<1>12. FailedInstallIsUndone'
  BY <1>5, <1>6 DEF UploadFits, Restorable, FailedInstallIsUndone, Uploading, Undoing
<1>13. QED
  BY <1>3, <1>4, <1>5, <1>6, <1>7, <1>8, <1>9, <1>10, <1>11, <1>12 DEF BackupInv

LEMMA RollbackSecretsKeeps ==
  ASSUME BackupInv, RollbackSecrets
  PROVE  BackupInv'
<1>1. /\ upload.pc = "forget" /\ secrets' = NoSecrets /\ upload' = [upload EXCEPT !.pc = "failed"]
      /\ UNCHANGED <<checker, seed, accounts, step, store, map, jobs, file, restore, own, kept,
                     uploads, restarts, torn>>
  BY DEF RollbackSecrets, walletVars, serviceVars, historyVars, Goto
<1>2. /\ upload'.pc # "idle" /\ upload'.pc # "done" /\ upload'.fresh = upload.fresh
      /\ secrets' \in [password: BOOLEAN, mnemonic: Mnemonics \cup {None}]
  BY <1>1, NothingTyped DEF BackupInv, BackupTypeOK
<1>3. BackupTypeOK'
  BY <1>1, <1>2, NothingTyped, BackupAssumption DEF BackupInv, BackupTypeOK, Steps
<1>4. WalletIsWhole'
  BY <1>1, <1>2, NothingTyped, BackupAssumption DEF BackupInv, BackupTypeOK, WalletIsWhole,
     UploadFits, Restorable, Live, Uploading, Before, Undoing
<1>5. UploadFits'
  BY <1>1, <1>2, NothingTyped, BackupAssumption DEF BackupInv, BackupTypeOK, WalletIsWhole,
     UploadFits, Restorable, Live, Uploading, Before, Undoing
<1>6. Restorable'
  BY <1>1, <1>2, NothingTyped, BackupAssumption DEF BackupInv, BackupTypeOK, Restorable,
     WalletIsWhole, UploadFits, NothingLost, Live, Uploading, Before, Undoing
<1>7. JobsFit'
  BY <1>1, <1>2, NothingTyped, BackupAssumption DEF BackupInv, BackupTypeOK, JobsFit,
     UploadFits, MapsFit, MergedSoFar, NothingLost, Live, Uploading, Before, Undoing
<1>8. MapsFit'
  BY <1>1, <1>2, NothingTyped, BackupAssumption DEF BackupInv, BackupTypeOK, MapsFit, JobsFit,
     UploadFits, MergedSoFar, NothingLost, WalletIsWhole, Restorable, Live, Uploading, Before,
     Undoing
<1>9. MergedSoFar'
  BY <1>1, <1>2, NothingTyped, BackupAssumption DEF BackupInv, BackupTypeOK, MergedSoFar,
     JobsFit, UploadFits, MapsFit, Live, Uploading, Before, Undoing
<1>10. NothingLost'
  BY <1>1, <1>2, NothingTyped, BackupAssumption DEF BackupInv, BackupTypeOK, NothingLost,
     Restorable, JobsFit, WalletIsWhole, MergedSoFar, Live, Uploading, Before, Undoing
<1>11. UploadIsWhole'
  BY <1>1, <1>2, NothingTyped, BackupAssumption DEF BackupInv, BackupTypeOK, UploadIsWhole,
     UploadFits, MergedSoFar, Live, Uploading, Before, Undoing
<1>12. FailedInstallIsUndone'
  BY <1>5, <1>6 DEF UploadFits, Restorable, FailedInstallIsUndone, Uploading, Undoing
<1>13. QED
  BY <1>3, <1>4, <1>5, <1>6, <1>7, <1>8, <1>9, <1>10, <1>11, <1>12 DEF BackupInv

LEMMA RollbackStepKeeps ==
  ASSUME BackupInv, RollbackStep
  PROVE  BackupInv'
<1>1. /\ upload.pc = "accounts"
      /\ \/ upload.fresh /\ step' = "new" /\ upload' = [upload EXCEPT !.pc = "forget"]
         \/ ~upload.fresh /\ step' = step /\ upload' = [upload EXCEPT !.pc = "failed"]
      /\ UNCHANGED <<checker, seed, accounts, store, map, jobs, secrets, file, restore, own,
                     kept, uploads, restarts, torn>>
  BY DEF RollbackStep, walletVars, serviceVars, historyVars, Goto
<1>2. BackupTypeOK'
  BY <1>1, NothingTyped, BackupAssumption DEF BackupInv, BackupTypeOK, Steps
<1>3. WalletIsWhole'
  <2>1. /\ seed = restore.seed
        /\ upload.fresh => own = None /\ (restore.seed = None \/ torn)
    BY <1>1 DEF BackupInv, UploadFits, Restorable, Uploading, Undoing
  <2>2. step' = "new" => seed' = None \/ torn'
    <3>1. CASE upload.fresh
      BY <1>1, <2>1, <3>1
    <3>2. CASE ~upload.fresh
      BY <1>1, <3>2 DEF BackupInv, WalletIsWhole
    <3>3. QED
      BY <3>1, <3>2
  <2>3. /\ own' = own /\ checker' = checker /\ seed' = seed /\ secrets' = secrets /\ kept' = kept
        /\ accounts' = accounts /\ file' = file
    BY <1>1
  <2>4. own # None => step' = "mnemonic"
    BY <1>1, <2>1, BackupAssumption DEF BackupInv, WalletIsWhole, UploadFits, Restorable, Uploading
  <2>5. QED
    BY <2>2, <2>3, <2>4 DEF BackupInv, WalletIsWhole
<1>4. UploadFits'
  BY <1>1, NothingTyped, BackupAssumption DEF BackupInv, BackupTypeOK, WalletIsWhole,
     UploadFits, Restorable, Live, Uploading, Before, Undoing
<1>5. Restorable'
  BY <1>1, NothingTyped, BackupAssumption DEF BackupInv, BackupTypeOK, Restorable,
     WalletIsWhole, UploadFits, NothingLost, Live, Uploading, Before, Undoing
<1>6. JobsFit'
  BY <1>1, NothingTyped, BackupAssumption DEF BackupInv, BackupTypeOK, JobsFit, UploadFits,
     MapsFit, MergedSoFar, NothingLost, Live, Uploading, Before, Undoing
<1>7. MapsFit'
  BY <1>1, NothingTyped, BackupAssumption DEF BackupInv, BackupTypeOK, MapsFit, JobsFit,
     UploadFits, MergedSoFar, NothingLost, WalletIsWhole, Restorable, Live, Uploading, Before,
     Undoing
<1>8. MergedSoFar'
  BY <1>1, NothingTyped, BackupAssumption DEF BackupInv, BackupTypeOK, MergedSoFar, JobsFit,
     UploadFits, MapsFit, Live, Uploading, Before, Undoing
<1>9. NothingLost'
  BY <1>1, NothingTyped, BackupAssumption DEF BackupInv, BackupTypeOK, NothingLost,
     Restorable, JobsFit, WalletIsWhole, MergedSoFar, Live, Uploading, Before, Undoing
<1>10. UploadIsWhole'
  BY <1>1, NothingTyped, BackupAssumption DEF BackupInv, BackupTypeOK, UploadIsWhole,
     UploadFits, MergedSoFar, Live, Uploading, Before, Undoing
<1>11. FailedInstallIsUndone'
  BY <1>4, <1>5 DEF UploadFits, Restorable, FailedInstallIsUndone, Uploading, Undoing
<1>12. QED
  BY <1>2, <1>3, <1>4, <1>5, <1>6, <1>7, <1>8, <1>9, <1>10, <1>11 DEF BackupInv

LEMMA UploadReturnsKeeps ==
  ASSUME BackupInv, UploadReturns
  PROVE  BackupInv'
<1>1. /\ upload.pc \in {"done", "failed"} /\ upload' = [upload EXCEPT !.pc = "idle"]
      /\ UNCHANGED <<checker, seed, accounts, step, store, map, jobs, secrets, file, restore,
                     own, kept, uploads, restarts, torn>>
  BY DEF UploadReturns, walletVars, serviceVars, historyVars, Goto
<1>2. BackupTypeOK'
  BY <1>1 DEF BackupInv, BackupTypeOK, Steps
<1>3. WalletIsWhole'
  BY <1>1 DEF BackupInv, BackupTypeOK, WalletIsWhole, UploadFits, Restorable, Live, Uploading,
     Before, Undoing
<1>4. UploadFits'
  BY <1>1 DEF BackupInv, BackupTypeOK, WalletIsWhole, UploadFits, Restorable, Live, Uploading,
     Before, Undoing
<1>5. Restorable'
  BY <1>1 DEF BackupInv, BackupTypeOK, Restorable, WalletIsWhole, UploadFits, NothingLost,
     Live, Uploading, Before, Undoing
<1>6. JobsFit'
  BY <1>1 DEF BackupInv, BackupTypeOK, JobsFit, UploadFits, MapsFit, MergedSoFar, NothingLost,
     Live, Uploading, Before, Undoing
<1>7. MapsFit'
  BY <1>1 DEF BackupInv, BackupTypeOK, MapsFit, JobsFit, UploadFits, MergedSoFar, NothingLost,
     WalletIsWhole, Restorable, Live, Uploading, Before, Undoing
<1>8. MergedSoFar'
  BY <1>1 DEF BackupInv, BackupTypeOK, MergedSoFar, JobsFit, UploadFits, MapsFit, Live,
     Uploading, Before, Undoing
<1>9. NothingLost'
  BY <1>1 DEF BackupInv, BackupTypeOK, NothingLost, Restorable, JobsFit, WalletIsWhole,
     MergedSoFar, Live, Uploading, Before, Undoing
<1>10. UploadIsWhole'
  BY <1>1 DEF BackupInv, BackupTypeOK, UploadIsWhole, UploadFits, MergedSoFar, Live,
     Uploading, Before, Undoing
<1>11. FailedInstallIsUndone'
  BY <1>4, <1>5 DEF UploadFits, Restorable, FailedInstallIsUndone, Uploading, Undoing
<1>12. QED
  BY <1>2, <1>3, <1>4, <1>5, <1>6, <1>7, <1>8, <1>9, <1>10, <1>11 DEF BackupInv

-----------------------------------------------------------------------------
(* Entries are added; an upload goes on. *)

LEMMA AddKeeps ==
  ASSUME BackupInv, NEW s \in Services, NEW e \in Entries, Add(s, e)
  PROVE  BackupInv'
<1>1. /\ upload.pc = "idle" /\ (\A r \in Services : jobs[r].pc = "idle") /\ step = "mnemonic"
      /\ secrets.mnemonic # None /\ own # None
      /\ UNCHANGED <<checker, seed, accounts, step, jobs, secrets, file, upload, restore, own,
                     uploads, restarts, torn>>
  BY DEF Add, Quiet, walletVars, serviceVars, historyVars, Goto
<1>2. \E all \in SUBSET Entries :
         /\ e \in all /\ kept[s] \subseteq all
         /\ store' = [store EXCEPT ![s] = [entries |-> all, key |-> own]]
         /\ map' = [map EXCEPT ![s] = IF s = "credentials" THEN @ ELSE all]
  <2>1. secrets.mnemonic = own
    BY <1>1 DEF BackupInv, WalletIsWhole
  <2>2. s # "credentials" => kept[s] \subseteq map[s] /\ map[s] \in SUBSET Entries
    BY <1>1 DEF BackupInv, BackupTypeOK, MapsFit
  <2>3. kept[s] \subseteq store[s].entries /\ store[s].entries \in SUBSET Entries
    BY DEF BackupInv, BackupTypeOK, NothingLost, Data
  <2>4. LET all == (IF s = "credentials" THEN store[s].entries ELSE map[s]) \cup {e}
        IN  /\ store' = [store EXCEPT ![s] = [entries |-> all, key |-> secrets.mnemonic]]
            /\ map' = [map EXCEPT ![s] = IF s = "credentials" THEN @ ELSE all]
    BY DEF Add
  <2>5. CASE s = "credentials"
    BY <2>1, <2>3, <2>4, <2>5
  <2>6. CASE s # "credentials"
    BY <2>1, <2>2, <2>4, <2>6
  <2>7. QED
    BY <2>5, <2>6
<1>3. PICK all \in SUBSET Entries :
             /\ e \in all /\ kept[s] \subseteq all
             /\ store' = [store EXCEPT ![s] = [entries |-> all, key |-> own]]
             /\ map' = [map EXCEPT ![s] = IF s = "credentials" THEN @ ELSE all]
  BY <1>2
<1>4. kept' = [kept EXCEPT ![s] = @ \cup {e}]
  BY DEF Add
<1>5. /\ store'[s].entries = all /\ store'[s].key = own
      /\ s # "credentials" => map'[s] = all
      /\ kept'[s] = kept[s] \cup {e}
      /\ \A r \in Services \ {s} : store'[r] = store[r] /\ map'[r] = map[r] /\ kept'[r] = kept[r]
      /\ s = "credentials" => map'[s] = map[s]
  BY <1>3, <1>4 DEF BackupInv, BackupTypeOK
<1>6. BackupTypeOK'
  BY <1>1, <1>2, <1>3, <1>4, <1>5, NothingTyped DEF BackupInv, BackupTypeOK, Steps, Data,
     Mnemonics
<1>7. WalletIsWhole'
  BY <1>1, <1>2, <1>3, <1>4, <1>5, NothingTyped DEF BackupInv, BackupTypeOK, WalletIsWhole,
     UploadFits, Restorable, Live, Uploading, Before, Undoing
<1>8. UploadFits'
  BY <1>1, <1>2, <1>3, <1>4, <1>5, NothingTyped DEF BackupInv, BackupTypeOK, WalletIsWhole,
     UploadFits, Restorable, Live, Uploading, Before, Undoing
<1>9. Restorable'
  BY <1>1, <1>2, <1>3, <1>4, <1>5, NothingTyped DEF BackupInv, BackupTypeOK, Restorable,
     WalletIsWhole, UploadFits, NothingLost, Live, Uploading, Before, Undoing
<1>10. JobsFit'
  BY <1>1, <1>2, <1>3, <1>4, <1>5, NothingTyped DEF BackupInv, BackupTypeOK, JobsFit,
     UploadFits, MapsFit, MergedSoFar, NothingLost, Live, Uploading, Before, Undoing
<1>11. MapsFit'
  BY <1>1, <1>2, <1>3, <1>4, <1>5, NothingTyped DEF BackupInv, BackupTypeOK, MapsFit, JobsFit,
     UploadFits, MergedSoFar, NothingLost, WalletIsWhole, Restorable, Live, Uploading, Before,
     Undoing
<1>12. MergedSoFar'
  BY <1>1, <1>2, <1>3, <1>4, <1>5, NothingTyped DEF BackupInv, BackupTypeOK, MergedSoFar,
     JobsFit, UploadFits, MapsFit, Live, Uploading, Before, Undoing
<1>13. NothingLost'
  BY <1>1, <1>2, <1>3, <1>4, <1>5, NothingTyped DEF BackupInv, BackupTypeOK, NothingLost,
     Restorable, JobsFit, WalletIsWhole, MergedSoFar, Live, Uploading, Before, Undoing
<1>14. UploadIsWhole'
  BY <1>1, <1>2, <1>3, <1>4, <1>5, NothingTyped DEF BackupInv, BackupTypeOK, UploadIsWhole,
     UploadFits, MergedSoFar, Live, Uploading, Before, Undoing
<1>15. FailedInstallIsUndone'
  BY <1>8, <1>9 DEF UploadFits, Restorable, FailedInstallIsUndone, Uploading, Undoing
<1>16. QED
  BY <1>6, <1>7, <1>8, <1>9, <1>10, <1>11, <1>12, <1>13, <1>14, <1>15 DEF BackupInv

\* The catch of upload: the lock, the seed and every store are as the user had them.
LEMMA RollbackMoves ==
  ASSUME BackupInv, Rollback, upload.pc \in Before \cup {"all"},
         UNCHANGED <<map, file, restore, own, kept, uploads, restarts, torn>>,
         jobs' \in [Services -> [pc: {"idle", "load", "write", "full", "reload"}, got: Data]],
         \A s \in Services :
           \/ jobs'[s] = jobs[s]
           \/ jobs'[s] = NoJob
           \/ upload.pc = "services" /\ file.entries[s] # {} /\ jobs'[s].pc = "load" /\ jobs'[s].got = store[s]
  PROVE  BackupInv'
<1>1. /\ checker' = restore.checker /\ seed' = restore.seed /\ store' = restore.store
      /\ upload' = [upload EXCEPT !.pc = "undo"]
      /\ UNCHANGED <<accounts, step, secrets, map, file, restore, own, kept, uploads, restarts, torn>>
  BY DEF Rollback, RestoreStorage, Goto
<1>2. upload'.pc = "undo" /\ upload'.fresh = upload.fresh
  BY <1>1 DEF BackupInv, BackupTypeOK
<1>3. restore.seed \in {None, seed} /\ (own # None => restore.checker /\ restore.seed = own)
  BY DEF BackupInv, Restorable, Uploading, Before
<1>4. upload.pc = "services" => store = restore.store
  BY DEF BackupInv, UploadFits, Before
<1>5. BackupTypeOK'
  BY <1>1, <1>2, <1>3, <1>4, NothingTyped DEF BackupInv, BackupTypeOK, Steps
<1>6. WalletIsWhole'
  BY <1>1, <1>2, <1>3, <1>4, NothingTyped DEF BackupInv, WalletIsWhole, UploadFits,
     Restorable, Live, Uploading, Before, Undoing
<1>7. UploadFits'
  BY <1>1, <1>2, <1>3, <1>4, NothingTyped DEF BackupInv, WalletIsWhole, UploadFits,
     Restorable, Live, Uploading, Before, Undoing
<1>8. Restorable'
  BY <1>1, <1>2, <1>3, <1>4, NothingTyped DEF BackupInv, Restorable, WalletIsWhole,
     UploadFits, NothingLost, Live, Uploading, Before, Undoing
<1>9. JobsFit'
  <2>1. SUFFICES ASSUME NEW s \in Services, jobs'[s].pc # "idle"
                 PROVE  /\ file.entries[s] # {}
                        /\ restore.store[s] = NoData => store'[s].entries \subseteq file.entries[s]
                        /\ store'[s] = NoData => restore.store[s] = NoData
                        /\ jobs'[s].pc = "load" => jobs'[s].got = restore.store[s]
                        /\ jobs'[s].pc = "reload" =>
                             /\ kept[s] # {} =>
                                  kept[s] \subseteq jobs'[s].got.entries /\ jobs'[s].got.key = own
                             /\ restore.store[s] = NoData => jobs'[s].got.entries \subseteq file.entries[s]
                             /\ s = "identity"
    BY <1>1 DEF JobsFit
  <2>2. restore.store[s] = NoData => store'[s].entries \subseteq file.entries[s]
    BY <1>1, NothingTyped
  <2>3. \/ jobs'[s] = jobs[s]
        \/ file.entries[s] # {} /\ jobs'[s].pc = "load" /\ jobs'[s].got = restore.store[s]
    BY <1>4, <2>1, NothingTyped
  <2>4. QED
    BY <1>1, <2>1, <2>2, <2>3 DEF BackupInv, JobsFit
<1>10. MapsFit'
  BY <1>1, <1>2, <1>3, <1>4, NothingTyped DEF BackupInv, MapsFit, JobsFit, UploadFits,
     MergedSoFar, NothingLost, WalletIsWhole, Restorable, Live, Uploading, Before, Undoing
<1>11. MergedSoFar'
  BY <1>1, <1>2, <1>3, <1>4, NothingTyped DEF BackupInv, MergedSoFar, JobsFit, UploadFits,
     MapsFit, Live, Uploading, Before, Undoing
<1>12. NothingLost'
  BY <1>1, <1>2, <1>3, <1>4, NothingTyped DEF BackupInv, NothingLost, Restorable, JobsFit,
     WalletIsWhole, MergedSoFar, Live, Uploading, Before, Undoing
<1>13. UploadIsWhole'
  BY <1>1, <1>2, <1>3, <1>4, NothingTyped DEF BackupInv, UploadIsWhole, UploadFits,
     MergedSoFar, Live, Uploading, Before, Undoing
<1>14. FailedInstallIsUndone'
  BY <1>2 DEF FailedInstallIsUndone
<1>15. QED
  BY <1>5, <1>6, <1>7, <1>8, <1>9, <1>10, <1>11, <1>12, <1>13, <1>14 DEF BackupInv

LEMMA LockKnownKeeps ==
  ASSUME BackupInv, UploadLock, checker, Goto("wallet"), UNCHANGED <<walletVars, secrets, store>>
  PROVE  BackupInv'
<1>1. /\ upload.pc = "lock" /\ checker /\ upload' = [upload EXCEPT !.pc = "wallet"]
      /\ UNCHANGED <<checker, seed, accounts, step, store, map, jobs, secrets, file, restore,
                     own, kept, uploads, restarts, torn>>
  BY DEF UploadLock, walletVars, serviceVars, historyVars, Goto
<1>2. upload'.pc = "wallet" /\ upload'.fresh = upload.fresh
  BY <1>1 DEF BackupInv, BackupTypeOK
<1>3. BackupTypeOK'
  BY <1>1, <1>2 DEF BackupInv, BackupTypeOK, Steps
<1>4. WalletIsWhole'
  BY <1>1, <1>2 DEF BackupInv, BackupTypeOK, WalletIsWhole, UploadFits, Restorable, Live,
     Uploading, Before, Undoing
<1>5. UploadFits'
  BY <1>1, <1>2 DEF BackupInv, BackupTypeOK, WalletIsWhole, UploadFits, Restorable, Live,
     Uploading, Before, Undoing
<1>6. Restorable'
  BY <1>1, <1>2 DEF BackupInv, BackupTypeOK, Restorable, WalletIsWhole, UploadFits,
     NothingLost, Live, Uploading, Before, Undoing
<1>7. JobsFit'
  BY <1>1, <1>2 DEF BackupInv, BackupTypeOK, JobsFit, UploadFits, MapsFit, MergedSoFar,
     NothingLost, Live, Uploading, Before, Undoing
<1>8. MapsFit'
  BY <1>1, <1>2 DEF BackupInv, BackupTypeOK, MapsFit, JobsFit, UploadFits, MergedSoFar,
     NothingLost, WalletIsWhole, Restorable, Live, Uploading, Before, Undoing
<1>9. MergedSoFar'
  BY <1>1, <1>2 DEF BackupInv, BackupTypeOK, MergedSoFar, JobsFit, UploadFits, MapsFit, Live,
     Uploading, Before, Undoing
<1>10. NothingLost'
  BY <1>1, <1>2 DEF BackupInv, BackupTypeOK, NothingLost, Restorable, JobsFit, WalletIsWhole,
     MergedSoFar, Live, Uploading, Before, Undoing
<1>11. UploadIsWhole'
  BY <1>1, <1>2 DEF BackupInv, BackupTypeOK, UploadIsWhole, UploadFits, MergedSoFar, Live,
     Uploading, Before, Undoing
<1>12. FailedInstallIsUndone'
  BY <1>5, <1>6 DEF UploadFits, Restorable, FailedInstallIsUndone, Uploading, Undoing
<1>13. QED
  BY <1>3, <1>4, <1>5, <1>6, <1>7, <1>8, <1>9, <1>10, <1>11, <1>12 DEF BackupInv

LEMMA LockUploadedKeeps ==
  ASSUME BackupInv, UploadLock, ~checker, checker' = TRUE, Goto("step"),
         UNCHANGED <<seed, accounts, step, secrets, store>>
  PROVE  BackupInv'
<1>1. /\ upload.pc = "lock" /\ ~checker /\ checker' = TRUE
      /\ upload' = [upload EXCEPT !.pc = "step"]
      /\ UNCHANGED <<seed, accounts, step, store, map, jobs, secrets, file, restore, own, kept,
                     uploads, restarts, torn>>
  BY DEF UploadLock, walletVars, serviceVars, historyVars, Goto
<1>2. upload'.pc = "step" /\ upload'.fresh = upload.fresh
  BY <1>1 DEF BackupInv, BackupTypeOK
<1>3. own = None
  BY <1>1 DEF BackupInv, WalletIsWhole
<1>4. BackupTypeOK'
  BY <1>1, <1>2, <1>3 DEF BackupInv, BackupTypeOK, Steps
<1>5. WalletIsWhole'
  BY <1>1, <1>2, <1>3 DEF BackupInv, BackupTypeOK, WalletIsWhole, UploadFits, Restorable,
     Live, Uploading, Before, Undoing
<1>6. UploadFits'
  BY <1>1, <1>2, <1>3 DEF BackupInv, BackupTypeOK, WalletIsWhole, UploadFits, Restorable,
     Live, Uploading, Before, Undoing
<1>7. Restorable'
  BY <1>1, <1>2, <1>3 DEF BackupInv, BackupTypeOK, Restorable, WalletIsWhole, UploadFits,
     NothingLost, Live, Uploading, Before, Undoing
<1>8. JobsFit'
  BY <1>1, <1>2, <1>3 DEF BackupInv, BackupTypeOK, JobsFit, UploadFits, MapsFit, MergedSoFar,
     NothingLost, Live, Uploading, Before, Undoing
<1>9. MapsFit'
  BY <1>1, <1>2, <1>3 DEF BackupInv, BackupTypeOK, MapsFit, JobsFit, UploadFits, MergedSoFar,
     NothingLost, WalletIsWhole, Restorable, Live, Uploading, Before, Undoing
<1>10. MergedSoFar'
  BY <1>1, <1>2, <1>3 DEF BackupInv, BackupTypeOK, MergedSoFar, JobsFit, UploadFits, MapsFit,
     Live, Uploading, Before, Undoing
<1>11. NothingLost'
  BY <1>1, <1>2, <1>3 DEF BackupInv, BackupTypeOK, NothingLost, Restorable, JobsFit,
     WalletIsWhole, MergedSoFar, Live, Uploading, Before, Undoing
<1>12. UploadIsWhole'
  BY <1>1, <1>2, <1>3 DEF BackupInv, BackupTypeOK, UploadIsWhole, UploadFits, MergedSoFar,
     Live, Uploading, Before, Undoing
<1>13. FailedInstallIsUndone'
  BY <1>6, <1>7 DEF UploadFits, Restorable, FailedInstallIsUndone, Uploading, Undoing
<1>14. QED
  BY <1>4, <1>5, <1>6, <1>7, <1>8, <1>9, <1>10, <1>11, <1>12, <1>13 DEF BackupInv

LEMMA UploadLockKeeps ==
  ASSUME BackupInv, UploadLock
  PROVE  BackupInv'
<1>1. CASE Rollback
  <2>1. upload.pc \in Before /\ UNCHANGED <<map, jobs, file, restore, own, kept, uploads,
                                            restarts, torn>>
    BY DEF UploadLock, historyVars, Before
  <2>2. jobs' \in [Services -> [pc: {"idle", "load", "write", "full", "reload"}, got: Data]]
    BY <2>1 DEF BackupInv, BackupTypeOK
  <2>3. QED
    BY <1>1, <2>1, <2>2, RollbackMoves
<1>2. QED
  BY <1>1, LockKnownKeeps, LockUploadedKeeps DEF UploadLock

LEMMA AccountsUploadedKeeps ==
  ASSUME BackupInv, UploadWallet, UploadAccounts, accounts # NoAccounts => accounts.key = secrets.mnemonic,
         Goto(IF seed = None THEN "seed" ELSE "services")
  PROVE  BackupInv'
<1>1. /\ upload.pc = "wallet" /\ (accounts # NoAccounts => accounts.key = secrets.mnemonic)
      /\ accounts' = [owners |-> accounts.owners \cup file.owners,
                      key |-> IF seed # None THEN seed ELSE file.mnemonic]
      /\ upload' = [upload EXCEPT !.pc = IF seed = None THEN "seed" ELSE "services"]
      /\ UNCHANGED <<checker, seed, step, store, map, jobs, secrets, file, restore, own, kept,
                     uploads, restarts, torn>>
  BY DEF UploadWallet, UploadAccounts, walletVars, serviceVars, historyVars, Goto
<1>2. upload'.pc = (IF seed = None THEN "seed" ELSE "services") /\ upload'.fresh = upload.fresh
  BY <1>1 DEF BackupInv, BackupTypeOK
<1>3. seed # None => secrets.mnemonic = seed
  BY <1>1, NothingTyped DEF BackupInv, WalletIsWhole
<1>4. /\ accounts'.owners = accounts.owners \cup file.owners
      /\ accounts'.key = IF seed # None THEN seed ELSE file.mnemonic
  BY <1>1
<1>5. accounts' \in Accounts
  BY <1>1 DEF BackupInv, BackupTypeOK, Accounts
<1>6. BackupTypeOK'
  BY <1>1, <1>2, <1>3, <1>4, <1>5 DEF BackupInv, BackupTypeOK, Steps
<1>7. WalletIsWhole'
  BY <1>1, <1>2, <1>3, <1>4, <1>5 DEF BackupInv, BackupTypeOK, WalletIsWhole, UploadFits,
     Restorable, Live, Uploading, Before, Undoing
<1>8. UploadFits'
  BY <1>1, <1>2, <1>3, <1>4, <1>5 DEF BackupInv, BackupTypeOK, WalletIsWhole, UploadFits,
     Restorable, Live, Uploading, Before, Undoing
<1>9. Restorable'
  BY <1>1, <1>2, <1>3, <1>4, <1>5 DEF BackupInv, BackupTypeOK, Restorable, WalletIsWhole,
     UploadFits, NothingLost, Live, Uploading, Before, Undoing
<1>10. JobsFit'
  BY <1>1, <1>2, <1>3, <1>4, <1>5 DEF BackupInv, BackupTypeOK, JobsFit, UploadFits, MapsFit,
     MergedSoFar, NothingLost, Live, Uploading, Before, Undoing
<1>11. MapsFit'
  BY <1>1, <1>2, <1>3, <1>4, <1>5 DEF BackupInv, BackupTypeOK, MapsFit, JobsFit, UploadFits,
     MergedSoFar, NothingLost, WalletIsWhole, Restorable, Live, Uploading, Before, Undoing
<1>12. MergedSoFar'
  BY <1>1, <1>2, <1>3, <1>4, <1>5 DEF BackupInv, BackupTypeOK, MergedSoFar, JobsFit,
     UploadFits, MapsFit, Live, Uploading, Before, Undoing
<1>13. NothingLost'
  BY <1>1, <1>2, <1>3, <1>4, <1>5 DEF BackupInv, BackupTypeOK, NothingLost, Restorable,
     JobsFit, WalletIsWhole, MergedSoFar, Live, Uploading, Before, Undoing
<1>14. UploadIsWhole'
  BY <1>1, <1>2, <1>3, <1>4, <1>5 DEF BackupInv, BackupTypeOK, UploadIsWhole, UploadFits,
     MergedSoFar, Live, Uploading, Before, Undoing
<1>15. FailedInstallIsUndone'
  BY <1>8, <1>9 DEF UploadFits, Restorable, FailedInstallIsUndone, Uploading, Undoing
<1>16. QED
  BY <1>6, <1>7, <1>8, <1>9, <1>10, <1>11, <1>12, <1>13, <1>14, <1>15 DEF BackupInv

LEMMA UploadWalletKeeps ==
  ASSUME BackupInv, UploadWallet
  PROVE  BackupInv'
<1>1. CASE Rollback
  <2>1. upload.pc \in Before /\ UNCHANGED <<map, jobs, file, restore, own, kept, uploads,
                                            restarts, torn>>
    BY DEF UploadWallet, historyVars, Before
  <2>2. jobs' \in [Services -> [pc: {"idle", "load", "write", "full", "reload"}, got: Data]]
    BY <2>1 DEF BackupInv, BackupTypeOK
  <2>3. QED
    BY <1>1, <2>1, <2>2, RollbackMoves
<1>2. QED
  BY <1>1, AccountsUploadedKeeps DEF UploadWallet

LEMMA SeedStoredKeeps ==
  ASSUME BackupInv, UploadSeed, seed' = file.mnemonic, Goto("stored"),
         UNCHANGED <<checker, accounts, step, secrets, store>>
  PROVE  BackupInv'
<1>1. /\ upload.pc = "seed" /\ seed' = file.mnemonic /\ upload' = [upload EXCEPT !.pc = "stored"]
      /\ UNCHANGED <<checker, accounts, step, secrets, store, map, jobs, file, restore, own,
                     kept, uploads, restarts, torn>>
  BY DEF UploadSeed, historyVars, Goto
<1>2. /\ upload'.pc # "idle" /\ upload'.pc # "done" /\ upload'.fresh = upload.fresh
      /\ secrets' \in [password: BOOLEAN, mnemonic: Mnemonics \cup {None}]
  BY <1>1, NothingTyped DEF BackupInv, BackupTypeOK
<1>3. /\ own = None /\ restore.seed = None /\ file.mnemonic # None
      /\ file.mnemonic \in Mnemonics
  BY <1>1, BackupAssumption DEF BackupInv, BackupTypeOK, WalletIsWhole, UploadFits, Mnemonics,
     Restorable, Uploading
<1>4. BackupTypeOK'
  BY <1>1, <1>2, <1>3, NothingTyped, BackupAssumption DEF BackupInv, BackupTypeOK, Steps
<1>5. WalletIsWhole'
  BY <1>1, <1>2, <1>3, NothingTyped, BackupAssumption DEF BackupInv, BackupTypeOK,
     WalletIsWhole, UploadFits, Restorable, Live, Uploading, Before, Undoing
<1>6. UploadFits'
  BY <1>1, <1>2, <1>3, NothingTyped, BackupAssumption DEF BackupInv, BackupTypeOK,
     WalletIsWhole, UploadFits, Restorable, Live, Uploading, Before, Undoing
<1>7. Restorable'
  BY <1>1, <1>2, <1>3, NothingTyped, BackupAssumption DEF BackupInv, BackupTypeOK, Restorable,
     WalletIsWhole, UploadFits, NothingLost, Live, Uploading, Before, Undoing
<1>8. JobsFit'
  BY <1>1, <1>2, <1>3, NothingTyped, BackupAssumption DEF BackupInv, BackupTypeOK, JobsFit,
     UploadFits, MapsFit, MergedSoFar, NothingLost, Live, Uploading, Before, Undoing
<1>9. MapsFit'
  BY <1>1, <1>2, <1>3, NothingTyped, BackupAssumption DEF BackupInv, BackupTypeOK, MapsFit,
     JobsFit, UploadFits, MergedSoFar, NothingLost, WalletIsWhole, Restorable, Live,
     Uploading, Before, Undoing
<1>10. MergedSoFar'
  BY <1>1, <1>2, <1>3, NothingTyped, BackupAssumption DEF BackupInv, BackupTypeOK,
     MergedSoFar, JobsFit, UploadFits, MapsFit, Live, Uploading, Before, Undoing
<1>11. NothingLost'
  BY <1>1, <1>2, <1>3, NothingTyped, BackupAssumption DEF BackupInv, BackupTypeOK,
     NothingLost, Restorable, JobsFit, WalletIsWhole, MergedSoFar, Live, Uploading, Before,
     Undoing
<1>12. UploadIsWhole'
  BY <1>1, <1>2, <1>3, NothingTyped, BackupAssumption DEF BackupInv, BackupTypeOK,
     UploadIsWhole, UploadFits, MergedSoFar, Live, Uploading, Before, Undoing
<1>13. FailedInstallIsUndone'
  BY <1>6, <1>7 DEF UploadFits, Restorable, FailedInstallIsUndone, Uploading, Undoing
<1>14. QED
  BY <1>4, <1>5, <1>6, <1>7, <1>8, <1>9, <1>10, <1>11, <1>12, <1>13 DEF BackupInv

LEMMA UploadSeedKeeps ==
  ASSUME BackupInv, UploadSeed
  PROVE  BackupInv'
<1>1. CASE Rollback
  <2>1. upload.pc \in Before /\ UNCHANGED <<map, jobs, file, restore, own, kept, uploads,
                                            restarts, torn>>
    BY DEF UploadSeed, historyVars, Before
  <2>2. jobs' \in [Services -> [pc: {"idle", "load", "write", "full", "reload"}, got: Data]]
    BY <2>1 DEF BackupInv, BackupTypeOK
  <2>3. QED
    BY <1>1, <2>1, <2>2, RollbackMoves
<1>2. QED
  BY <1>1, SeedStoredKeeps DEF UploadSeed

LEMMA StepRefusedKeeps ==
  ASSUME BackupInv, StepRefused
  PROVE  BackupInv'
<1>1. /\ upload.pc \in Before \cup {"all"}
      /\ UNCHANGED <<map, jobs, file, restore, own, kept, uploads, restarts, torn>>
  BY DEF StepRefused, historyVars, Before
<1>2. jobs' \in [Services -> [pc: {"idle", "load", "write", "full", "reload"}, got: Data]]
  BY <1>1 DEF BackupInv, BackupTypeOK
<1>3. Rollback
  BY DEF StepRefused
<1>4. QED
  BY <1>1, <1>2, <1>3, RollbackMoves

LEMMA ServicesAskedKeeps ==
  ASSUME BackupInv, NEW forged \in SUBSET Services, UploadServices, NotAuthentic(forged) = {},
         jobs' = [s \in Services |-> IF file.entries[s] = {} \/ s \in forged THEN NoJob
                                     ELSE [pc |-> "load", got |-> store[s]]],
         Goto("all"), UNCHANGED <<walletVars, store, secrets>>
  PROVE  BackupInv'
<1>1. /\ upload.pc = "services" /\ upload' = [upload EXCEPT !.pc = "all"]
      /\ \A s \in Services : file.entries[s] # {} => s \notin forged
      /\ UNCHANGED <<checker, seed, accounts, step, store, map, secrets, file, restore, own,
                     kept, uploads, restarts, torn>>
  BY DEF UploadServices, NotAuthentic, walletVars, serviceVars, historyVars, Goto
<1>2. upload'.pc = "all" /\ upload'.fresh = upload.fresh
  BY <1>1 DEF BackupInv, BackupTypeOK
<1>3. /\ \A s \in Services : IF file.entries[s] = {} THEN jobs'[s] = NoJob
                             ELSE jobs'[s].pc = "load" /\ jobs'[s].got = store[s]
      /\ jobs' \in [Services -> [pc: {"idle", "load", "write", "full", "reload"}, got: Data]]
  BY <1>1, NothingTyped DEF BackupInv, BackupTypeOK
<1>4. store = restore.store
  BY <1>1 DEF BackupInv, UploadFits, Before
<1>5. BackupTypeOK'
  BY <1>1, <1>2, <1>3, <1>4, NothingTyped DEF BackupInv, BackupTypeOK, Steps
<1>6. WalletIsWhole'
  BY <1>1, <1>2, <1>3, <1>4, NothingTyped DEF BackupInv, BackupTypeOK, WalletIsWhole,
     UploadFits, Restorable, Live, Uploading, Before, Undoing
<1>7. UploadFits'
  BY <1>1, <1>2, <1>3, <1>4, NothingTyped DEF BackupInv, BackupTypeOK, WalletIsWhole,
     UploadFits, Restorable, Live, Uploading, Before, Undoing
<1>8. Restorable'
  BY <1>1, <1>2, <1>3, <1>4, NothingTyped DEF BackupInv, BackupTypeOK, Restorable,
     WalletIsWhole, UploadFits, NothingLost, Live, Uploading, Before, Undoing
<1>9. JobsFit'
  BY <1>1, <1>2, <1>3, <1>4, NothingTyped DEF BackupInv, BackupTypeOK, JobsFit, UploadFits,
     MapsFit, MergedSoFar, NothingLost, Live, Uploading, Before, Undoing
<1>10. MapsFit'
  BY <1>1, <1>2, <1>3, <1>4, NothingTyped DEF BackupInv, BackupTypeOK, MapsFit, JobsFit,
     UploadFits, MergedSoFar, NothingLost, WalletIsWhole, Restorable, Live, Uploading, Before,
     Undoing
<1>11. MergedSoFar'
  BY <1>1, <1>2, <1>3, <1>4, NothingTyped DEF BackupInv, BackupTypeOK, MergedSoFar, JobsFit,
     UploadFits, MapsFit, Live, Uploading, Before, Undoing
<1>12. NothingLost'
  BY <1>1, <1>2, <1>3, <1>4, NothingTyped DEF BackupInv, BackupTypeOK, NothingLost,
     Restorable, JobsFit, WalletIsWhole, MergedSoFar, Live, Uploading, Before, Undoing
<1>13. UploadIsWhole'
  BY <1>1, <1>2, <1>3, <1>4, NothingTyped DEF BackupInv, BackupTypeOK, UploadIsWhole,
     UploadFits, MergedSoFar, Live, Uploading, Before, Undoing
<1>14. FailedInstallIsUndone'
  BY <1>7, <1>8 DEF UploadFits, Restorable, FailedInstallIsUndone, Uploading, Undoing
<1>15. QED
  BY <1>5, <1>6, <1>7, <1>8, <1>9, <1>10, <1>11, <1>12, <1>13, <1>14 DEF BackupInv

LEMMA UploadServicesKeeps ==
  ASSUME BackupInv, UploadServices
  PROVE  BackupInv'
<1>1. PICK forged \in SUBSET Services :
        /\ jobs' = [s \in Services |-> IF file.entries[s] = {} \/ s \in forged THEN NoJob
                                       ELSE [pc |-> "load", got |-> store[s]]]
        /\ IF NotAuthentic(forged) # {}
           THEN Rollback
           ELSE Goto("all") /\ UNCHANGED <<walletVars, store, secrets>>
  BY DEF UploadServices
<1>2. CASE NotAuthentic(forged) # {}
  <2>1. upload.pc = "services" /\ UNCHANGED <<map, file, restore, own, kept, uploads, restarts, torn>>
    BY DEF UploadServices, historyVars
  <2>2. jobs' \in [Services -> [pc: {"idle", "load", "write", "full", "reload"}, got: Data]]
    BY <1>1, NothingTyped DEF BackupInv, BackupTypeOK
  <2>3. \A s \in Services :
          \/ jobs'[s] = NoJob
          \/ file.entries[s] # {} /\ jobs'[s].pc = "load" /\ jobs'[s].got = store[s]
    BY <1>1
  <2>4. QED
    BY <1>1, <1>2, <2>1, <2>2, <2>3, RollbackMoves DEF Before
<1>3. QED
  BY <1>1, <1>2, ServicesAskedKeeps

LEMMA AllUploadedKeeps ==
  ASSUME BackupInv, AllUploaded
  PROVE  BackupInv'
<1>1. /\ upload.pc = "all" /\ (\A s \in Services : jobs[s].pc = "idle") /\ step' = "mnemonic"
      /\ own' = seed /\ kept' = [s \in Services |-> kept[s] \cup file.entries[s]]
      /\ upload' = [upload EXCEPT !.pc = "done"]
      /\ UNCHANGED <<checker, seed, accounts, store, map, jobs, secrets, file, restore, uploads,
                     restarts, torn>>
  BY DEF AllUploaded, walletVars, serviceVars, historyVars, Goto
<1>2. upload'.pc = "done" /\ upload'.fresh = upload.fresh
  BY <1>1 DEF BackupInv, BackupTypeOK
<1>3. /\ seed # None /\ secrets.mnemonic = seed /\ checker /\ seed \in accounts.owners
      /\ accounts.key = seed /\ own \in {None, seed}
  BY <1>1 DEF BackupInv, UploadFits, WalletIsWhole
<1>4. \A s \in Services : file.entries[s] # {} =>
        /\ store[s].entries = restore.store[s].entries \cup file.entries[s]
        /\ store[s].key = seed
        /\ s # "credentials" => map[s] = store[s].entries
  BY <1>1 DEF BackupInv, MergedSoFar
<1>5. \A s \in Services : kept'[s] = kept[s] \cup file.entries[s]
  BY <1>1
<1>6. \A s \in Services : kept'[s] # {} => kept'[s] \subseteq store[s].entries /\ store[s].key = seed
  BY <1>1, <1>3, <1>4, <1>5 DEF BackupInv, NothingLost, WalletIsWhole
<1>7. \A s \in Services \ {"credentials"} : kept'[s] \subseteq map[s]
  BY <1>1, <1>3, <1>4, <1>5 DEF BackupInv, NothingLost, WalletIsWhole, MapsFit
<1>8. BackupTypeOK'
  BY <1>1, <1>2, <1>3, <1>4, <1>5, <1>6, <1>7, NothingTyped DEF BackupInv, BackupTypeOK, Steps
<1>9. WalletIsWhole'
  BY <1>1, <1>2, <1>3, <1>4, <1>5, <1>6, <1>7, NothingTyped DEF BackupInv, BackupTypeOK,
     WalletIsWhole, UploadFits, Restorable, Live, Uploading, Before, Undoing
<1>10. UploadFits'
  BY <1>1, <1>2, <1>3, <1>4, <1>5, <1>6, <1>7, NothingTyped DEF BackupInv, BackupTypeOK,
     WalletIsWhole, UploadFits, Restorable, Live, Uploading, Before, Undoing
<1>11. Restorable'
  BY <1>1, <1>2, <1>3, <1>4, <1>5, <1>6, <1>7, NothingTyped DEF BackupInv, BackupTypeOK,
     Restorable, WalletIsWhole, UploadFits, NothingLost, Live, Uploading, Before, Undoing
<1>12. JobsFit'
  BY <1>1, <1>2, <1>3, <1>4, <1>5, <1>6, <1>7, NothingTyped DEF BackupInv, BackupTypeOK,
     JobsFit, UploadFits, MapsFit, MergedSoFar, NothingLost, Live, Uploading, Before, Undoing
<1>13. MapsFit'
  BY <1>1, <1>2, <1>3, <1>4, <1>5, <1>6, <1>7, NothingTyped DEF BackupInv, BackupTypeOK,
     MapsFit, JobsFit, UploadFits, MergedSoFar, NothingLost, WalletIsWhole, Restorable, Live,
     Uploading, Before, Undoing
<1>14. MergedSoFar'
  BY <1>1, <1>2, <1>3, <1>4, <1>5, <1>6, <1>7, NothingTyped DEF BackupInv, BackupTypeOK,
     MergedSoFar, JobsFit, UploadFits, MapsFit, Live, Uploading, Before, Undoing
<1>15. NothingLost'
  BY <1>1, <1>2, <1>3, <1>4, <1>5, <1>6, <1>7, NothingTyped DEF BackupInv, BackupTypeOK,
     NothingLost, Restorable, JobsFit, WalletIsWhole, MergedSoFar, Live, Uploading, Before,
     Undoing
<1>16. UploadIsWhole'
  BY <1>1, <1>2, <1>3, <1>4, <1>5, <1>6, <1>7, NothingTyped DEF BackupInv, BackupTypeOK,
     UploadIsWhole, UploadFits, MergedSoFar, Live, Uploading, Before, Undoing
<1>17. FailedInstallIsUndone'
  BY <1>10, <1>11 DEF UploadFits, Restorable, FailedInstallIsUndone, Uploading, Undoing
<1>18. QED
  BY <1>8, <1>9, <1>10, <1>11, <1>12, <1>13, <1>14, <1>15, <1>16, <1>17 DEF BackupInv

-----------------------------------------------------------------------------
(* A service goes on with its uploadEncryptedStorage. *)

\* The store, the map and the job of s, and of no other service.  What it writes is what
\* it had and what the file has; its map keeps what the user has.
JobGoesOn(s) ==
  /\ store' \in [Services -> Data] /\ map' \in [Services -> SUBSET Entries]
  /\ jobs' \in [Services -> [pc: {"idle", "load", "write", "full", "reload"}, got: Data]]
  /\ \A r \in Services \ {s} : store'[r] = store[r] /\ map'[r] = map[r] /\ jobs'[r] = jobs[r]
  /\ jobs[s].pc # "idle" /\ jobs'[s].pc # "load"
  /\ jobs'[s].pc = "reload" => s = "identity" /\ jobs'[s].got = store'[s] /\ store'[s] = store[s]
  /\ \/ store'[s] = store[s]
     \/ /\ store'[s].entries = restore.store[s].entries \cup file.entries[s]
        /\ store'[s].key = secrets.mnemonic /\ secrets.mnemonic # None
  /\ \/ map'[s] = map[s]
     \/ /\ s # "credentials" /\ kept[s] \subseteq map'[s]
        /\ restore.store[s] = NoData => map'[s] \subseteq file.entries[s]
  /\ upload.pc = "all" =>
       /\ jobs'[s].pc \in {"idle", "write", "reload"} =>
            /\ store'[s].entries = restore.store[s].entries \cup file.entries[s]
            /\ store'[s].key = seed
       /\ jobs'[s].pc = "idle" /\ s # "credentials" => map'[s] = store'[s].entries
       /\ jobs'[s].pc = "write" /\ s \notin {"identity", "credentials"} => map'[s] = store'[s].entries
  /\ UNCHANGED <<checker, seed, accounts, step, secrets, file, upload, restore, own, kept,
                 uploads, restarts, torn>>

LEMMA JobGoesOnKeeps ==
  ASSUME BackupInv, NEW s \in Services, JobGoesOn(s)
  PROVE  BackupInv'
<1>1. UNCHANGED <<checker, seed, accounts, step, secrets, file, upload, restore, own, kept,
                  uploads, restarts, torn>>
  BY DEF JobGoesOn
<1>2. /\ store' \in [Services -> Data] /\ map' \in [Services -> SUBSET Entries]
      /\ jobs' \in [Services -> [pc: {"idle", "load", "write", "full", "reload"}, got: Data]]
      /\ \A r \in Services \ {s} : store'[r] = store[r] /\ map'[r] = map[r] /\ jobs'[r] = jobs[r]
      /\ jobs[s].pc # "idle" /\ jobs'[s].pc # "load"
  BY DEF JobGoesOn
<1>3. Live /\ upload.pc \notin Before \cup {"done"} /\ file.entries[s] # {}
  BY <1>2 DEF BackupInv, Live, UploadFits, JobsFit
<1>4. own # None => secrets.mnemonic \in {own, None}
  BY DEF BackupInv, WalletIsWhole
<1>5. kept[s] # {} => kept[s] \subseteq restore.store[s].entries /\ restore.store[s].key = own /\ own # None
  BY <1>3 DEF BackupInv, Restorable, WalletIsWhole
<1>6. kept[s] # {} => kept[s] \subseteq store'[s].entries /\ store'[s].key = own
  <2>1. kept[s] # {} => kept[s] \subseteq store[s].entries /\ store[s].key = own
    BY DEF BackupInv, NothingLost
  <2>2. QED
    BY <1>4, <1>5, <2>1 DEF JobGoesOn
<1>7. /\ restore.store[s] = NoData => store'[s].entries \subseteq file.entries[s]
      /\ store'[s] = NoData => restore.store[s] = NoData
  BY <1>2, NothingTyped DEF JobGoesOn, BackupInv, JobsFit
<1>8. BackupTypeOK'
  BY <1>1, <1>2 DEF BackupInv, BackupTypeOK
<1>9. WalletIsWhole'
  BY <1>1 DEF BackupInv, WalletIsWhole
<1>10. UploadFits'
  BY <1>1, <1>3 DEF BackupInv, UploadFits, Before, Undoing
<1>11. Restorable'
  BY <1>1, <1>3 DEF BackupInv, Restorable, Uploading
<1>12. JobsFit'
  <2>1. ASSUME NEW r \in Services, r # s
        PROVE  store'[r] = store[r] /\ jobs'[r] = jobs[r]
    BY <1>2, <2>1
  <2>2. jobs'[s].pc = "reload" =>
          /\ kept[s] # {} => kept[s] \subseteq jobs'[s].got.entries /\ jobs'[s].got.key = own
          /\ restore.store[s] = NoData => jobs'[s].got.entries \subseteq file.entries[s]
          /\ s = "identity"
    BY <1>6, <1>7 DEF JobGoesOn
  <2>3. QED
    BY <1>1, <1>2, <1>3, <1>7, <2>1, <2>2 DEF BackupInv, JobsFit
<1>13. MapsFit'
  <2>1. ASSUME NEW r \in Services \ {"credentials"}, r # s
        PROVE  store'[r] = store[r] /\ map'[r] = map[r]
    BY <1>2, <2>1
  <2>2. ASSUME s # "credentials", own # None, secrets.mnemonic # None
        PROVE  kept[s] \subseteq map'[s]
    BY <2>2 DEF JobGoesOn, BackupInv, MapsFit
  <2>3. ASSUME s # "credentials", restore.store[s] = NoData
        PROVE  map'[s] \subseteq file.entries[s]
    BY <1>3, <2>3 DEF JobGoesOn, BackupInv, MapsFit
  <2>4. QED
    BY <1>1, <1>3, <1>7, <2>1, <2>2, <2>3 DEF BackupInv, MapsFit
<1>14. MergedSoFar'
  <2>1. SUFFICES ASSUME upload.pc = "all", NEW r \in Services, file.entries[r] # {}
                 PROVE  /\ jobs'[r].pc \in {"idle", "write", "reload"} =>
                             /\ store'[r].entries = restore.store[r].entries \cup file.entries[r]
                             /\ store'[r].key = seed
                        /\ jobs'[r].pc = "idle" /\ r # "credentials" => map'[r] = store'[r].entries
                        /\ jobs'[r].pc = "write" /\ r \notin {"identity", "credentials"} =>
                             map'[r] = store'[r].entries
                        /\ jobs'[r].pc = "reload" => jobs'[r].got = store'[r]
    BY <1>1 DEF MergedSoFar
  <2>2. CASE r = s
    BY <2>1, <2>2 DEF JobGoesOn
  <2>3. CASE r # s
    <3>1. store'[r] = store[r] /\ map'[r] = map[r] /\ jobs'[r] = jobs[r]
      BY <1>2, <2>3
    <3>2. QED
      BY <2>1, <3>1 DEF BackupInv, MergedSoFar
  <2>4. QED
    BY <2>2, <2>3
<1>15. NothingLost'
  BY <1>1, <1>2, <1>6 DEF BackupInv, NothingLost
<1>16. UploadIsWhole'
  BY <1>1, <1>3 DEF UploadIsWhole
<1>17. FailedInstallIsUndone'
  BY <1>1 DEF BackupInv, FailedInstallIsUndone
<1>18. QED
  BY <1>8, <1>9, <1>10, <1>11, <1>12, <1>13, <1>14, <1>15, <1>16, <1>17 DEF BackupInv

\* A job that fails while upload waits for it lets everything be restored.
LEMMA JobFailsKeeps ==
  ASSUME BackupInv, NEW s \in Services, jobs[s].pc # "idle", JobFails(s), upload.pc = "all",
         UNCHANGED <<map, file, restore, historyVars, uploads, restarts, torn>>
  PROVE  BackupInv'
<1>1. jobs' = [jobs EXCEPT ![s] = NoJob] /\ Rollback
  BY DEF JobFails
<1>2. jobs' \in [Services -> [pc: {"idle", "load", "write", "full", "reload"}, got: Data]]
  BY <1>1, NothingTyped DEF BackupInv, BackupTypeOK
<1>3. \A r \in Services : jobs'[r] = jobs[r] \/ jobs'[r] = NoJob
  BY <1>1 DEF BackupInv, BackupTypeOK
<1>4. UNCHANGED <<map, file, restore, own, kept, uploads, restarts, torn>>
  BY DEF historyVars
<1>5. QED
  BY <1>1, <1>2, <1>3, <1>4, RollbackMoves

\* What a service makes of its store and the file holds no more than both.
LEMMA MergedIsUnion ==
  ASSUME BackupInv, NEW s \in Services, jobs[s].pc = "load"
  PROVE  /\ Merged(s) = restore.store[s].entries \cup file.entries[s]
         /\ jobs[s].got = restore.store[s] /\ file.entries[s] # {} /\ Merged(s) \subseteq Entries
<1>1. jobs[s].got = restore.store[s] /\ file.entries[s] # {} /\ Live
  BY DEF BackupInv, JobsFit, Live
<1>2. s # "credentials" /\ restore.store[s] = NoData => map[s] \subseteq file.entries[s]
  BY <1>1 DEF BackupInv, MapsFit
<1>3. Merged(s) = restore.store[s].entries \cup file.entries[s]
  BY <1>1, <1>2, NothingTyped DEF Merged, Shown
<1>4. restore.store[s] \in Data /\ file.entries[s] \subseteq Entries
  BY DEF BackupInv, BackupTypeOK
<1>5. QED
  BY <1>1, <1>3, <1>4 DEF Data

LEMMA JobLoadedKeeps ==
  ASSUME BackupInv, NEW s \in Services, JobLoaded(s)
  PROVE  BackupInv'
<1>1. /\ jobs[s].pc = "load"
      /\ UNCHANGED <<file, restore, own, kept, uploads, restarts, torn>>
      /\ jobs \in [Services -> [pc: {"idle", "load", "write", "full", "reload"}, got: Data]]
      /\ store \in [Services -> Data] /\ map \in [Services -> SUBSET Entries]
  BY DEF JobLoaded, historyVars, BackupInv, BackupTypeOK
<1>2. /\ Merged(s) = restore.store[s].entries \cup file.entries[s]
      /\ jobs[s].got = restore.store[s] /\ file.entries[s] # {} /\ Merged(s) \subseteq Entries
  BY <1>1, MergedIsUnion
<1>3. kept[s] # {} => kept[s] \subseteq restore.store[s].entries /\ restore.store[s] # NoData
  BY <1>1, NothingTyped DEF BackupInv, Restorable, Live, WalletIsWhole
<1>4. upload.pc = "all" => secrets.mnemonic = seed /\ seed # None
  BY DEF BackupInv, UploadFits
<1>5. /\ map' \in [Services -> SUBSET Entries]
      /\ \A r \in Services \ {s} : map'[r] = map[r]
      /\ \/ map'[s] = map[s]
         \/ /\ s # "credentials" /\ kept[s] \subseteq map'[s]
            /\ restore.store[s] = NoData => map'[s] \subseteq file.entries[s]
      /\ CanRead(jobs[s].got) /\ s \notin {"identity", "credentials"} => map'[s] = Merged(s)
  <2>1. CASE ~CanRead(jobs[s].got)
    BY <1>1, <2>1 DEF JobLoaded
  <2>2. CASE CanRead(jobs[s].got) /\ UploadApprovals(s)
    <3>1. map' = [map EXCEPT ![s] = Merged(s)] /\ s # "credentials"
      BY <2>2 DEF UploadApprovals
    <3>2. map'[s] = Merged(s) /\ kept[s] \subseteq map'[s]
      BY <1>1, <1>2, <1>3, <3>1
    <3>3. QED
      BY <1>1, <1>2, <3>1, <3>2, NothingTyped
  <2>3. CASE CanRead(jobs[s].got) /\ UploadIdentities(s)
    <3>1. map' = [map EXCEPT ![s] = Shown(jobs[s].got, map[s])] /\ s = "identity"
      BY <2>3 DEF UploadIdentities
    <3>2. CASE jobs[s].got = NoData
      BY <1>1, <2>3, <3>1, <3>2 DEF Shown
    <3>3. CASE jobs[s].got # NoData
      <4>1. map'[s] = restore.store[s].entries /\ restore.store[s].entries \subseteq Entries
        BY <1>1, <1>2, <3>1, <3>3 DEF Shown, Data
      <4>2. kept[s] \subseteq map'[s]
        BY <1>3, <4>1
      <4>3. QED
        BY <1>1, <1>2, <3>1, <3>3, <4>1, <4>2
    <3>4. QED
      BY <3>2, <3>3
  <2>4. CASE CanRead(jobs[s].got) /\ UploadCredentials(s)
    BY <1>1, <2>4 DEF UploadCredentials
  <2>5. QED
    BY <2>1, <2>2, <2>3, <2>4 DEF JobLoaded
<1>6. CASE (~CanRead(jobs[s].got) \/ secrets.mnemonic = None) /\ JobFails(s)
  <2>1. CASE upload.pc = "all"
    <3>1. UNCHANGED <<map, historyVars>>
      BY <1>4, <1>6, <2>1 DEF JobLoaded
    <3>2. QED
      BY <1>1, <1>6, <2>1, <3>1, JobFailsKeeps
  <2>2. CASE upload.pc # "all"
    <3>1. /\ jobs' = [jobs EXCEPT ![s] = NoJob]
          /\ UNCHANGED <<checker, seed, accounts, step, store, secrets, upload>>
      BY <1>6, <2>2 DEF JobFails, walletVars
    <3>2. /\ jobs' \in [Services -> [pc: {"idle", "load", "write", "full", "reload"}, got: Data]]
          /\ jobs'[s].pc = "idle" /\ \A r \in Services \ {s} : jobs'[r] = jobs[r]
      BY <1>1, <3>1, NothingTyped
    <3>3. JobGoesOn(s)
      BY <1>1, <1>5, <2>2, <3>1, <3>2 DEF JobGoesOn
    <3>4. QED
      BY <3>3, JobGoesOnKeeps
  <2>3. QED
    BY <2>1, <2>2
<1>7. ASSUME CanRead(jobs[s].got), secrets.mnemonic # None,
             store' = [store EXCEPT ![s] = [entries |-> Merged(s), key |-> secrets.mnemonic]],
             jobs' = [jobs EXCEPT ![s].pc = "write"], UNCHANGED <<walletVars, secrets, upload>>
      PROVE  BackupInv'
  <2>1. /\ jobs' \in [Services -> [pc: {"idle", "load", "write", "full", "reload"}, got: Data]]
        /\ jobs'[s].pc = "write" /\ \A r \in Services \ {s} : jobs'[r] = jobs[r]
    BY <1>1, <1>7
  <2>2. [entries |-> Merged(s), key |-> secrets.mnemonic] \in Data
    BY <1>2 DEF BackupInv, BackupTypeOK, Data
  <2>3. /\ store' \in [Services -> Data] /\ \A r \in Services \ {s} : store'[r] = store[r]
        /\ store'[s].entries = restore.store[s].entries \cup file.entries[s]
        /\ store'[s].key = secrets.mnemonic
    BY <1>1, <1>2, <1>7, <2>2
  <2>4. UNCHANGED <<checker, seed, accounts, step, secrets, upload>>
    BY <1>7 DEF walletVars
  <2>5. JobGoesOn(s)
    BY <1>1, <1>2, <1>4, <1>5, <1>7, <2>1, <2>3, <2>4 DEF JobGoesOn
  <2>6. QED
    BY <2>5, JobGoesOnKeeps
<1>8. ASSUME jobs' = [jobs EXCEPT ![s].pc = "full"], UNCHANGED <<walletVars, store, secrets,
                                                                 upload>>
      PROVE  BackupInv'
  <2>1. /\ jobs' \in [Services -> [pc: {"idle", "load", "write", "full", "reload"}, got: Data]]
        /\ jobs'[s].pc = "full" /\ \A r \in Services \ {s} : jobs'[r] = jobs[r]
    BY <1>1, <1>8
  <2>2. UNCHANGED <<checker, seed, accounts, step, store, secrets, upload>>
    BY <1>8 DEF walletVars
  <2>3. JobGoesOn(s)
    BY <1>1, <1>5, <2>1, <2>2 DEF JobGoesOn
  <2>4. QED
    BY <2>3, JobGoesOnKeeps
<1>9. QED
  BY <1>6, <1>7, <1>8 DEF JobLoaded

LEMMA JobWrittenKeeps ==
  ASSUME BackupInv, NEW s \in Services, JobWritten(s)
  PROVE  BackupInv'
<1>1. /\ jobs[s].pc \in {"write", "full"}
      /\ UNCHANGED <<map, file, restore, own, kept, uploads, restarts, torn>>
      /\ jobs \in [Services -> [pc: {"idle", "load", "write", "full", "reload"}, got: Data]]
      /\ store \in [Services -> Data] /\ map \in [Services -> SUBSET Entries]
  BY DEF JobWritten, historyVars, BackupInv, BackupTypeOK
<1>2. CASE jobs[s].pc = "full" /\ JobFails(s)
  <2>1. CASE upload.pc = "all"
    BY <1>1, <1>2, <2>1, JobFailsKeeps DEF historyVars
  <2>2. CASE upload.pc # "all"
    <3>1. /\ jobs' = [jobs EXCEPT ![s] = NoJob]
          /\ UNCHANGED <<checker, seed, accounts, step, store, secrets, upload>>
      BY <1>2, <2>2 DEF JobFails, walletVars
    <3>2. /\ jobs' \in [Services -> [pc: {"idle", "load", "write", "full", "reload"}, got: Data]]
          /\ jobs'[s].pc = "idle" /\ \A r \in Services \ {s} : jobs'[r] = jobs[r]
      BY <1>1, <3>1, NothingTyped
    <3>3. JobGoesOn(s)
      BY <1>1, <2>2, <3>1, <3>2 DEF JobGoesOn
    <3>4. QED
      BY <3>3, JobGoesOnKeeps
  <2>3. QED
    BY <2>1, <2>2
<1>3. CASE jobs[s].pc = "write"
  <2>1. jobs' = [jobs EXCEPT ![s] = IF s = "identity" THEN [pc |-> "reload", got |-> store[s]] ELSE NoJob]
    BY <1>3 DEF JobWritten
  <2>2. UNCHANGED <<checker, seed, accounts, step, store, secrets, upload>>
    BY <1>3 DEF JobWritten, walletVars
  <2>3. /\ jobs' \in [Services -> [pc: {"idle", "load", "write", "full", "reload"}, got: Data]]
        /\ \A r \in Services \ {s} : jobs'[r] = jobs[r]
        /\ jobs'[s].pc = IF s = "identity" THEN "reload" ELSE "idle"
        /\ s = "identity" => jobs'[s].got = store[s]
    BY <1>1, <2>1, NothingTyped
  <2>4. upload.pc = "all" =>
          /\ store[s].entries = restore.store[s].entries \cup file.entries[s]
          /\ store[s].key = seed
          /\ s \notin {"identity", "credentials"} => map[s] = store[s].entries
    BY <1>3 DEF BackupInv, MergedSoFar, JobsFit
  <2>5. JobGoesOn(s)
    BY <1>1, <1>3, <2>2, <2>3, <2>4 DEF JobGoesOn
  <2>6. QED
    BY <2>5, JobGoesOnKeeps
<1>4. QED
  BY <1>2, <1>3 DEF JobWritten

LEMMA JobReloadedKeeps ==
  ASSUME BackupInv, NEW s \in Services, JobReloaded(s)
  PROVE  BackupInv'
<1>1. /\ jobs[s].pc = "reload"
      /\ UNCHANGED <<file, restore, own, kept, uploads, restarts, torn>>
      /\ jobs \in [Services -> [pc: {"idle", "load", "write", "full", "reload"}, got: Data]]
      /\ store \in [Services -> Data] /\ map \in [Services -> SUBSET Entries]
  BY DEF JobReloaded, historyVars, BackupInv, BackupTypeOK
<1>2. /\ kept[s] # {} => kept[s] \subseteq jobs[s].got.entries /\ jobs[s].got # NoData
      /\ restore.store[s] = NoData => jobs[s].got.entries \subseteq file.entries[s]
      /\ s = "identity" /\ file.entries[s] # {}
  BY <1>1, NothingTyped DEF BackupInv, JobsFit, WalletIsWhole
<1>3. upload.pc = "all" => /\ jobs[s].got = store[s] /\ seed # None
                           /\ store[s].entries = restore.store[s].entries \cup file.entries[s]
                           /\ store[s].key = seed
  BY <1>1, <1>2 DEF BackupInv, MergedSoFar, UploadFits
<1>4. CASE ~CanRead(jobs[s].got) /\ JobFails(s) /\ UNCHANGED map
  <2>1. CASE upload.pc = "all"
    BY <1>1, <1>4, <2>1, JobFailsKeeps DEF historyVars
  <2>2. CASE upload.pc # "all"
    <3>1. /\ jobs' = [jobs EXCEPT ![s] = NoJob]
          /\ UNCHANGED <<checker, seed, accounts, step, store, map, secrets, upload>>
      BY <1>4, <2>2 DEF JobFails, walletVars
    <3>2. /\ jobs' \in [Services -> [pc: {"idle", "load", "write", "full", "reload"}, got: Data]]
          /\ jobs'[s].pc = "idle" /\ \A r \in Services \ {s} : jobs'[r] = jobs[r]
      BY <1>1, <3>1, NothingTyped
    <3>3. JobGoesOn(s)
      BY <1>1, <2>2, <3>1, <3>2 DEF JobGoesOn
    <3>4. QED
      BY <3>3, JobGoesOnKeeps
  <2>3. QED
    BY <2>1, <2>2
<1>5. ASSUME map' = [map EXCEPT ![s] = Shown(jobs[s].got, map[s])], jobs' = [jobs EXCEPT ![s] = NoJob],
             UNCHANGED <<walletVars, store, secrets, upload>>
      PROVE  BackupInv'
  <2>1. /\ jobs' \in [Services -> [pc: {"idle", "load", "write", "full", "reload"}, got: Data]]
        /\ jobs'[s].pc = "idle" /\ \A r \in Services \ {s} : jobs'[r] = jobs[r]
    BY <1>1, <1>5, NothingTyped
  <2>2. UNCHANGED <<checker, seed, accounts, step, store, secrets, upload>>
    BY <1>5 DEF walletVars
  <2>3. /\ map' \in [Services -> SUBSET Entries] /\ \A r \in Services \ {s} : map'[r] = map[r]
        /\ map'[s] = IF jobs[s].got = NoData THEN map[s] ELSE jobs[s].got.entries
    BY <1>1, <1>5 DEF Shown, Data
  <2>4. \/ map'[s] = map[s]
        \/ /\ s # "credentials" /\ kept[s] \subseteq map'[s]
           /\ restore.store[s] = NoData => map'[s] \subseteq file.entries[s]
    BY <1>2, <2>3
  <2>5. upload.pc = "all" => map'[s] = store[s].entries
    BY <1>3, <2>3, NothingTyped
  <2>6. JobGoesOn(s)
    BY <1>1, <1>3, <2>1, <2>2, <2>3, <2>4, <2>5 DEF JobGoesOn
  <2>7. QED
    BY <2>6, JobGoesOnKeeps
<1>6. QED
  BY <1>4, <1>5 DEF JobReloaded

-----------------------------------------------------------------------------
(* The theorems. *)

LEMMA BackupInitInv == BackupInit => BackupInv
<1> SUFFICES ASSUME BackupInit PROVE BackupInv
  OBVIOUS
<1>1. /\ checker = FALSE /\ seed = None /\ accounts = NoAccounts /\ step = "new"
      /\ store = [s \in Services |-> NoData] /\ map = [s \in Services |-> {}]
      /\ secrets = NoSecrets /\ upload = [pc |-> "idle", fresh |-> FALSE]
      /\ restore = [checker |-> FALSE, seed |-> None, accounts |-> NoAccounts,
                    store |-> [s \in Services |-> NoData]]
      /\ jobs = [s \in Services |-> NoJob]
      /\ own = None /\ kept = [s \in Services |-> {}] /\ torn = FALSE
      /\ uploads = 0 /\ restarts = 0
  BY DEF BackupInit
<1>2. /\ file \in [mnemonic: Mnemonics, owners: SUBSET Mnemonics, entries: [Services -> SUBSET Entries]]
      /\ file.mnemonic \in file.owners
  BY DEF BackupInit, Mnemonics
<1>3. BackupTypeOK
  <2>1. /\ [s \in Services |-> NoData] \in [Services -> Data]
        /\ jobs \in [Services -> [pc: {"idle", "load", "write", "full", "reload"}, got: Data]]
    BY <1>1, NothingTyped
  <2>2. restore \in [checker: BOOLEAN, seed: Mnemonics \cup {None}, accounts: Accounts,
                    store: [Services -> Data]]
    BY <1>1, <2>1, NothingTyped
  <2>3. upload \in [pc: Steps, fresh: BOOLEAN]
    BY <1>1 DEF Steps
  <2>4. uploads \in 0..MaxUploads /\ restarts \in 0..MaxRestarts
    BY <1>1, BackupAssumption
  <2>5. QED
    BY <1>1, <1>2, <2>1, <2>2, <2>3, <2>4, NothingTyped DEF BackupTypeOK
<1>4. WalletIsWhole
  BY <1>1, <1>2 DEF WalletIsWhole
<1>5. UploadFits /\ UploadIsWhole /\ FailedInstallIsUndone /\ MergedSoFar
  BY <1>1 DEF UploadFits, UploadIsWhole, FailedInstallIsUndone, MergedSoFar, Before, Undoing
<1>6. ~Live /\ ~Uploading
  BY <1>1, NothingTyped DEF Live, Uploading
<1>7. Restorable /\ JobsFit /\ MapsFit /\ NothingLost
  BY <1>1, <1>6, NothingTyped DEF Restorable, JobsFit, MapsFit, NothingLost
<1>8. QED
  BY <1>3, <1>4, <1>5, <1>7 DEF BackupInv

LEMMA BackupNextInv == BackupInv /\ [BackupNext]_backupVars => BackupInv'
<1> SUFFICES ASSUME BackupInv, [BackupNext]_backupVars PROVE BackupInv'
  OBVIOUS
<1>1. CASE UNCHANGED backupVars
  <2>1. /\ UNCHANGED <<checker, seed, accounts, step, store, map, jobs, secrets, file, upload, restore,
                    own, kept, uploads, restarts, torn>>
    BY <1>1 DEF backupVars, walletVars, serviceVars, historyVars
  <2>2. BackupTypeOK' /\ WalletIsWhole' /\ UploadFits' /\ MergedSoFar' /\ NothingLost'
    BY <2>1 DEF BackupInv, BackupTypeOK, WalletIsWhole, UploadFits, MergedSoFar, NothingLost
  <2>3. Live' = Live /\ Uploading' = Uploading
    BY <2>1 DEF Live, Uploading
  <2>4. Restorable' /\ JobsFit' /\ MapsFit' /\ UploadIsWhole' /\ FailedInstallIsUndone'
    BY <2>1, <2>3 DEF BackupInv, Restorable, JobsFit, MapsFit, UploadIsWhole,
       FailedInstallIsUndone
  <2>5. QED
    BY <2>2, <2>4 DEF BackupInv
<1>2. CASE UploadStep
  BY <1>2, UploadLockKeeps, UploadLockStepKeeps, UploadLockUnlockKeeps, UploadWalletKeeps,
     UploadSeedKeeps, UploadInstalledKeeps, UploadServicesKeeps, AllUploadedKeeps,
     StepRefusedKeeps, RollbackAccountsKeeps, RollbackStepKeeps, RollbackSecretsKeeps,
     UploadReturnsKeeps DEF UploadStep
<1>3. CASE \E s \in Services : JobLoaded(s) \/ JobWritten(s) \/ JobReloaded(s)
  BY <1>3, JobLoadedKeeps, JobWrittenKeeps, JobReloadedKeeps
<1>4. QED
  BY <1>1, <1>2, <1>3, OnboardKeeps, UnlockKeeps, DownloadKeeps, UploadCallKeeps, RestartKeeps,
     AddKeeps DEF BackupNext

\* The invariant of the backups, for any services, entries, uploads and restarts.
THEOREM BackupInvHolds == BackupSpec => []BackupInv
<1>1. QED
  BY BackupInitInv, BackupNextInv, PTL DEF BackupSpec

\* The types of the wallet, the stores, the file and the upload.
THEOREM BackupTypesHold == BackupSpec => []BackupTypeOK
<1>1. BackupInv => BackupTypeOK
  BY DEF BackupInv
<1>2. QED
  BY <1>1, BackupInvHolds, PTL

\* No upload costs the user anything, whether it completes, is rolled back under services
\* that still write, or is cut short (BackupService.upload, uploadEncryptedStorage).
THEOREM UploadsLoseNothing == BackupSpec => []NothingLost
<1>1. BackupInv => NothingLost
  BY DEF BackupInv
<1>2. QED
  BY <1>1, BackupInvHolds, PTL

\* When upload returns, every service stores what it had and what the file has.
THEOREM UploadMergesAll == BackupSpec => []UploadIsWhole
<1>1. BackupInv => UploadIsWhole
  BY DEF BackupInv
<1>2. QED
  BY <1>1, BackupInvHolds, PTL

\* A failed upload into a new wallet leaves no secret, the password and the accounts as they
\* were, and no mnemonic, unless an earlier upload was stopped between mnemonic and step: then
\* it leaves that one (the catch of upload).
THEOREM NewWalletStaysNew == BackupSpec => []FailedInstallIsUndone
<1>1. BackupInv => FailedInstallIsUndone
  BY DEF BackupInv
<1>2. QED
  BY <1>1, BackupInvHolds, PTL

=============================================================================
