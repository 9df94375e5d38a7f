------------------------------- MODULE Backup -------------------------------
(***************************************************************************)
(* BackupService: download of a backup file, and upload of one into a new  *)
(* or an installed wallet, with the uploadEncryptedStorage of every        *)
(* service, the rollback of a failed upload, and restarts of the service   *)
(* worker at every await.                                                  *)
(*                                                                         *)
(* The browser takes requests of storage in order: a set is in the store   *)
(* and the value of a get is fixed when it is requested; the reply that    *)
(* lets the handler go on comes later, in any order.  A value of a store   *)
(* is the set of its entries and the mnemonic it is encrypted with; the    *)
(* empty set is null.  A password is right or refused.                     *)
(***************************************************************************)
EXTENDS Naturals

CONSTANTS
  Services,     \* backed up beside lock and wallet
  Entries,      \* entries of the stores of the services
  Mine, Theirs, \* the mnemonic generated here, and the one of a foreign file
  None,
  MaxUploads, MaxRestarts

ASSUME BackupAssumption ==
  /\ Services \subseteq {"approval", "connections", "identity", "credentials"}
  /\ Mine # Theirs /\ None \notin {Mine, Theirs}
  /\ MaxUploads \in Nat /\ MaxRestarts \in Nat

VARIABLES
  checker,      \* the lock has a stored password
  seed,         \* the stored mnemonic
  accounts,     \* stored accounts: owners of the keys, and the mnemonic that encrypts them
  step,         \* InitializationStep
  store,        \* store[s]: stored entries of a service, and their key
  map,          \* map[s]: the map in memory, unless s is "credentials"
  secrets,      \* CryptoService.secrets: is there a password, and the mnemonic
  file,         \* the backup file: its mnemonic, accounts and entries
  upload,       \* where BackupService.upload is
  restore,      \* what saveRestoreData has read
  jobs,         \* jobs[s]: uploadEncryptedStorage of a service
  own,          \* history: the mnemonic of the installed wallet
  kept,         \* history: the entries of the user, by additions and completed uploads
  torn,         \* history: an upload was stopped between the mnemonic and the step
  uploads, restarts

walletVars == <<checker, seed, accounts, step>>
serviceVars == <<store, map, jobs>>
historyVars == <<own, kept, torn>>
backupVars == <<walletVars, serviceVars, secrets, file, upload, restore, historyVars, uploads, restarts>>

-----------------------------------------------------------------------------

Mnemonics == {Mine, Theirs}

Data == [entries: SUBSET Entries, key: Mnemonics \cup {None}]
Accounts == [owners: SUBSET Mnemonics, key: Mnemonics \cup {None}]
NoData == [entries |-> {}, key |-> None]
NoAccounts == [owners |-> {}, key |-> None]
NoSecrets == [password |-> FALSE, mnemonic |-> None]
NoJob == [pc |-> "idle", got |-> NoData]

Steps == {"idle", "lock", "step", "unlock", "wallet", "seed", "stored", "refused", "services",
          "all", "undo", "accounts", "forget", "done", "failed"}

BackupTypeOK ==
  /\ checker \in BOOLEAN /\ seed \in Mnemonics \cup {None} /\ accounts \in Accounts
  /\ step \in {"new", "password", "mnemonic"}
  /\ store \in [Services -> Data] /\ map \in [Services -> SUBSET Entries]
  /\ secrets \in [password: BOOLEAN, mnemonic: Mnemonics \cup {None}]
  /\ file \in [mnemonic: Mnemonics, owners: SUBSET Mnemonics, entries: [Services -> SUBSET Entries]]
  /\ upload \in [pc: Steps, fresh: BOOLEAN]
  /\ restore \in [checker: BOOLEAN, seed: Mnemonics \cup {None}, accounts: Accounts,
                  store: [Services -> Data]]
  /\ jobs \in [Services -> [pc: {"idle", "load", "write", "full", "reload"}, got: Data]]
  /\ own \in Mnemonics \cup {None} /\ kept \in [Services -> SUBSET Entries] /\ torn \in BOOLEAN
  /\ uploads \in 0..MaxUploads /\ restarts \in 0..MaxRestarts

-----------------------------------------------------------------------------

Quiet == upload.pc = "idle" /\ \A s \in Services : jobs[s].pc = "idle"
Goto(pc) == upload' = [upload EXCEPT !.pc = pc]

\* CryptoService.decrypt of a value: null needs no key.
CanRead(data) == data = NoData \/ (data.key = secrets.mnemonic /\ data.key # None)
Readable == \A s \in Services : CanRead(store[s])

\* unlock of a service and loadIdentities: a store that is null leaves the map as it is.
Shown(data, m) == IF data = NoData THEN m ELSE data.entries

-----------------------------------------------------------------------------
(* The rest of the wallet, as far as a backup needs it: one step each. *)

\* Onboarding with a new mnemonic.
Onboard ==
  /\ Quiet /\ step = "new" /\ ~checker
  /\ checker' = TRUE /\ seed' = Mine /\ step' = "mnemonic"
  /\ accounts' = [owners |-> {Mine}, key |-> Mine]
  /\ secrets' = [password |-> TRUE, mnemonic |-> Mine]
  /\ own' = Mine
  /\ UNCHANGED <<serviceVars, file, upload, restore, kept, torn, uploads, restarts>>

\* UNLOCK: what cannot be read is not loaded.
Unlock ==
  /\ Quiet /\ checker /\ step = "mnemonic" /\ ~secrets.password
  /\ secrets' = [password |-> TRUE, mnemonic |-> seed]
  /\ map' = [s \in Services |-> IF store[s].key = seed THEN Shown(store[s], map[s]) ELSE map[s]]
  /\ UNCHANGED <<walletVars, store, jobs, file, upload, restore, historyVars, uploads, restarts>>

\* A service adds an entry to its map, or to what it reads, and stores all.
Add(s, e) ==
  /\ Quiet /\ step = "mnemonic" /\ secrets.mnemonic # None /\ own # None
  /\ s = "credentials" => CanRead(store[s])
  /\ LET all == (IF s = "credentials" THEN store[s].entries ELSE map[s]) \cup {e}
     IN  /\ store' = [store EXCEPT ![s] = [entries |-> all, key |-> secrets.mnemonic]]
         /\ map' = [map EXCEPT ![s] = IF s = "credentials" THEN @ ELSE all]
  /\ kept' = [kept EXCEPT ![s] = @ \cup {e}]
  /\ UNCHANGED <<walletVars, jobs, secrets, file, upload, restore, own, torn, uploads, restarts>>

\* The page asks for the backup password, which has to be the wallet's.
DownloadBackup == Quiet /\ secrets.password

\* downloadEncryptedStorage: the password of the lock, the wallet's mnemonic and accounts, and
\* the store of a service are decrypted and then encrypted with the backup password.
DownloadLock == checker => secrets.password
DownloadWallet == seed # None /\ accounts.key = secrets.mnemonic
DownloadService(s) == store[s].entries

\* BackupService.download: all services, or an error.
Download ==
  /\ DownloadBackup /\ DownloadLock /\ DownloadWallet /\ Readable
  /\ file' = [mnemonic |-> seed, owners |-> accounts.owners,
              entries |-> [s \in Services |-> DownloadService(s)]]
  /\ UNCHANGED <<walletVars, serviceVars, secrets, upload, restore, historyVars, uploads, restarts>>

-----------------------------------------------------------------------------
(* BackupService.upload. *)

\* The onboarding page asks for the backup password only.
OnboardingBackup == step = "new"

\* The page of the settings asks for the wallet's password as well.
UploadBackup == step = "mnemonic" /\ secrets.password

\* downloadStorage of the wallet, which is null without accounts or without a mnemonic.
SavedWallet ==
  IF accounts = NoAccounts \/ seed = None THEN [seed |-> None, accounts |-> NoAccounts]
  ELSE [seed |-> seed, accounts |-> accounts]

\* A page hands in a file with a lock and a wallet.  downloadStorage of all services.
UploadCall ==
  /\ Quiet /\ uploads < MaxUploads
  /\ OnboardingBackup \/ UploadBackup
  /\ upload' = [pc |-> "lock", fresh |-> step = "new"]
  /\ restore' = [checker |-> checker, store |-> store,
                 seed |-> SavedWallet.seed, accounts |-> SavedWallet.accounts]
  /\ uploads' = uploads + 1
  /\ UNCHANGED <<walletVars, serviceVars, secrets, file, historyVars, restarts>>

\* restoreStorage of the services; their maps stay.
RestoreStorage == store' = restore.store

\* Mutant: the lock is not restored.
RollbackKeepsLock ==
  /\ seed' = restore.seed /\ RestoreStorage
  /\ Goto("undo")
  /\ UNCHANGED <<checker, accounts, step, secrets>>

\* The catch of upload: every service is asked to restore; the wallet begins with the seed.
Rollback ==
  /\ checker' = restore.checker /\ seed' = restore.seed /\ RestoreStorage
  /\ Goto("undo")
  /\ UNCHANGED <<accounts, step, secrets>>

\* LockerService.uploadEncryptedStorage: nothing to do for a wallet that has a password.
UploadLock ==
  /\ upload.pc = "lock"
  /\ \/ checker /\ Goto("wallet") /\ UNCHANGED <<walletVars, secrets, store>>
     \/ ~checker /\ checker' = TRUE /\ Goto("step") /\ UNCHANGED <<seed, accounts, step, secrets, store>>
     \/ ~checker /\ Rollback      \* not authentic
  /\ UNCHANGED <<map, jobs, file, restore, historyVars, uploads, restarts>>

UploadLockStep ==
  /\ upload.pc = "step"
  /\ step' = "password"
  /\ Goto("unlock")
  /\ UNCHANGED <<checker, seed, accounts, serviceVars, secrets, file, restore, historyVars, uploads, restarts>>

UploadLockUnlock ==
  /\ upload.pc = "unlock"
  /\ secrets' = [secrets EXCEPT !.password = TRUE]
  /\ Goto("wallet")
  /\ UNCHANGED <<walletVars, serviceVars, file, restore, historyVars, uploads, restarts>>

\* WalletService.uploadEncryptedStorage, its accounts: encrypted with the mnemonic of the
\* wallet, or else of the file.
UploadAccounts ==
  /\ accounts' = [owners |-> accounts.owners \cup file.owners,
                  key |-> IF seed # None THEN seed ELSE file.mnemonic]
  /\ UNCHANGED <<checker, seed, step, secrets, store>>

UploadWallet ==
  /\ upload.pc = "wallet"
  /\ \/ /\ accounts # NoAccounts => accounts.key = secrets.mnemonic
        /\ UploadAccounts
        /\ Goto(IF seed = None THEN "seed" ELSE "services")
     \/ Rollback                  \* not authentic, not decrypted, or over the quota
  /\ UNCHANGED <<map, jobs, file, restore, historyVars, uploads, restarts>>

\* changeMnemonicPassword: the accounts belong to the mnemonic of the file, which is stored
\* unless the quota is exceeded.
UploadSeed ==
  /\ upload.pc = "seed"
  /\ \/ seed' = file.mnemonic /\ Goto("stored") /\ UNCHANGED <<checker, accounts, step, secrets, store>>
     \/ Rollback
  /\ UNCHANGED <<map, jobs, file, restore, historyVars, uploads, restarts>>

\* The mnemonic is stored: setMnemonic, and the initialization step, which may be refused.
UploadInstalled ==
  /\ upload.pc = "stored"
  /\ secrets' = [secrets EXCEPT !.mnemonic = file.mnemonic]
  /\ \/ step' = "mnemonic" /\ Goto("services")
     \/ UNCHANGED step /\ Goto("refused")
  /\ UNCHANGED <<checker, seed, accounts, serviceVars, file, restore, historyVars, uploads, restarts>>

\* getAuthenticBackup: the parts of the file whose HMAC is not that of the backup password.
NotAuthentic(forged) == {s \in forged : file.entries[s] # {}}

\* Promise.all over the other services of the file: each requests its store, unless its
\* part is missing or not authentic.  One that is not rejects all, and the others go on.
UploadServices ==
  /\ upload.pc = "services"
  /\ \E forged \in SUBSET Services :
       /\ jobs' = [s \in Services |-> IF file.entries[s] = {} \/ s \in forged THEN NoJob
                                      ELSE [pc |-> "load", got |-> store[s]]]
       /\ IF NotAuthentic(forged) # {}
          THEN Rollback
          ELSE Goto("all") /\ UNCHANGED <<walletVars, store, secrets>>
  /\ UNCHANGED <<map, file, restore, historyVars, uploads, restarts>>

\* A job ends; if it fails and is not late, upload is rolled back.
JobFails(s) ==
  /\ jobs' = [jobs EXCEPT ![s] = NoJob]
  /\ IF upload.pc = "all" THEN Rollback ELSE UNCHANGED <<walletVars, store, secrets, upload>>

\* Mutant: the service does not load its map before it merges.
MergedUnloaded(s) == (IF s = "credentials" THEN {} ELSE map[s]) \cup file.entries[s]

\* Mutant: the service is given the wallet's part of the file.
MergedWallet(s) == Shown(jobs[s].got, IF s = "credentials" THEN {} ELSE map[s]) \cup file.owners

\* What a service makes of its store and the file.
Merged(s) ==
  Shown(jobs[s].got, IF s = "credentials" THEN {} ELSE map[s]) \cup file.entries[s]

\* The maps before the write: approvals and connections change theirs, identities load it,
\* and credentials have none.
UploadApprovals(s) ==
  /\ s \in {"approval", "connections"}
  /\ map' = [map EXCEPT ![s] = Merged(s)]

UploadIdentities(s) ==
  /\ s = "identity"
  /\ map' = [map EXCEPT ![s] = Shown(jobs[s].got, @)]

UploadCredentials(s) == s = "credentials" /\ UNCHANGED map

\* uploadEncryptedStorage of a service has its store, decrypts it and writes the merged
\* entries.
JobLoaded(s) ==
  /\ jobs[s].pc = "load"
  /\ IF CanRead(jobs[s].got) THEN UploadApprovals(s) \/ UploadIdentities(s) \/ UploadCredentials(s)
     ELSE UNCHANGED map
  /\ \/ (~CanRead(jobs[s].got) \/ secrets.mnemonic = None) /\ JobFails(s)
     \/ /\ CanRead(jobs[s].got) /\ secrets.mnemonic # None
        /\ store' = [store EXCEPT ![s] = [entries |-> Merged(s), key |-> secrets.mnemonic]]
        /\ jobs' = [jobs EXCEPT ![s].pc = "write"]
        /\ UNCHANGED <<walletVars, secrets, upload>>
     \/ /\ CanRead(jobs[s].got) /\ secrets.mnemonic # None
        /\ jobs' = [jobs EXCEPT ![s].pc = "full"]       \* the write will be rejected
        /\ UNCHANGED <<walletVars, store, secrets, upload>>
  /\ UNCHANGED <<file, restore, historyVars, uploads, restarts>>

\* The write of a service is answered.  Identities are loaded once more.
JobWritten(s) ==
  /\ jobs[s].pc \in {"write", "full"}
  /\ \/ jobs[s].pc = "full" /\ JobFails(s)
     \/ /\ jobs[s].pc = "write"
        /\ jobs' = [jobs EXCEPT ![s] = IF s = "identity" THEN [pc |-> "reload", got |-> store[s]] ELSE NoJob]
        /\ UNCHANGED <<walletVars, store, secrets, upload>>
  /\ UNCHANGED <<map, file, restore, historyVars, uploads, restarts>>

JobReloaded(s) ==
  /\ jobs[s].pc = "reload"
  /\ \/ ~CanRead(jobs[s].got) /\ JobFails(s) /\ UNCHANGED map
     \/ /\ CanRead(jobs[s].got)
        /\ map' = [map EXCEPT ![s] = Shown(jobs[s].got, @)]
        /\ jobs' = [jobs EXCEPT ![s] = NoJob]
        /\ UNCHANGED <<walletVars, store, secrets, upload>>
  /\ UNCHANGED <<file, restore, historyVars, uploads, restarts>>

\* Mutant: upload does not wait for its services.
AllUploadedEarly ==
  /\ upload.pc = "all"
  /\ step' = "mnemonic"
  /\ own' = seed
  /\ kept' = [s \in Services |-> kept[s] \cup file.entries[s]]
  /\ Goto("done")
  /\ UNCHANGED <<checker, seed, accounts, serviceVars, secrets, file, restore, torn, uploads, restarts>>

\* All services have merged: upload returns.
AllUploaded ==
  /\ upload.pc = "all" /\ \A s \in Services : jobs[s].pc = "idle"
  /\ step' = "mnemonic"
  /\ own' = seed
  /\ kept' = [s \in Services |-> kept[s] \cup file.entries[s]]
  /\ Goto("done")
  /\ UNCHANGED <<checker, seed, accounts, serviceVars, secrets, file, restore, torn, uploads, restarts>>

\* An initialization step of the lock, the wallet or the whole upload could not be stored.
StepRefused ==
  /\ \/ upload.pc \in {"step", "refused"}
     \/ upload.pc = "all" /\ \A s \in Services : jobs[s].pc = "idle"
  /\ Rollback
  /\ UNCHANGED <<map, jobs, file, restore, historyVars, uploads, restarts>>

\* The seed is restored, then the accounts.
RollbackAccounts ==
  /\ upload.pc = "undo"
  /\ accounts' = restore.accounts
  /\ Goto("accounts")
  /\ UNCHANGED <<checker, seed, step, serviceVars, secrets, file, restore, historyVars, uploads, restarts>>

\* A new wallet is new again.
RollbackStep ==
  /\ upload.pc = "accounts"
  /\ IF upload.fresh THEN step' = "new" /\ Goto("forget") ELSE UNCHANGED step /\ Goto("failed")
  /\ UNCHANGED <<checker, seed, accounts, serviceVars, secrets, file, restore, historyVars, uploads, restarts>>

RollbackSecrets ==
  /\ upload.pc = "forget"
  /\ secrets' = NoSecrets
  /\ Goto("failed")
  /\ UNCHANGED <<walletVars, serviceVars, file, restore, historyVars, uploads, restarts>>

\* The page has the answer.
UploadReturns ==
  /\ upload.pc \in {"done", "failed"}
  /\ Goto("idle")
  /\ UNCHANGED <<walletVars, serviceVars, secrets, file, restore, historyVars, uploads, restarts>>

\* The service worker is stopped and started.
Restart ==
  /\ restarts < MaxRestarts
  /\ restarts' = restarts + 1
  /\ map' = [s \in Services |-> {}]
  /\ jobs' = [s \in Services |-> NoJob]
  /\ secrets' = NoSecrets
  /\ torn' = (torn \/ upload.pc \in {"stored", "refused"})
  /\ Goto("idle")
  /\ UNCHANGED <<walletVars, store, file, restore, own, kept, uploads>>

-----------------------------------------------------------------------------

\* A new wallet, and a foreign file with or without an entry of each service.
BackupInit ==
  /\ checker = FALSE /\ seed = None /\ accounts = NoAccounts /\ step = "new"
  /\ store = [s \in Services |-> NoData]
  /\ map = [s \in Services |-> {}]
  /\ secrets = NoSecrets
  /\ \E e \in Entries :
       file \in [mnemonic: {Theirs}, owners: {{Theirs}}, entries: [Services -> {{}, {e}}]]
  /\ upload = [pc |-> "idle", fresh |-> FALSE]
  /\ restore = [checker |-> FALSE, seed |-> None, accounts |-> NoAccounts,
                store |-> [s \in Services |-> NoData]]
  /\ jobs = [s \in Services |-> NoJob]
  /\ own = None /\ kept = [s \in Services |-> {}] /\ torn = FALSE
  /\ uploads = 0 /\ restarts = 0

UploadStep ==
  \/ UploadLock \/ UploadLockStep \/ UploadLockUnlock
  \/ UploadWallet \/ UploadSeed \/ UploadInstalled \/ UploadServices \/ AllUploaded \/ StepRefused
  \/ RollbackAccounts \/ RollbackStep \/ RollbackSecrets \/ UploadReturns

BackupNext ==
  \/ Onboard \/ Unlock \/ Download \/ UploadCall \/ Restart
  \/ \E s \in Services, e \in Entries : Add(s, e)
  \/ UploadStep
  \/ \E s \in Services : JobLoaded(s) \/ JobWritten(s) \/ JobReloaded(s)

BackupSpec == BackupInit /\ [][BackupNext]_backupVars

-----------------------------------------------------------------------------
(* Properties. *)

\* What the user has is never lost to an upload: its wallet keeps its password, mnemonic
\* and accounts, and every entry stays in its store under that mnemonic, whether uploads
\* complete, fail and are rolled back under services that still write, or are cut short
\* by a restart (upload, rollback, and the merges of uploadEncryptedStorage).
NothingLost ==
  /\ own # None =>
       checker /\ seed = own /\ own \in accounts.owners /\ accounts.key = own
  /\ \A s \in Services : kept[s] # {} => kept[s] \subseteq store[s].entries /\ store[s].key = own

\* An upload that returns has merged the whole file: every service stores what it had and
\* what the file has, the maps show it, and the wallet holds the key to it.
UploadIsWhole ==
  upload.pc = "done" =>
    /\ file.owners \subseteq accounts.owners
    /\ secrets.mnemonic = seed
    /\ \A s \in Services : file.entries[s] # {} =>
         /\ store[s].entries = restore.store[s].entries \cup file.entries[s]
         /\ store[s].key = seed
         /\ s # "credentials" => map[s] = store[s].entries

\* An upload into a new wallet that fails leaves no mnemonic and no secret, and the password
\* and accounts as they were, so that the wallet can be set up again: unless an earlier upload
\* was stopped when it had stored a mnemonic and not yet the step.  Such a mnemonic outlives
\* every failed upload (rollback, the catch of upload, WalletService.uploadEncryptedStorage).
FailedInstallIsUndone ==
  upload.pc = "failed" /\ upload.fresh =>
    /\ checker = restore.checker /\ seed = restore.seed /\ accounts = restore.accounts
    /\ seed = None \/ torn
    /\ step = "new" /\ secrets = NoSecrets

\* "should rollback to previous storage data properly": once a failed upload and whatever
\* it has started is over, the stores are as they were.
RollbackRestores ==
  upload.pc = "failed" /\ (\A s \in Services : jobs[s].pc = "idle") => store = restore.store
=============================================================================
