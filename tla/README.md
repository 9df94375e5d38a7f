# CryptKeeper extension: specifications and proofs

TLA+ models of the CryptKeeper browser extension: its background script, the
popup that talks to it, and the provider it injects into web pages. TLC
configurations check them, and proofs checked by TLAPS go with them. The
reference is the code under `src/packages`; `background/` and `ui/` below are
those of `src/packages/app/src`.

## 1. The system

CryptKeeper is a browser extension that keeps zero-knowledge identities. Its
background script is a service worker, single threaded and event driven: the
browser hands it a message of a window or of a web page, a chain of handlers
runs to its next `await`, and other messages are handled while it waits. The
browser may stop the worker at any await, and starts it again with empty memory.
All persistent state is in `browser.storage.sync`.

| Component | State | Operations | Interacts with |
|---|---|---|---|
| `services/lock` LockerService | `isUnlocked`, stored password checker | setupPassword, resetPassword, unlock, lock, getStatus, ensure | CryptoService, WalletService, MiscStorage, tabs |
| `services/crypto` CryptoService | secrets: password and mnemonic, in memory | setPassword, setMnemonic, clear, encrypt, decrypt | every service with a store |
| `services/wallet` WalletService | stored accounts and mnemonic | generateMnemonic, generateKeyPair, checkMnemonic, changeMnemonicPassword, signMessage, selectAccount | CryptoService |
| `services/misc` | stored initialization step | get/setInitialization | lock, wallet, backup |
| `services/zkIdentity` | map of identities and its store | unlock, lock, create, import, rename, delete, delete all | Crypto, Wallet, History |
| `services/approval` | map of approved origins and its store | unlock, lock, add, remove, setPermission | Injector, popup |
| `services/connection` | map origin → identity and its store | unlock, lock, connect, disconnect, clear | zkIdentity |
| `services/injector` | none | connect, wait for the unlock | Request manager, approvals, popup |
| `controllers/handler`, `cryptKeeper.ts` | chains of handlers | handle | everything |
| `controllers/requestManager`, `browserUtils` | pending requests, nonce, cached popup | newRequest, finalizeRequest, openPopup, closePopup | windows |
| `services/backup` | none of its own | download, upload, rollback | all stores |
| `services/history` | operations and settings, with stores | load, track, remove, clear | most services |
| `services/credentials` | a store without a map | add, rename, delete, present | requests |
| `services/protocol`, `offscreen` | the offscreen document | generate proofs | requests, zk |
| `services/group`, `bandada`, `validation`, `notification` | none | join, proofs, checks, messages | servers |
| content script, `packages/providers` | promises by nonce | request, events | background |
| `packages/app/src/ui` | pages | what users can ask in which state | background |
| `packages/zk`, `types`, `demo`, `e2e`, `merkle-mock-server` | none | libraries, tests, demonstration | |

What is hard here: many handlers run interleaved with no lock of any kind; what
a handler read before an await may be stale after it; unlock does not wait for
everything it starts; the maps and the stores are kept together only by the
order of calls; the worker may stop between two writes; a write may be rejected
because the item is too large. What makes each component correct:

* lock, secrets and wallet: a locked wallet has no secrets, the password opens
  what is encrypted under it, the mnemonic is that of the accounts, and the
  onboarding is recorded when it is over, also after a restart at any await;
* stores and maps: a store loses and regains no entry that nobody asked about;
  an open and quiet wallet shows what is stored;
* requests and popups: nobody goes on without the user's answer to that very
  request, and the queue has the requests of the handlers that wait, and no others;
* backup: an upload that fails or is cut short loses nothing of the user's;
* history, credentials: what is logged stays logged, a credential store changes by
  one call at a time, and a presentation is what its user chose;
* proofs: the document is there as long as a proof needs it, and no longer;
* pages: no event without a request for it, and a page that waits is answered.

`PROJECT.json` lists every component with its status and every hazard at its line.

## 2. Plan

The order was that of what rests on what; all modules of it are written.

| Step | Module | State |
|---|---|---|
| 1 | `Locker`, `LockerProofs`, `LockerOrderProofs` | checked, all invariants proved, one finding |
| 2 | `Ledger`, `Vault`, `VaultProofs` | checked, all invariants and the refinement proved, one finding |
| 3 | `Requests`, `RequestsProofs` | checked, all invariants proved |
| 4 | `Backup`, `BackupProofs` | checked, all invariants proved, one finding |
| 5 | `Offscreen`, `OffscreenProofs` | checked with liveness, all invariants proved, one finding |
| 6 | `History`, `Credentials`, `Catalog`, `CredentialsProofs` | checked, all invariants and the refinement proved |
| 7 | `Provider`, `Pages`, `PagesProofs` | checked, all invariants proved |

Left: liveness, which is only checked, and the hazards that have a note instead of a property.

## 3. Modules

| Module | What it is | Extends |
|---|---|---|
| `Locker` | the lock, the secrets in memory, the mnemonic and the accounts | |
| `LockerProofs` | theorems about `Locker` | `Locker` |
| `LockerOrderProofs` | those that rest on the order of the replies | `LockerProofs` |
| `Ledger` | abstract specification: what the stores promise | |
| `Vault` | the three stores with maps, composed with the lock by the handler chains | `Locker` |
| `VaultProofs` | theorems about `Vault`, and that it implements `Ledger` | `Vault`, `LockerProofs` |
| `Requests` | requests of sites, the popup and the modals that answer them | |
| `RequestsProofs` | theorems about `Requests` | `Requests` |
| `Backup` | download and upload of a backup, rollback | |
| `BackupProofs` | theorems about `Backup` | `Backup` |
| `Offscreen` | proofs and the offscreen document | |
| `OffscreenProofs` | theorems about `Offscreen` | `Offscreen` |
| `History` | the log of operations and its settings | |
| `Catalog` | abstract specification: a catalogue of named credentials | |
| `Credentials` | the credential store and the page that presents it, with the log | `History` |
| `CredentialsProofs` | theorems about `History` and `Credentials`, and that it implements `Catalog` | `Credentials` |
| `Provider` | the injected provider and the content script | |
| `Pages` | the pages of the popup that answer sites with events | `Provider` |
| `PagesProofs` | theorems about `Provider` and `Pages` | `Pages` |
| `MC*` | symmetry sets and constraints for TLC | the module they are named after |

In all of them one action is one piece of a handler between two awaits, unless
this section says otherwise. The browser takes the storage requests of the
worker in order: a write is in the store, and the value of a read is fixed, when it
is requested; the reply comes later. `Restart` or `RestartWorker` is the end and
the new start of the service worker: memory is empty, what is stored or on the
screen stays.

### Locker

* `disk` is the part of `storage.sync` that belongs to the lock and the wallet. A
  ciphertext is the key it was encrypted under: `checker` is the password of
  the password checker, `seed` the mnemonic and its password, `accounts` the
  mnemonic of the accounts. `step` is the initialization step.
* `unlocked` is `LockerService.isUnlocked`, `secrets` are those of `CryptoService`.
* `calls[w]` is the handler that runs for window `w`: `pc` names the await it is at.
* `replies` is the queue of storage requests. Replies come in its order, each with
  the state that its request found; so a handler may act on a state that has
  changed since. The reply to `Background` is that of `getMnemonic()`, which `unlock`
  starts and does not wait for.
* `interrupted`, `overlapped` and `restarts` are history: which operations a restart cut short, and whether
  two calls of the onboarding have been in progress at once.

Consecutive reads of one handler with no write between them (the two of
`getStatus`, the three of `isAuthentic`, of which the first decides) are merged
into the last one that matters.

The guards of the calls are what the pages allow (`ui/pages/Popup/usePopup.ts`): Login
needs a locked wallet with a password, the onboarding form shows until the wallet is open; Home and
Settings, where one can lock, need a finished onboarding; Recover is reachable
from everywhere. `LOCK` itself is not guarded by `ensure`, so two windows may both lock.
Nothing keeps onboarding calls apart: `onSaveMnemonic` (`ui/pages/GenerateMnemonic/useGenerateMnemonic.ts:54-66`)
returns no promise, so its form is enabled again at once, and the page may be open twice.
`BeginOnboarding` lets them overlap and records it in `overlapped`; what the overlap does to the
mnemonic is finding 4, and the invariants about the onboarding hold until it happens.

### Vault and Ledger

`Vault` extends `Locker` with `store`, `mem` (the maps), `jobs` (the handler of a store that
runs for a window) and the histories `failed` and `crossed`. Entries are identities (by
commitment), approvals (by origin) and connections (by origin, with their identity).
`Save` is `writeIdentities` or `save` of the three services: the map is changed first, then
encrypted and written as a whole, and stays changed when the mnemonic is missing or
the browser rejects the item. `Loaded` replaces a map only when there is an item, as
the code does. `LockMaps` is the tail of the `LOCK` chain, which leaves the connections
alone. `DisconnectDeleted` is the end of the `DELETE_IDENTITY` chain, which finds one
connection. `IdentityPage`, `IdentityItem`, `IdentityList` and `PermissionModal` are the
parts of the user interface that call the handlers.

`Ask` is `ensure`: it looks at `isUnlocked` alone, so a call may run while `UNLOCK` is still to read the
maps, `UNLOCK` may overtake the tail of `LOCK`, and an unlock or a reset may come while a
handler still runs. `crossed` records that one of this has happened, until a restart empties
the maps and begins anew. What it does is real: a create between `isUnlocked = true` and
`loadIdentities` stores a map without the stored identities, and the tail of `LOCK` empties the maps of
an open wallet. `KeepsItsPromise` and `MapsShowStores` therefore hold until calls cross, and again from
the next restart; `LockedForgets` holds whatever crosses.

`Ledger` knows only `contents`, `doubtful` and `open`. A step changes one key of one store while
the wallet is open, wipes a store, records that an operation failed, or opens
or closes. `KeepsItsPromise` says that `Vault` implements it under
`contents <- what is stored`, `doubtful <- failed`, `open <- unlocked`. `doubtful` is weak where the
code is: an operation that failed stays in the map and may be written by
the next one that does not.

### Requests

`RequestManager` (`pending`, `nonce`; ids grow, so a set of requests has their order, and the
first is the one with the least id), `BrowserUtils` (`cached`), the single `unlockCB` of the lock
and of the services with maps (`sleeper`), and the handlers of the tabs (`tasks`). A task
is `run` when its promise is resolved: it goes on before the worker takes the
next event, as microtasks do (`Worker`, `Idling`). Otherwise it waits: for
`windows.create` (`open`) or `update` (`focus`) in `openPopup`, for the popups to hear of the queue
(`push`), for its answer (`wait`), for `windows.remove` (`close`), for a store (`save`), or for the
unlock (`sleep`). `then` is what comes after.

`Connect` is `InjectorService.connect` up to its first await; `AwaitUnlock`, `LookUp`, `AddToQueue`,
`Listen`, `Answered`, `AddHost` and `ConnectRequest` follow. `PrepareSemaphoreProof` and `PrepareRLNProof`
ask for the approval of a proof. `WindowRemoved` is the `onRemoved` listeners of
`BrowserUtils` and of every request, some time after `CloseWindow` or `ClosePopup`. The user
answers the first request of the list the popup has (`view`), which may be older than the queue.

What the code does, and the model with it: a request in a popup that is closed
for another request is refused; a request that is closed, accepted or refused between `AddToQueue` and
`Listen` is never answered, and its handler waits for good (`unheard`); a second `connect` that
waits for the unlock drops the callback of the first, which then never returns; `TickBox` approves
before `Accept`, and a `Reject` leaves it.

### Backup

Stores are sets of entries with the mnemonic that encrypts them; `file` is the
backup. `upload` is where `BackupService.upload` is: the lock, its step, its unlock, the
wallet's accounts, its seed, the step, and then all other services at once, each with a
job of its own (`jobs`), as `Promise.all` has it. Any part of the file may not be
authentic, any write may be over the quota. `Rollback` is the `catch`: it restores
the stores from `restore`, and the jobs that still run go on. `Onboard`, `Unlock` and `Add`
are the rest of the wallet, one step each.

What the code does: a rollback leaves maps and `isUnlocked` as they are; a late job
writes over what was restored, possibly under the foreign mnemonic that the
rollback has just withdrawn; a restart in the middle leaves a password, or a
seed, of an installation that did not happen. A stop between the mnemonic (`UploadSeed`) and the
step (`UploadInstalled`) leaves a new wallet with a mnemonic (`torn`), to which every later failed
upload rolls back.

### Offscreen

`jobs[p]` is where proof `p` is: prepared, before and after `hasDocument`, creating, computing, in
its `finally`. `document` is the browser's single offscreen document, `listening` its message
listener, which removes itself with the first message. `CloseDocument` is the `finally` of
a proof: it closes the document whoever computes in it, and throws when there
is none. `pushMessage` swallows errors, so a proof can end as `undefined`, which the page
takes for success.

### History, Credentials and Catalog

`History` has `settings` and `operations` of the service beside their stores, and the loads of
the windows. `Credentials` reads the whole store (`Request`), checks and writes it (`Read`) and
tracks the operation (`Written`, `Answered`). `got` is the map that a call has read, which another
window may change before it writes. `PresentUnsigned`, `PresentWithMetamask` and `PresentWithCryptkeeper`
are the three buttons of the page; MetaMask answers whenever its user does, also
after a restart or with the wallet locked. `event` is what the active tabs got.

`Catalog` is the abstract specification: named credentials, each operation at
once. `ImplementsCatalog` says that every change of the store is what the catalogue makes of
one call (`Promised`), unless the call writes upon a map that changed since
(`Outdated`): that is lost in the code, and no lock prevents it.

`flawed` is set where the log or the setting is written by one who does not know it: a load
that read an older one, a reset or an upload, which load the settings alone, and
a setting of a locked wallet, to which `ensure` hands `false`.

### Provider and Pages

`Provider` has the nonces and promises of a site's providers and the messages on the
`wire`. A reply with a nonce settles the promises of that nonce in every provider of
the tab; one that was rejected stays in the map. `Dropped` messages are those in
progress at a restart: the content script has no `catch`.

`Pages` composes it with the background page and the popup. `Receive` is a chain from the
access checks (`Passes`) to the popup, `Respond` its end: for these requests the promise is
settled when the popup is there, and what the user does is told by an event
(`PushEvent`). `popup` is the page, whom it is for and what it has shown; `jobs` are its calls.
One action per page says what can be pressed, one per handler what the background page does. `notify` is
the status that is on its way to the pages after a lock or unlock.

What the code does: a presentation needs no approval and opens on a locked
wallet; `Login` closes the popup, and the page that was asked for is not shown; a
group that was joined while the wallet was being locked is not reported, unless the history is
off or not loaded, when nothing is logged and so nothing throws; after
a restart the popup that asks to be closed stays.

## 4. Runs

| Run | Question | Bounds | Distinct states |
|---|---|---|---|
| `locker_windows` | do two windows and a restart at any await keep lock, secrets and ciphertexts together? | 2 windows, 2 passwords, 2 mnemonics, 1 restart | 357,228 |
| `locker_onboarding` | is the mnemonic final once there are accounts? **violated** | 2 windows, 1 password, 2 mnemonics, no restart | until the violation |
| `vault_windows` | do the stores keep what `Ledger` promises, and do the maps follow, until calls cross? | 2 windows, 2 passwords, 2 identities, 1 origin, 1 entry in an item, no restart | 1,426,384 |
| `vault_settings` | also with resets, some of them cut short, and failed unlocks; has an open, quiet wallet its keys? | 1 window, 2 identities, 1 origin, 1 entry in an item, 1 restart | 79,448 |
| `vault_recover` | also after the recovery of a locked wallet? **violated** | 1 window, no restart | until the violation |
| `requests_tabs` | is nobody answered but by the user, and nobody's request, popup or callback left over? | 2 tabs of a site, 3 requests, 2 popups, 1 restart | 3,664,175 |
| `backup_uploads` | is nothing lost to an upload, whatever fails and when? | 3 services, 2 entries, 2 uploads, 1 restart | 2,811,077 |
| `backup_rollback` | does a rollback restore the stores? **violated** | 3 services, 2 entries, 1 upload, no restart | until the violation |
| `offscreen_proofs` | do proofs that share the document end, and does it end with them? | 3 proofs, Chrome and Firefox, 1 restart | 52,870 |
| `offscreen_firefox` | does a proof succeed on Firefox? **violated** | 2 proofs, Firefox, no restart | until the violation |
| `credentials_windows` | is the store a catalogue, the log complete, a presentation what was chosen? | 2 windows, 2 credentials, 1 name, 3 calls, 1 restart, up to the first flaw | 1,192,099 |
| `pages_popup` | do promises, pages and events stay those of the request? | 2 sites, 7 kinds of requests, 2 identities, 2 requests, 1 call of a page, 2 steps elsewhere, 1 second provider, 1 restart | 1,366,322 |

Why the bounds are enough to be interesting: two windows or tabs overlap in
every pair of handlers; two passwords tell a right from a wrong one and an old
from a new one; two mnemonics tell the accounts' from an abandoned one; one restart
falls at every await; an item that holds one
entry of the two there are makes every second write fail. Calls that cross need two windows
(`vault_windows`), which are checked without a restart to keep the run small; that a restart ends what they
did is proved (section 6), and restarts of one window are checked in `vault_settings`. A mnemonic
without its step needs one stop and one failure, which are the restart and the two uploads of
`backup_uploads`. Three requests let a tab ask again
while a popup shows the old request, two popups let one be opened while
another is cached. Three services are one with a map that is changed before it
is written, one that loads it before and after, and one without a map;
`connections` behaves as `approval`, which the module says (`UploadApprovals`). A third proof closes the
document between the other two. Three calls are two that overlap and one that
sees what they left. Two sites tell the right addressee from the wrong one.

`MaxRestarts`, `MaxWindows`, `MaxRequests`, `MaxUploads`, `MaxCalls`, `MaxRemounts`, `MaxSubmits`, `MaxElsewhere` are
the bounds inside the modules, each in the guard of the action it counts, and `Quota` is
the limit of an item. Two runs have a constraint: `Healthy` of `MCCredentials` follows a behaviour up to its first flaw,
after which the properties say nothing; `Bounded` of `MCPages` allows three requests and
disturbances altogether, and a second request of two of the kinds. Symmetry is used in
safety runs only, on sets whose members nothing distinguishes. Liveness is checked
with the fairness of section 5 and without symmetry. Deadlock is checked in
`credentials_windows`; the other systems may stop: when the bounded requests are used up and
the wallet is left alone, nothing has to happen.

Properties:

* `KeysOnlyWhileOpen`, `KeysAreTheWallets`, `OpenHasItsKeys`: the secrets, whatever `unlock` leaves
  running; the first two until onboarding calls overlap. A stronger form of the first (a locked wallet never holds the
  mnemonic) is false: with two unlocks in flight the mnemonic of one is there
  until the password check of the other has ended.
* `SeedMatchesAccounts`, `PasswordPairAgrees`, `StepFollowsAccounts`: pairs of stored items that
  the code writes one after the other. The first and the last hold until onboarding calls
  overlap, the last two except while the operation runs or after a restart inside it; the
  history variables say so. `MnemonicIsFinal` is the claim of a test and is violated.
* `KeepsItsPromise`, `MapsShowStores`, `LockedForgets`: see `Ledger` and `Vault`; the first two until calls
  cross, and again from the next restart.
* `Consent`: a handler goes on only with an accepted request of its own tab, also when a
  popup survives a restart that starts the nonces over. `QueueIsAlive`: the queue has
  the requests of the handlers that wait, and no others; a handler whose request left the queue
  before it listened is the exception, and is lost. `CachedIsReal`: the cached popup is there, or about to be
  forgotten. `CallbacksWake`: the callback of a service is that of a handler that waits.
* `NothingLost`: what the user has, under the user's mnemonic, through any two
  uploads. `UploadIsWhole`: an upload that returns has merged everything. `FailedInstallIsUndone`: one
  that fails on a new wallet leaves password and accounts as they were, no secret, and no mnemonic
  but one that an earlier upload was stopped over. `RollbackRestores` is the claim of a test
  and is violated.
* `AloneProves`, `DocumentIsClosed`, `ProofsReturn`: a proof that shares the document with nobody
  succeeds; the document goes with the last proof; every proof that the user has approved, or need
  not, is answered. `FirefoxProves` is
  the claim of a test and is violated.
* `HistoryKept`, `SettingObeyed`: the log and its setting, up to a flaw. `ImplementsCatalog` and
  `PresentsAsSigned`: see `Credentials`.
* `RepliesMatch`: a promise gets the reply to its own request unless the page made a second
  provider. `AnswersWereAsked`: an event addressed to an origin, a rejection included,
  answers a request of that origin; events of credentials and presentations, which go to the active
  tabs, answer a request of some site, and nothing says that it is the one that hears them.
  `RevealsWhatWasShown`: the commitment is that of the identity on the page, unless the connection
  changed. `LockReachesPages`: pages of an open wallet do not stay on a locked one. `WaitingIsAnswered`:
  a page that waits has a call in progress.

### Findings

1. `resetPassword` opens the lock (`background/services/lock/index.ts:76-80`), but its chain
   (`background/cryptKeeper.ts:180`) does not unlock the approvals, identities and connections
   as that of `UNLOCK` does (155-165). The wallet is open with empty maps, and the next
   identity, connection or approval writes such a map over its store. The page
   (`ui/pages/Recover/Recover.tsx:28-33`) is titled "Recover access", and the end-to-end test
   (`packages/e2e/tests/recover.test.ts:7`) is "should recover access properly"; it
   locks and unlocks the wallet again, which loads the maps, before it looks at
   anything. `vault_recover` shows the loss: unlock, create an identity, lock, recover, create
   another one. In the settings of an open wallet (`vault_settings`) the maps are
   loaded already and a reset is harmless.
2. `upload` rejects with the first service that fails (`background/services/backup/BackupService.ts:99`),
   and its rollback does not wait for the others. The test
   (`background/services/backup/__tests__/BackupService.test.ts:176`) is "should rollback to previous storage data properly", with
   services that answer at once. `backup_rollback` shows one that answers later: its
   write survives the rollback. `backup_uploads` shows how far it goes: entries of the
   file may stay in a store, but nothing of the user's is lost.
3. The `finally` of a proof closes the offscreen document on every platform
   (`background/services/protocol/ProtocolService.ts:84`), through `chrome.offscreen`, which Firefox does not have. The
   test (`background/services/protocol/__tests__/protocol.test.ts:175`) is "should generate semaphore proof properly
   on firefox platform browsers", and mocks the function that throws. `offscreen_firefox` shows
   that the page gets the error in place of its proof.
4. `generateMnemonic` looks for accounts (`background/services/wallet/index.ts:49`) and writes its mnemonic two
   storage requests later (63). The test (`background/services/wallet/__tests__/walletService.test.ts:170`) is
   "should throw an error if key pair is already created". `locker_onboarding` shows a `saveMnemonic` that
   stores the accounts in between: the wallet ends up with accounts of one mnemonic and another
   one stored and in memory, and a later unlock loads the wrong key.

## 5. Assumptions

* Storage answers in the order of the requests in `Locker` and `Vault` (one storage area, one
  client); in `Backup`, `History` and `Credentials` replies may come in any order, though a read has
  the value at its request. Of two reads of one handler without a write between
  them, one is left out.
* Login shows while the wallet is locked (`~unlocked` in `UnlockCall`); the call of a second
  window may still be on its way.
* In `Vault`, the onboarding is over, and there is one mnemonic: `Locker` shows and
  `LockerProofs` proves that the mnemonic in memory is that of the accounts
  (`KeysAreTheWallets`), if no two calls of the onboarding overlapped.
* The quota of `storage.sync` is counted in entries in `Vault` (`Quota`); in `Backup` any write may be
  over it.
* `ResetWhen` says in which wallets the user resets the password, by whether the mnemonic is in
  memory: `{TRUE}` from the settings, `{TRUE, FALSE}` recovery too. In `vault_windows` nobody
  does.
* In `Requests`, tabs show one site and ask one thing at a time, and locks and unlocks of
  the wallet do not overlap.
* In `Backup`, nobody else writes during an upload (`Quiet`); the code does not prevent it, and a
  change under an upload may be lost. Passwords of the wallet and the file are right or
  refused.
* In `Offscreen`, a message whose document is closed is answered with `undefined`, as browsers do when
  the other end is gone.
* In `Credentials`, one presentation is on the screen at a time, as `BrowserUtils` opens one popup.
* In `Pages`, every site is approved, and the popup opens in one step: what may come between
  is in `Requests`.
* Fairness: `ProofFairness` is weak fairness of each proof's next step, but for one that waits for its user
  (`AwaitsUser`): a user need not answer, and a popup that was answered too early never returns
  (`Requests`). The browser answers every request, the event loop runs every resumed handler, the
  zk services return; a restart ends a call too. Nothing is assumed of when users ask for
  something.

## 6. Proofs

`LockerProofs` proves for every set of windows, passwords and mnemonics and every
bound on restarts, from `ConstantsAssumption` alone (`None` is no password and no mnemonic,
`Background` is no window):

* `InvariantHolds`: `LockerSpec => [](overlapped \/ LockerInv)`; the types hold whatever overlaps;
* `TypesHold`, `KeysStayInAnOpenWallet`, `SeedStaysTheAccounts`, `KeysStayTheWallets`: the invariants
  `LockerTypeOK`, `KeysOnlyWhileOpen`, `SeedMatchesAccounts`, `KeysAreTheWallets` of the run `locker_windows`.

The invariants are not inductive. `SaveMnemonicAccounts` writes accounts for a mnemonic
that was read two awaits before, so `SeedMatchesAccounts` needs that the seed has not
changed since; that needs that only onboarding calls change it while there are
no accounts, and that no two of them have overlapped; `MnemonicLoaded` sets a mnemonic
from a reply nobody waits for, so `KeysAreTheWallets` needs that every such reply in
the queue carries the accounts' mnemonic. `LockerInv` adds:

* `PcFollowsOp`, `OneOnboardingCall`, `OnboardingIsOpen`: which calls can be where, and that the
  wallet stays open and unfinished under an onboarding call;
* `RepliesAreAwaited`: a window has at most one reply in the queue, and waits for it;
* `RepliesAreFresh`: what the replies in the queue say of accounts and mnemonic is still so,
  or can no longer matter;
* `CallsKnow`: what the calls have read and rely on is still so;
* `FinishedHasAccounts`: a finished onboarding has accounts.

The proof follows the shape of the handlers. `BeginKeeps`, `AwaitKeeps` and `ReturnKeeps` say
what a piece of a handler must do to keep the invariant when it starts,
waits again or returns; they carry the reasoning on the queue. There is
then one lemma per operation with a step per action.

`LockerOrderProofs` goes on from `LockerInv`, for the pairs of items that a handler writes one
after the other with an await between them:

* `OrderIsKept`: `LockerSpec => [](overlapped \/ (LockerInv /\ OrderInv))`;
* `PasswordsStayPaired`, `StepsFollowAccounts`: the invariants `PasswordPairAgrees` and
  `StepFollowsAccounts` of `locker_windows`, for any number of windows, the first of them only until
  onboarding calls overlap, beyond which it is only model-checked;
* `OneWindowKeepsItsKeys`: the invariant `OpenHasItsKeys` of `vault_settings`, whose wallet
  has one window, for any passwords, mnemonics and restarts, and from the onboarding on, which the
  run takes for done.

Two resets of different windows may run at once, and the password checker and the mnemonic
they leave must be of the same one. They are because replies come in the order of the
requests: of two handlers that each have a write to go, the one that asked first goes first, so the
last to write the mnemonic is also the last to write the checker (`LastSeedIsTyped`,
`CheckerIsComing`). The same order keeps an unlock that began earlier from clearing the password
under an onboarding call (`ChecksComeFirst`, `LastAuthIsKept`), and the mnemonic from
changing between the writes of the accounts and of the step (`SavesComeFirst`,
`SavedIsInMemory`). `OrderInv` therefore speaks of the places of the queue, and the proof of what a handler
does to it is in two parts: what becomes of each place (`Shifted` when a reply is taken,
`Joined` when a call begins), with one lemma per conjunct, and what each action writes.

`OpenHasItsKeys` is false with two windows: an unlock with a wrong password, sent
before the wallet was opened from the other window and checked after it, clears the secrets of the open wallet. With one window
`KeysInv` holds: the queue is at most the reply with the mnemonic and the window's own
(`QueueIsFresh`), the password in memory is that of the lock (`PasswordIsKept`), and the mnemonic is there
or has been asked for with a password that decrypts it (`MnemonicIsKept`).

`VaultProofs` proves for every set of windows, passwords, mnemonics, identities and origins, every
quota and any number of restarts, from `ConstantsAssumption`, `VaultAssumption` and
`StoresAssumption` (`None`, which stands for a missing item, is not a set of entries):

* `VaultInvHolds`: `VaultSpec => [](crossed \/ VaultInv)`;
* `VaultTypesHold`, `LockingForgets`: the invariants `VaultTypeOK` and `LockedForgets` of `vault_windows`, the
  second until calls cross, beyond which it is only model-checked;

and, if the password is reset only in a wallet that has its key (`FALSE \notin ResetWhen`, as in
`vault_windows` and `vault_settings`):

* `MapsInvHolds`: `VaultSpec => [](crossed \/ MapsInv)`;
* `MapsShowWhatIsStored`: the invariant `MapsShowStores` of `vault_windows`;
* `VaultKeepsItsPromise`: `VaultSpec => KeepsItsPromise`, the refinement.

The hypothesis is what the finding of `vault_recover` is about: a wallet that is recovered gets its
key without reading its stores, and the next save writes the empty map.

`HandlerStep` is what all handlers of the stores have in common: one goes on from the queue,
with the reply it waited for taken out (`AtWork`), asks at most once (`Runs`), and leaves the maps
alone, clears a store, or changes a map for the sake of one entry and saves it or fails
(`MapStep`). `StoreCallRuns` and `StoreStepRuns` show that every action is such a step, so that each
invariant is proved for one step instead of nineteen. `AtLock` and `CallKeeps` do the same for the
calls of the lock.

`crossed` is false again after a restart, so each of these holds until calls cross, and from the next
restart on: `RestartVault` establishes the invariants from nothing but the types, which hold always.

`VaultInv` says who is alone while nothing has crossed: a lock, an unlock or a reset runs beside no other of them, an
unlock or reset beside no handler of a store (`OneAtATime`), and its reply is the last in the
queue (`UnlockIsLast`), so no mnemonic arrives after an unlock has failed to read a store.
`MapsInv` says of each store that its map agrees with it but for what could not be saved (`Agree`), or
that there is no key and none is coming (`Keyless`), or that an unlock is still to read it
(`Unread`). A handler that can save has the key, and no unlock runs beside it, so it finds the map
in agreement: what it writes differs from the store only in its own entry and those in
doubt, which is a `Change` of `Ledger`. `NoSurplus`, that a map never has more than the store but
for those, makes an unlock right that finds no item and leaves the map as it is.

`OffscreenProofs` proves for every set of proofs and every bound on restarts, from
`OffscreenAssumption` alone (browsers are `"chrome"` or `"firefox"`):

* `OffscreenInvHolds`: `OffscreenSpec => []OffscreenInv`;
* `OffscreenTypesHold`, `DocumentGetsClosed`, `AloneAlwaysProves`: the invariants `OffscreenTypeOK`,
  `DocumentIsClosed` and `AloneProves` of the run `offscreen_proofs`.

`AloneProves` speaks of a proof that is over, and nothing in such a state says why it
succeeded; `DocumentIsClosed` needs that a job in its `finally` on Firefox has no document to leave
open. `OffscreenInv` adds:

* `NoDocumentOnFirefox`: no document and no job on its way to one;
* `SharersAreKnown`: of two proofs in progress both are in `shared`, and so are those beside an
  orphaned document;
* `AloneKnows`: what the document is at each await of a proof outside of `shared`.

There is one lemma per action (`PrepareFailsKeeps` to `RestartKeeps`) with a step per conjunct. Steps
of other proofs cannot disturb one that is alone, since by `SharersAreKnown` they would be in
progress beside it.

`CredentialsProofs` proves for every set of windows, credentials and names, from
`CredentialsAssumption` (`None` is no name):

* `CredentialsInvHolds`: `Spec => []CredentialsInv`;
* `CredentialsTypesHold`, `LogIsKept`, `SettingIsObeyed`, `TabsGetWhatWasSigned`: the invariants
  `CredentialsTypeOK`, `HistoryKept`, `SettingObeyed`, `PresentsAsSigned` of the run `credentials_windows`;
* `CatalogIsImplemented`: `Spec => ImplementsCatalog`, the refinement.

The run stops at the first flaw of the log (`Healthy`); the theorems do not. `HistoryKept` is about
the store, which is written from the memory: `KeptInMemory` says that a log which has been
loaded holds what is owed. `CallsAreSound` says of every call what it may still write or hand
out. The refinement has two steps: only a call that goes on after its read changes the
store (`OnlyReadsChange`), and unless another one wrote in between, it makes the change of
the catalogue for the very call it is (`ReadKeepsPromise`).

`PagesProofs` proves for every set of sites, identities and kinds of requests, from
`ProviderAssumption` and `PagesAssumption`:

* `PagesInvHolds`: `Spec => []PagesInv`;
* `PagesTypesHold`, `RepliesFindTheirPromise`, `EventsAnswerRequests`, `ShownIsRevealed`,
  `LockReachesThePopup`, `PagesAreAnswered`: the invariants `PagesTypeOK`, `RepliesMatch`, `AnswersWereAsked`,
  `RevealsWhatWasShown`, `LockReachesPages`, `WaitingIsAnswered` of the run `pages_popup`.

`NoncesCountUp` says that what is on the wire or promised is older than the next nonce of a
site with one provider; with it a new request cannot meet an old reply. `PopupWasAsked`
and `JobsWereAsked` carry from the request to the page, and from the page to its call, that
a site asked; `ShownIsConnected` and `RevealIsForTheSite` that the identity a page shows is still that
of the connection, or that the connection has changed since.

`RequestsProofs` proves for every set of tabs and any number of requests, popups and
restarts, from `RequestsAssumption` (`None` and `Ui` are no tabs, `None` no window, and not the
user interface):

* `RequestsInvHolds`: `RequestsSpec => []RequestsInv`;
* `RequestsTypesHold`, `UserConsents`, `QueueHasItsHandlers`, `CacheIsSound`, `CallbacksHaveSleepers`: the
  invariants `RequestsTypeOK`, `Consent`, `QueueIsAlive`, `CachedIsReal`, `CallbacksWake` of `requests_tabs`.

`Consent` is the hard one: a popup that survives a restart shows requests whose numbers the
new worker gives out again. `ViewIsCurrent` says that whenever a handler waits for an answer
the popups have heard of this worker's queue; `IdsAreUnique` and `NonceIsBounded` that no two
requests of one worker share a number; `TasksFit` what each handler knows at its await; `OneSleeper` and
`AcceptedByUser` that an unlock wakes each handler once, and that what goes on was accepted.

`BackupProofs` proves for every set of services (of the four there are), of entries and any number of
uploads and restarts, from `BackupAssumption`:

* `BackupInvHolds`: `BackupSpec => []BackupInv`;
* `BackupTypesHold`, `UploadsLoseNothing`, `UploadMergesAll`, `NewWalletStaysNew`: the invariants `BackupTypeOK`,
  `NothingLost`, `UploadIsWhole`, `FailedInstallIsUndone` of the run `backup_uploads`.

`UploadFits` says how far an upload has come at each of its awaits; `Restorable` that what a
rollback would restore has all the user had, as long as it may be restored, and no mnemonic in a new
wallet that is not `torn`; `JobsFit`
what the jobs of the services may still write, those of an upload included that was
rolled back while they ran; `MapsFit` and `WalletIsWhole` what the maps and the wallet hold meanwhile;
`MergedSoFar` what has been merged, job by job.

The proofs changed the models in three places, none of them behaviour that TLC had reached:
`StoresAssumption` says that `None` is not a set of entries, without which a store with some
entries could not be told from one without an item; `RequestsAssumption` now says that `None` is
not the user interface, without which the callback of the lock could not be told from none, and
the sets of routes and views of `Pages` have names, which `PagesAssumption` relates to the kinds
of requests.

Every invariant and both refinements that a passing run checks are proved. The four violated
claims are shown by their counterexamples. Liveness (`ProofsReturn`) stays with
TLC: it needs fairness and `ENABLED`, which the prover cannot treat.

## 7. Not modelled

* Names, metadata, permissions and other values that no property tells apart; layout,
  forms and styling of the user interface; wallet connectors and the account that is
  selected, which are written and read without interplay with the rest.
* Notifications: they are shown and nothing depends on them.
* `types`, `config` and the manifest: declarations and tables. The largest file of the repository,
  `config/chains.ts`, is a list of networks.
* The cryptography behind `packages/zk` and of `CryptoService`: third-party libraries; here a
  computation succeeds or throws, and a ciphertext is its key. `artifact.ts` checks the form of a path.
* The access check of `Handler` by sender: every message of a site comes through the provider.
* Keep-alive and the update of the extension; a stop of the worker is a restart.
* `packages/demo`, `e2e` and `merkle-mock-server` are not part of the extension. The requests that the
  demonstration makes are those of `SiteStep`.
