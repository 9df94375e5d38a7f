------------------------------- MODULE Locker -------------------------------
(***************************************************************************)
(* The lock of the wallet: LockerService, the secrets of CryptoService,    *)
(* the mnemonic half of WalletService and the initialization step of       *)
(* MiscStorageService, in packages/app/src/background/services.            *)
(*                                                                         *)
(* The background script is single threaded: a handler runs to its next    *)
(* await, and other handlers run while it waits.  Each action below is one *)
(* such piece of a handler, from the storage reply that resumes it to the  *)
(* next storage request.  The browser executes storage requests in the     *)
(* order in which they are made and answers them in that order, so         *)
(* `replies' is a queue, and a request takes effect when it is made.       *)
(*                                                                         *)
(* A ciphertext is modelled by the key it was encrypted under.  Decrypting *)
(* it with another key throws or yields a text that no caller accepts.     *)
(***************************************************************************)
EXTENDS Naturals, Sequences

CONSTANTS
  Windows,      \* UI windows; each waits for the answer to its last call
  Passwords,
  Mnemonics,
  None,         \* an absent secret or ciphertext
  Background,   \* addressee of the reply nobody awaits in unlock
  MaxRestarts   \* bound: how often the service worker is restarted

ASSUME ConstantsAssumption ==
  /\ None \notin Passwords \cup Mnemonics
  /\ Background \notin Windows
  /\ MaxRestarts \in Nat

VARIABLES
  disk,         \* browser.storage.sync
  unlocked,     \* LockerService.isUnlocked
  secrets,      \* CryptoService.secrets
  calls,        \* calls[w]: the handler that runs for window w
  replies,      \* storage requests that are not answered yet, oldest first
  interrupted,  \* history: operations that a restart cut short
  overlapped,   \* history: two onboarding calls have been in progress at once
  restarts      \* history: restarts so far

lockerVars == <<disk, unlocked, secrets, calls, replies, interrupted, overlapped, restarts>>

-----------------------------------------------------------------------------
(* Types. *)

Password == Passwords \cup {None}
Mnemonic == Mnemonics \cup {None}

\* `checker' is the password the checker text is encrypted under, `seed' the
\* stored mnemonic and the password it is encrypted under, `accounts' the
\* mnemonic the accounts are derived from and encrypted under.
Disk == [checker: Password, seed: [mnemonic: Mnemonic, password: Password],
         accounts: Mnemonic, step: {"new", "password", "mnemonic"}]

Onboarding == {"setupPassword", "generateMnemonic", "saveMnemonic"}
Ops == Onboarding \cup {"none", "unlock", "lock", "resetPassword"}

Pcs == {"idle", "status", "auth", "unlocked", "notify", "locked",
        "setup-check", "setup-write", "setup-step", "reset-check", "reset-seed",
        "gen-accounts", "gen-seed", "gen-write", "save-seed", "save-accounts",
        "save-write", "save-select", "save-step"}

Call == [op: Ops, pc: Pcs, password: Password, mnemonic: Mnemonic, generated: BOOLEAN]

NewCall(op, pc, p, m) ==
  [op |-> op, pc |-> pc, password |-> p, mnemonic |-> m, generated |-> FALSE]

Idle == NewCall("none", "idle", None, None)

Cleared == [password |-> None, mnemonic |-> None]

LockerTypeOK ==
  /\ disk \in Disk
  /\ unlocked \in BOOLEAN
  /\ secrets \in [password: Password, mnemonic: Mnemonic]
  /\ calls \in [Windows -> Call]
  /\ replies \in Seq([to: Windows \cup {Background}, disk: Disk])
  /\ interrupted \subseteq Ops
  /\ overlapped \in BOOLEAN
  /\ restarts \in 0..MaxRestarts

-----------------------------------------------------------------------------
(* Storage requests and the queue of their replies. *)

Reply(to) == [to |-> to, disk |-> disk']
Turn(to) == replies # <<>> /\ Head(replies).to = to
Got == Head(replies).disk

\* A window with no call in progress starts one, up to its first request.
Begin(w, call) ==
  /\ calls[w] = Idle
  /\ calls' = [calls EXCEPT ![w] = call]
  /\ replies' = Append(replies, Reply(w))

Resumed(w, pc) == Turn(w) /\ calls[w].pc = pc

\* The resumed handler makes its next request ...
Await(w, pc) ==
  /\ calls' = [calls EXCEPT ![w].pc = pc]
  /\ replies' = Append(Tail(replies), Reply(w))

\* ... or returns, normally or by an exception.
Return(w) ==
  /\ calls' = [calls EXCEPT ![w] = Idle]
  /\ replies' = Tail(replies)

LeaveHistory == UNCHANGED <<interrupted, overlapped, restarts>>

-----------------------------------------------------------------------------
(* unlock(password), also the last part of setupPassword and resetPassword. *)

\* LockStatus.isInitialized, which decides between Onboarding and Login.
IsInitialized == disk.checker # None \/ disk.step # "new"

\* The Login page leaves the screen when notifyStatusChange says `unlocked', but
\* the call of a second window may already be on its way.
UnlockCall(w, p) ==
  /\ ~unlocked
  /\ IsInitialized
  /\ UNCHANGED <<disk, unlocked, secrets>>
  /\ Begin(w, NewCall("unlock", "status", p, None))
  /\ LeaveHistory

\* getStatus has answered: the password becomes the secret before it is checked.
UnlockStatus(w) ==
  /\ Resumed(w, "status")
  /\ UNCHANGED <<disk, unlocked>>
  /\ secrets' = [secrets EXCEPT !.password = calls[w].password]
  /\ calls' = [calls EXCEPT ![w].pc = "auth", ![w].generated = Got.step = "mnemonic"]
  /\ replies' = Append(Tail(replies), Reply(w))
  /\ LeaveHistory

IsAuthentic(w) == Got.checker = calls[w].password

\* Mutant: the mnemonic is not loaded.
UnlockWithoutMnemonic(w) ==
  /\ Resumed(w, "auth")
  /\ IsAuthentic(w)
  /\ unlocked' = TRUE
  /\ UNCHANGED <<disk, secrets>>
  /\ calls' = [calls EXCEPT ![w].pc = "unlocked"]
  /\ replies' = Tail(replies)
  /\ LeaveHistory

\* The mnemonic is requested, but unlock does not wait for it.
UnlockSucceeds(w) ==
  /\ Resumed(w, "auth")
  /\ IsAuthentic(w)
  /\ unlocked' = TRUE
  /\ UNCHANGED <<disk, secrets>>
  /\ calls' = [calls EXCEPT ![w].pc = "unlocked"]
  /\ replies' = IF calls[w].generated THEN Append(Tail(replies), Reply(Background))
                                      ELSE Tail(replies)
  /\ LeaveHistory

\* Mutant: a wrong password is kept.
UnlockFailsKeeping(w) ==
  /\ Resumed(w, "auth")
  /\ ~IsAuthentic(w)
  /\ UNCHANGED <<disk, unlocked, secrets>>
  /\ Return(w)
  /\ LeaveHistory

UnlockFails(w) ==
  /\ Resumed(w, "auth")
  /\ ~IsAuthentic(w)
  /\ secrets' = Cleared
  /\ UNCHANGED <<disk, unlocked>>
  /\ Return(w)
  /\ LeaveHistory

\* Mutant: the item is taken for the mnemonic, without decryption.
MnemonicLoadedRaw ==
  /\ Turn(Background)
  /\ secrets' = [secrets EXCEPT !.mnemonic = Got.seed]
  /\ replies' = Tail(replies)
  /\ UNCHANGED <<disk, unlocked, calls>>
  /\ LeaveHistory

\* getMnemonic().then(setMnemonic): without the right password it rejects.
MnemonicLoaded ==
  /\ Turn(Background)
  /\ secrets' = IF secrets.password # None /\ secrets.password = Got.seed.password
                THEN [secrets EXCEPT !.mnemonic = Got.seed.mnemonic]
                ELSE secrets
  /\ replies' = Tail(replies)
  /\ UNCHANGED <<disk, unlocked, calls>>
  /\ LeaveHistory

-----------------------------------------------------------------------------
(* lock() *)

\* Home and Settings, where the user can lock, need a finished onboarding.
\* LOCK does not ensure that the wallet is unlocked: two windows may both lock it.
LockCall(w) ==
  /\ disk.step = "mnemonic"
  /\ unlocked' = FALSE
  /\ secrets' = Cleared
  /\ UNCHANGED disk
  /\ Begin(w, NewCall("lock", "notify", None, None))
  /\ LeaveHistory

\* notifyStatusChange has the status and waits for the windows and tabs it tells.
LockNotified(w) ==
  /\ Resumed(w, "notify")
  /\ calls' = [calls EXCEPT ![w].pc = "locked"]
  /\ replies' = Tail(replies)
  /\ UNCHANGED <<disk, unlocked, secrets>>
  /\ LeaveHistory

\* The handler chain is done and the window has its answer.  A completed
\* resetPassword has written both ciphertexts again.
Answer(w) ==
  /\ calls[w].pc \in {"unlocked", "locked"}
  /\ calls' = [calls EXCEPT ![w] = Idle]
  /\ interrupted' = IF calls[w].op = "resetPassword" THEN interrupted \ {"resetPassword"}
                                                     ELSE interrupted
  /\ UNCHANGED <<disk, unlocked, secrets, replies, overlapped, restarts>>

-----------------------------------------------------------------------------
(* setupPassword(password) *)

\* Nothing keeps a page from a second onboarding call: onSaveMnemonic returns no promise
\* to the form, which is enabled again at once, and another window may show it as well.
NoOnboardingCall == \A v \in Windows : calls[v].op \notin Onboarding

BeginOnboarding(w, call) ==
  /\ UNCHANGED <<disk, unlocked, secrets, interrupted, restarts>>
  /\ overlapped' = (overlapped \/ ~NoOnboardingCall)
  /\ Begin(w, call)

\* A page that asks for a password stays until it hears that the wallet is open, also
\* when another one has set a password in the meantime.
OnboardingForm == ~unlocked

SetupPasswordCall(w, p) ==
  /\ OnboardingForm
  /\ BeginOnboarding(w, NewCall("setupPassword", "setup-check", p, None))

\* "Password is already initialized".
SetupPasswordRefused(w) ==
  /\ Resumed(w, "setup-check")
  /\ Got.checker # None
  /\ UNCHANGED <<disk, unlocked, secrets>>
  /\ Return(w)
  /\ LeaveHistory

SetupPasswordWrite(w) ==
  /\ Resumed(w, "setup-check")
  /\ Got.checker = None
  /\ disk' = [disk EXCEPT !.checker = calls[w].password]
  /\ Await(w, "setup-write")
  /\ UNCHANGED <<unlocked, secrets>>
  /\ LeaveHistory

SetupPasswordStep(w) ==
  /\ Resumed(w, "setup-write")
  /\ disk' = [disk EXCEPT !.step = "password"]
  /\ Await(w, "setup-step")
  /\ UNCHANGED <<unlocked, secrets>>
  /\ LeaveHistory

SetupPasswordUnlock(w) ==
  /\ Resumed(w, "setup-step")
  /\ UNCHANGED <<disk, unlocked, secrets>>
  /\ Await(w, "status")
  /\ LeaveHistory

-----------------------------------------------------------------------------
(* resetPassword(mnemonic, password) *)

ResetPasswordCall(w, m, p) ==
  /\ IsInitialized
  /\ UNCHANGED <<disk, unlocked, secrets>>
  /\ Begin(w, NewCall("resetPassword", "reset-check", p, m))
  /\ LeaveHistory

\* checkMnemonic decrypts the accounts with the mnemonic the user typed.
ResetPasswordRefused(w) ==
  /\ Resumed(w, "reset-check")
  /\ Got.accounts # calls[w].mnemonic
  /\ UNCHANGED <<disk, unlocked, secrets>>
  /\ Return(w)
  /\ LeaveHistory

\* Mutant: checkMnemonic is not strict.
ResetPasswordAnySeed(w) ==
  /\ Resumed(w, "reset-check")
  /\ disk' = [disk EXCEPT !.seed = [mnemonic |-> calls[w].mnemonic,
                                    password |-> calls[w].password]]
  /\ Await(w, "reset-seed")
  /\ UNCHANGED <<unlocked, secrets>>
  /\ LeaveHistory

ResetPasswordSeed(w) ==
  /\ Resumed(w, "reset-check")
  /\ Got.accounts = calls[w].mnemonic
  /\ disk' = [disk EXCEPT !.seed = [mnemonic |-> calls[w].mnemonic,
                                    password |-> calls[w].password]]
  /\ Await(w, "reset-seed")
  /\ UNCHANGED <<unlocked, secrets>>
  /\ LeaveHistory

\* Mutant: the password checker is not written again.
ResetPasswordSeedOnly(w) ==
  /\ Resumed(w, "reset-seed")
  /\ secrets' = [secrets EXCEPT !.password = calls[w].password]
  /\ UNCHANGED <<disk, unlocked>>
  /\ Await(w, "status")
  /\ LeaveHistory

\* writePassword is not awaited: its request precedes the first one of unlock.
ResetPasswordChecker(w) ==
  /\ Resumed(w, "reset-seed")
  /\ secrets' = [secrets EXCEPT !.password = calls[w].password]
  /\ disk' = [disk EXCEPT !.checker = calls[w].password]
  /\ Await(w, "status")
  /\ UNCHANGED unlocked
  /\ LeaveHistory

-----------------------------------------------------------------------------
(* generateMnemonic(userMnemonic?) *)

\* The page shows between setupPassword and the end of saveMnemonic.
OnboardingPage == unlocked /\ disk.step # "mnemonic"

\* None asks for a random mnemonic.
GenerateMnemonicCall(w, m) ==
  /\ OnboardingPage
  /\ BeginOnboarding(w, NewCall("generateMnemonic", "gen-accounts", None, m))

\* "Key pair is already generated".
GenerateMnemonicRefused(w) ==
  /\ Resumed(w, "gen-accounts")
  /\ Got.accounts # None
  /\ UNCHANGED <<disk, unlocked, secrets>>
  /\ Return(w)
  /\ LeaveHistory

\* Mutant: accounts that exist already do not matter.
GenerateMnemonicAnyway(w) ==
  /\ Resumed(w, "gen-accounts")
  /\ UNCHANGED <<disk, unlocked, secrets>>
  /\ Await(w, "gen-seed")
  /\ LeaveHistory

GenerateMnemonicLookup(w) ==
  /\ Resumed(w, "gen-accounts")
  /\ Got.accounts = None
  /\ UNCHANGED <<disk, unlocked, secrets>>
  /\ Await(w, "gen-seed")
  /\ LeaveHistory

\* A mnemonic generated earlier is shown again, and nothing changes.
GenerateMnemonicAgain(w) ==
  /\ Resumed(w, "gen-seed")
  /\ Got.seed.mnemonic # None /\ calls[w].mnemonic = None
  /\ UNCHANGED <<disk, unlocked, secrets>>
  /\ Return(w)
  /\ LeaveHistory

\* setMnemonic precedes an encryption that throws when there is no password.
GenerateMnemonicWrite(w, m) ==
  /\ Resumed(w, "gen-seed")
  /\ IF calls[w].mnemonic = None THEN Got.seed.mnemonic = None
                                 ELSE m = calls[w].mnemonic
  /\ secrets' = [secrets EXCEPT !.mnemonic = m]
  /\ IF secrets.password = None
     THEN UNCHANGED disk /\ Return(w)
     ELSE /\ disk' = [disk EXCEPT !.seed = [mnemonic |-> m, password |-> secrets.password]]
          /\ Await(w, "gen-write")
  /\ UNCHANGED unlocked
  /\ LeaveHistory

GenerateMnemonicDone(w) ==
  /\ Resumed(w, "gen-write")
  /\ UNCHANGED <<disk, unlocked, secrets>>
  /\ Return(w)
  /\ LeaveHistory

-----------------------------------------------------------------------------
(* generateKeyPair(), the handler of SAVE_MNEMONIC *)

SaveMnemonicCall(w) ==
  /\ OnboardingPage
  /\ BeginOnboarding(w, NewCall("saveMnemonic", "save-seed", None, None))

\* The stored mnemonic can be decrypted with the password in memory.
CanReadSeed == Got.seed.mnemonic # None /\ Got.seed.password = secrets.password

SaveMnemonicRefused(w) ==
  /\ Resumed(w, "save-seed")
  /\ ~CanReadSeed
  /\ UNCHANGED <<disk, unlocked, secrets>>
  /\ Return(w)
  /\ LeaveHistory

SaveMnemonicRead(w) ==
  /\ Resumed(w, "save-seed")
  /\ CanReadSeed
  /\ UNCHANGED <<disk, unlocked, secrets>>
  /\ calls' = [calls EXCEPT ![w].pc = "save-accounts", ![w].mnemonic = Got.seed.mnemonic]
  /\ replies' = Append(Tail(replies), Reply(w))
  /\ LeaveHistory

\* JSON.parse is given the ciphertext of earlier accounts, and throws.
SaveMnemonicAccounts(w) ==
  /\ Resumed(w, "save-accounts")
  /\ secrets' = [secrets EXCEPT !.mnemonic = calls[w].mnemonic]
  /\ IF Got.accounts # None
     THEN UNCHANGED disk /\ Return(w)
     ELSE /\ disk' = [disk EXCEPT !.accounts = calls[w].mnemonic]
          /\ Await(w, "save-write")
  /\ UNCHANGED unlocked
  /\ LeaveHistory

\* selectAccount reads the accounts back ...
SaveMnemonicSelect(w) ==
  /\ Resumed(w, "save-write")
  /\ UNCHANGED <<disk, unlocked, secrets>>
  /\ Await(w, "save-select")
  /\ LeaveHistory

\* Mutant: the end of the onboarding is not recorded.
SaveMnemonicUnrecorded(w) ==
  /\ Resumed(w, "save-select")
  /\ UNCHANGED <<disk, unlocked, secrets>>
  /\ Await(w, "save-step")
  /\ LeaveHistory

\* ... and needs the mnemonic to decrypt them.
SaveMnemonicStep(w) ==
  /\ Resumed(w, "save-select")
  /\ IF secrets.mnemonic # Got.accounts
     THEN UNCHANGED disk /\ Return(w)
     ELSE /\ disk' = [disk EXCEPT !.step = "mnemonic"]
          /\ Await(w, "save-step")
  /\ UNCHANGED <<unlocked, secrets>>
  /\ LeaveHistory

SaveMnemonicDone(w) ==
  /\ Resumed(w, "save-step")
  /\ UNCHANGED <<disk, unlocked, secrets>>
  /\ Return(w)
  /\ LeaveHistory

-----------------------------------------------------------------------------
(* The browser stops the service worker and starts it again. *)

Restart ==
  /\ restarts < MaxRestarts
  /\ restarts' = restarts + 1
  /\ interrupted' = interrupted \cup ({calls[w].op : w \in Windows} \ {"none"})
  /\ unlocked' = FALSE
  /\ secrets' = Cleared
  /\ calls' = [w \in Windows |-> Idle]
  /\ replies' = <<>>
  /\ UNCHANGED <<disk, overlapped>>

-----------------------------------------------------------------------------

LockerInit ==
  /\ disk = [checker |-> None, seed |-> Cleared, accounts |-> None, step |-> "new"]
  /\ unlocked = FALSE
  /\ secrets = Cleared
  /\ calls = [w \in Windows |-> Idle]
  /\ replies = <<>>
  /\ interrupted = {}
  /\ overlapped = FALSE
  /\ restarts = 0

\* What the windows ask for.
LockerCall(w) ==
  \/ LockCall(w)
  \/ SaveMnemonicCall(w)
  \/ \E p \in Passwords : UnlockCall(w, p) \/ SetupPasswordCall(w, p)
  \/ \E p \in Passwords, m \in Mnemonics : ResetPasswordCall(w, m, p)
  \/ \E m \in Mnemonic : GenerateMnemonicCall(w, m)

\* What the handlers do with the replies.
LockerStep(w) ==
  \/ UnlockStatus(w) \/ UnlockSucceeds(w) \/ UnlockFails(w) \/ LockNotified(w)
  \/ SetupPasswordRefused(w) \/ SetupPasswordWrite(w) \/ SetupPasswordStep(w)
  \/ SetupPasswordUnlock(w)
  \/ ResetPasswordRefused(w) \/ ResetPasswordSeed(w) \/ ResetPasswordChecker(w)
  \/ GenerateMnemonicRefused(w) \/ GenerateMnemonicLookup(w) \/ GenerateMnemonicAgain(w)
  \/ GenerateMnemonicDone(w)
  \/ \E m \in Mnemonics : GenerateMnemonicWrite(w, m)
  \/ SaveMnemonicRefused(w) \/ SaveMnemonicRead(w) \/ SaveMnemonicAccounts(w)
  \/ SaveMnemonicSelect(w) \/ SaveMnemonicStep(w) \/ SaveMnemonicDone(w)

LockerNext ==
  \/ \E w \in Windows : LockerCall(w) \/ LockerStep(w) \/ Answer(w)
  \/ MnemonicLoaded
  \/ Restart

LockerSpec == LockerInit /\ [][LockerNext]_lockerVars

-----------------------------------------------------------------------------
(* Properties. *)

InFlight(op) == \E w \in Windows : calls[w].op = op

Quiet == replies = <<>> /\ \A w \in Windows : calls[w] = Idle

\* What is true of a wallet whose onboarding is done one call at a time ...
LockedIsCleared ==
  ~unlocked => \/ secrets = Cleared
               \/ \E w \in Windows : calls[w].pc \in {"status", "auth"}

OneSeed == disk.accounts # None => disk.seed.mnemonic = disk.accounts

KeysAreTheAccounts == disk.accounts # None => secrets.mnemonic \in {None, disk.accounts}

StepShowsAccounts ==
  \/ InFlight("saveMnemonic") \/ "saveMnemonic" \in interrupted
  \/ disk.accounts # None <=> disk.step = "mnemonic"

\* ... need not be when two of its calls overlap, which nothing prevents: a
\* generateMnemonic that has read no accounts writes its mnemonic after a
\* saveMnemonic has stored the accounts of another one (MnemonicIsFinal, below).
\* The next three properties and StepFollowsAccounts hold until calls overlap.

\* A locked wallet keeps no secret in memory, unless a password is being checked:
\* neither the mnemonic that unlock loads without waiting for it, nor the password
\* it stores before checking it, outlives a lock that comes between the two
\* (lock/index.ts:112-137, 221-226).
KeysOnlyWhileOpen == overlapped \/ LockedIsCleared

\* The accounts belong to the stored mnemonic: whatever resets, unlocks, locks and
\* restarts do between and beside the calls of the onboarding, as long as no two of
\* those overlap, checkMnemonic accepts the mnemonic the wallet shows
\* (wallet/index.ts:48-88, 154-180).
SeedMatchesAccounts == overlapped \/ OneSeed

\* Once there are accounts, the mnemonic in memory, under which every store is
\* encrypted, is theirs: unless onboarding calls overlap, no late reply and no reset
\* brings back an abandoned one (wallet/index.ts:59-62, 80-81, 105-121).
KeysAreTheWallets == overlapped \/ KeysAreTheAccounts

\* The password that opens the lock also decrypts the mnemonic, also when onboarding
\* calls overlap, unless a reset is between its two writes or was cut short there,
\* which a later completed reset repairs (lock/index.ts:64-80).
PasswordPairAgrees ==
  \/ InFlight("resetPassword") \/ "resetPassword" \in interrupted
  \/ disk.seed = Cleared
  \/ disk.seed.password = disk.checker

\* Onboarding is recorded as finished exactly when the accounts exist, unless
\* saveMnemonic is between its two writes, was cut short there, or overlapped with
\* another call of the onboarding (wallet/index.ts:84-87).
StepFollowsAccounts == overlapped \/ StepShowsAccounts

\* When nothing is in progress, an unlocked wallet with one window holds the very secrets
\* its stores are encrypted under, however it was unlocked: by setupPassword, by unlock or
\* by resetPassword (lock/index.ts:64-92, 112-137).  With two it need not: an unlock with a
\* wrong password, sent before the wallet was opened, clears them.
OpenHasItsKeys ==
  Quiet /\ unlocked /\ "resetPassword" \notin interrupted
    => /\ secrets.password = disk.checker
       /\ disk.step = "mnemonic" => secrets.mnemonic = disk.seed.mnemonic

\* Once there is a key pair, no other mnemonic is generated: "should throw an error if
\* key pair is already created" (walletService.test.ts:170).  The check and the write
\* are two storage requests apart, and this is violated when a saveMnemonic stores the
\* accounts between them (wallet/index.ts:49-63, 84).
MnemonicIsFinal ==
  [][disk'.seed.mnemonic # disk.seed.mnemonic => disk.accounts = None]_lockerVars
=============================================================================
