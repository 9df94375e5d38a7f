------------------------------- MODULE Vault --------------------------------
(***************************************************************************)
(* The three encrypted stores of the wallet and their maps in memory:      *)
(* ApprovalService, ZkIdentityService and ConnectionService, composed with *)
(* the lock (Locker) by the handler chains of cryptKeeper.ts.              *)
(*                                                                         *)
(* Each service reads its store into a map when the wallet is unlocked,    *)
(* changes the map, and writes the whole map back.  A store is encrypted   *)
(* under the mnemonic in memory.  The onboarding is over, so by Locker's   *)
(* KeysAreTheWallets that is always the mnemonic of the accounts, and a    *)
(* store can be read and written exactly when there is one in memory.      *)
(*                                                                         *)
(* What keeps the maps and the stores together is that calls do not cross  *)
(* a lock, an unlock or a password reset.  Neither the stores nor the lock *)
(* enforce it: two windows can make such calls, and `crossed' is history   *)
(* of that, the excuse of MapsShowStores and of KeepsItsPromise.           *)
(***************************************************************************)
EXTENDS Locker, FiniteSets

CONSTANTS
  Ids,          \* identities, by commitment
  Origins,      \* web sites
  Quota,        \* how many entries fit into one item of storage.sync
  ResetWhen     \* values of HasKey at which the user resets the password: TRUE in the
                \* settings of an open wallet, FALSE to recover one that is not

ASSUME VaultAssumption == Quota \in Nat /\ ResetWhen \subseteq BOOLEAN

VARIABLES
  store,        \* store[s]: what is stored for service s, None when there is no item
  mem,          \* mem[s]: the map of service s
  jobs,         \* jobs[w]: the handler of a store that runs for window w
  failed,       \* history: failed[s]: entries whose addition or removal failed since
                \* the map and the store of s were last the same
  crossed       \* history: since the last restart a call has crossed a lock, an unlock
                \* or a reset

vaultVars == <<store, mem, jobs, failed>>
vars == <<lockerVars, vaultVars, crossed>>

-----------------------------------------------------------------------------

Services == {"approval", "identity", "connection"}

Identity(i)      == [of |-> "identity", id |-> i, origin |-> None]
Approval(o)      == [of |-> "approval", id |-> None, origin |-> o]
Connection(o, i) == [of |-> "connection", id |-> i, origin |-> o]

Entries == {Identity(i) : i \in Ids} \cup {Approval(o) : o \in Origins}
           \cup {Connection(o, i) : o \in Origins, i \in Ids}

\* None, for a store without an item, is not a set of entries.
ASSUME StoresAssumption == \A S \in SUBSET Entries : S # None

\* The key of an entry in its map: a commitment or an origin.
Key(e) == IF e.of = "identity" THEN e.id ELSE e.origin

SameKey(e) == {f \in Entries : f.of = e.of /\ Key(f) = Key(e)}

Stored(s) == IF store[s] = None THEN {} ELSE store[s]

\* `loads' is the service whose store is being read, `got' what its read returned,
\* and `entry' what the handler works on.
Job == [pc: {"none", "load", "sign", "approve", "written", "deleted", "wipe", "wiped"},
        loads: Services \cup {None}, got: (SUBSET Entries) \cup {None},
        entry: Entries \cup {None}]

NewJob(pc, e) == [pc |-> pc, loads |-> None, got |-> None, entry |-> e]
NoJob == NewJob("none", None)

VaultTypeOK ==
  /\ LockerTypeOK
  /\ store \in [Services -> (SUBSET Entries) \cup {None}]
  /\ mem \in [Services -> SUBSET Entries]
  /\ jobs \in [Windows -> Job]
  /\ failed \in [Services -> SUBSET Entries]
  /\ crossed \in BOOLEAN

-----------------------------------------------------------------------------
(* The pieces handlers are made of. *)

KeepLock == UNCHANGED <<disk, unlocked, secrets, calls, interrupted, overlapped, restarts>>
KeepMaps == UNCHANGED <<store, mem, failed>>

\* LockerService.ensure lets a call pass when the wallet is unlocked, also one that
\* comes while UNLOCK still loads the maps or a password is being reset.
Ask(w) == unlocked /\ calls[w] = Idle /\ jobs[w] = NoJob

\* No call changes the lock.
LockIsStill == \A v \in Windows : calls[v] = Idle

\* Handler w waits for a storage request that it made after those in `queue' ...
Wait(w, job, queue) ==
  /\ jobs' = [jobs EXCEPT ![w] = job]
  /\ replies' = Append(queue, [to |-> w, disk |-> disk])

\* ... or is done.
Done(w, queue) ==
  /\ jobs' = [jobs EXCEPT ![w] = NoJob]
  /\ replies' = queue

ResumedJob(w, pc) == Turn(w) /\ jobs[w].pc = pc

\* CryptoService throws when the mnemonic is not set.
HasKey == secrets.mnemonic # None

\* The map of s becomes `map', for the sake of entry e, and is written as a whole.
\* The map keeps the change when the encryption throws or the browser rejects the
\* item because it is too large.
Save(w, s, map, e, pc, queue) ==
  /\ mem' = [mem EXCEPT ![s] = map]
  /\ LET fits == Cardinality(map) <= Quota
     IN  /\ store' = IF HasKey /\ fits THEN [store EXCEPT ![s] = map] ELSE store
         /\ failed' = [failed EXCEPT ![s] = IF HasKey /\ fits THEN {} ELSE @ \cup {e}]
         /\ IF HasKey THEN Wait(w, NewJob(IF fits THEN pc ELSE "written", e), queue)
                      ELSE Done(w, queue)

\* The last await is over; what the handler does after it changes no map.
Written(w) ==
  /\ ResumedJob(w, "written")
  /\ Done(w, Tail(replies))
  /\ KeepLock /\ KeepMaps

-----------------------------------------------------------------------------
(* UNLOCK, LOCK and RESET_PASSWORD: the lock first, then the maps. *)

\* LOCK can be overtaken by an UNLOCK before it has emptied the maps, and an unlock or
\* a reset can come while a handler of a store still runs.
LockingCall(w) ==
  /\ jobs[w] = NoJob
  /\ \/ /\ \/ \E p \in Passwords : UnlockCall(w, p)
           \/ HasKey \in ResetWhen
              /\ \E m \in Mnemonics, p \in Passwords : ResetPasswordCall(w, m, p)
        /\ crossed' = (crossed \/ ~LockIsStill \/ \E v \in Windows : jobs[v] # NoJob)
     \/ LockCall(w) /\ crossed' = (crossed \/ ~LockIsStill)
  /\ UNCHANGED vaultVars

LockingStep(w) ==
  /\ \/ UnlockStatus(w) \/ UnlockSucceeds(w) \/ UnlockFails(w) \/ LockNotified(w)
     \/ ResetPasswordRefused(w) \/ ResetPasswordSeed(w) \/ ResetPasswordChecker(w)
  /\ UNCHANGED vaultVars

LockingMnemonic == MnemonicLoaded /\ UNCHANGED vaultVars

\* Mutant: a reset empties the maps.
ResetForgets(w) ==
  /\ calls[w].op = "resetPassword" /\ Answer(w)
  /\ mem' = [s \in Services |-> {}]
  /\ UNCHANGED <<store, jobs, failed>>

\* A reset changes no map.
ResetDone(w) == calls[w].op = "resetPassword" /\ Answer(w) /\ UNCHANGED vaultVars

\* LockerService.unlock has returned, and the chain goes on with the stores.
Opened(w) == calls[w].op = "unlock" /\ calls[w].pc = "unlocked" /\ jobs[w] = NoJob

Load(s) == [pc |-> "load", loads |-> s, got |-> store[s], entry |-> None]

LoadFirst(w) ==
  /\ Opened(w)
  /\ Wait(w, Load("approval"), replies)
  /\ KeepLock /\ KeepMaps

\* Mutant: zkIdentity.unlock is not in the chain of UNLOCK.
FollowingWithoutIdentity == [approval |-> "connection", identity |-> "connection"]

Following == [approval |-> "identity", identity |-> "connection"]

\* The map is replaced if there was an item, and the next store is read.
Loaded(w) ==
  LET s == jobs[w].loads
      got == jobs[w].got
  IN  /\ ResumedJob(w, "load")
      /\ got # None => HasKey
      /\ mem' = [mem EXCEPT ![s] = IF got = None THEN @ ELSE got]
      /\ failed' = [failed EXCEPT ![s] = IF got = None THEN @ ELSE {}]
      /\ IF s = "connection"
         THEN Done(w, Tail(replies)) /\ calls' = [calls EXCEPT ![w] = Idle]
         ELSE Wait(w, Load(Following[s]), Tail(replies)) /\ UNCHANGED calls
      /\ UNCHANGED <<disk, unlocked, secrets, interrupted, overlapped, restarts, store>>

\* Without the mnemonic an item cannot be decrypted: UNLOCK fails, half done.
LoadFails(w) ==
  /\ ResumedJob(w, "load")
  /\ jobs[w].got # None /\ ~HasKey
  /\ Done(w, Tail(replies))
  /\ calls' = [calls EXCEPT ![w] = Idle]
  /\ UNCHANGED <<disk, unlocked, secrets, interrupted, overlapped, restarts, store, mem, failed>>

\* Mutant: approval.lock is not in the chain of LOCK.
LockIdentities(w) ==
  /\ calls[w].pc = "locked"
  /\ Answer(w)
  /\ mem' = [mem EXCEPT !["identity"] = {}]
  /\ failed' = [failed EXCEPT !["identity"] = {}]
  /\ UNCHANGED <<store, jobs>>

\* LOCK waits for the active tabs to hear of it.  Then identities and approvals
\* are forgotten; the connections are not.
LockMaps(w) ==
  /\ calls[w].pc = "locked"
  /\ Answer(w)
  /\ mem' = [mem EXCEPT !["identity"] = {}, !["approval"] = {}]
  /\ failed' = [failed EXCEPT !["identity"] = {}, !["approval"] = {}]
  /\ UNCHANGED <<store, jobs>>

-----------------------------------------------------------------------------
(* Identities *)

\* "Identity is already exist" when there is one with this commitment.
InsertIdentity(w, i, queue) ==
  IF Identity(i) \in mem["identity"]
  THEN Done(w, queue) /\ KeepMaps
  ELSE Save(w, "identity", mem["identity"] \cup {Identity(i)}, Identity(i), "written", queue)

\* createIdentity or import.
CreateIdentity(w, i) ==
  /\ Ask(w)
  /\ InsertIdentity(w, i, replies)
  /\ KeepLock

\* A deterministic identity is made from a signature by the accounts, which are
\* read and decrypted first.
CreateSignedIdentity(w, i) ==
  /\ Ask(w)
  /\ Wait(w, NewJob("sign", Identity(i)), replies)
  /\ KeepLock /\ KeepMaps

IdentitySigned(w) ==
  /\ ResumedJob(w, "sign")
  /\ IF HasKey THEN InsertIdentity(w, jobs[w].entry.id, Tail(replies))
               ELSE Done(w, Tail(replies)) /\ KeepMaps
  /\ KeepLock

\* The name is not modelled, but the map is written again.
SetIdentityName(w, i) ==
  /\ Ask(w)
  /\ Identity(i) \in mem["identity"]
  /\ Save(w, "identity", mem["identity"], Identity(i), "written", replies)
  /\ KeepLock

DeleteIdentity(w, i) ==
  /\ Ask(w)
  /\ Identity(i) \in mem["identity"]
  /\ Save(w, "identity", mem["identity"] \ {Identity(i)}, Identity(i), "deleted", replies)
  /\ KeepLock

RemoveConnection(w, c, queue) ==
  Save(w, "connection", mem["connection"] \ {c}, c, "written", queue)

\* The chain of DELETE_IDENTITY ends with disconnect, which finds one connection
\* of the identity, also when there are more.
DisconnectDeleted(w) ==
  LET its == {c \in mem["connection"] : c.id = jobs[w].entry.id}
  IN  /\ ResumedJob(w, "deleted")
      /\ IF its = {} THEN Done(w, Tail(replies)) /\ KeepMaps
                     ELSE \E c \in its : RemoveConnection(w, c, Tail(replies))
      /\ KeepLock

\* ConnectionService.clear first tells every connected origin.
DeleteAllIdentities(w) ==
  /\ Ask(w)
  /\ jobs' = [jobs EXCEPT ![w] = NewJob("wipe", None)]
  /\ UNCHANGED replies
  /\ KeepLock /\ KeepMaps

\* Mutant: the item is removed and the map is not emptied.
ClearStore(w, s, pc, queue) ==
  /\ store' = [store EXCEPT ![s] = None]
  /\ failed' = [failed EXCEPT ![s] = {}]
  /\ UNCHANGED mem
  /\ Wait(w, NewJob(pc, None), queue)

Clear(w, s, pc, queue) ==
  /\ mem' = [mem EXCEPT ![s] = {}]
  /\ store' = [store EXCEPT ![s] = None]
  /\ failed' = [failed EXCEPT ![s] = {}]
  /\ Wait(w, NewJob(pc, None), queue)

WipeConnections(w) ==
  /\ jobs[w].pc = "wipe"
  /\ Clear(w, "connection", "wiped", replies)
  /\ KeepLock

WipeIdentities(w) ==
  /\ ResumedJob(w, "wiped")
  /\ IF mem["identity"] = {} THEN Done(w, Tail(replies)) /\ KeepMaps
                             ELSE Clear(w, "identity", "written", Tail(replies))
  /\ KeepLock

-----------------------------------------------------------------------------
(* Connections and approvals *)

\* An origin has one connection: a new one takes the place of the old.
Connect(w, o, i) ==
  /\ Ask(w)
  /\ Identity(i) \in mem["identity"]
  /\ LET c == Connection(o, i)
     IN  Save(w, "connection", (mem["connection"] \ SameKey(c)) \cup {c}, c, "written", replies)
  /\ KeepLock

\* The page names the identity and not the origin: any connection of the identity
\* may be the one that is found.
Disconnect(w, i) ==
  /\ Ask(w)
  /\ \E c \in mem["connection"] : c.id = i /\ RemoveConnection(w, c, replies)
  /\ KeepLock

\* The user accepts the request of an origin: its connect handler goes on when the
\* popup is closed, and does not look at the lock again.
ApproveCall(w, o) ==
  /\ Ask(w)
  /\ jobs' = [jobs EXCEPT ![w] = NewJob("approve", Approval(o))]
  /\ UNCHANGED replies
  /\ KeepLock /\ KeepMaps

\* Mutant: the map is given the origin, without its permission.
AddBareOrigin(w, e) ==
  Save(w, "approval", mem["approval"] \cup {e.origin}, e, "written", replies)

AddApproval(w, e) ==
  Save(w, "approval", mem["approval"] \cup {e}, e, "written", replies)

Approve(w) ==
  /\ jobs[w].pc = "approve"
  /\ IF jobs[w].entry \in mem["approval"] THEN Done(w, replies) /\ KeepMaps
                                          ELSE AddApproval(w, jobs[w].entry)
  /\ KeepLock

SetPermission(w, o) == Ask(w) /\ AddApproval(w, Approval(o)) /\ KeepLock

RemoveApproval(w, o) ==
  /\ Ask(w)
  /\ Approval(o) \in mem["approval"]
  /\ Save(w, "approval", mem["approval"] \ {Approval(o)}, Approval(o), "written", replies)
  /\ KeepLock

-----------------------------------------------------------------------------

\* The onboarding is over and the wallet is locked.
VaultInit ==
  /\ \E m \in Mnemonics, p \in Passwords :
       disk = [checker |-> p, seed |-> [mnemonic |-> m, password |-> p],
               accounts |-> m, step |-> "mnemonic"]
  /\ unlocked = FALSE
  /\ secrets = Cleared
  /\ calls = [w \in Windows |-> Idle]
  /\ replies = <<>>
  /\ interrupted = {}
  /\ overlapped = FALSE
  /\ restarts = 0
  /\ store = [s \in Services |-> None]
  /\ mem = [s \in Services |-> {}]
  /\ jobs = [w \in Windows |-> NoJob]
  /\ failed = [s \in Services |-> {}]
  /\ crossed = FALSE

\* The maps are read again, whatever calls have crossed before.
RestartVault ==
  /\ Restart
  /\ crossed' = FALSE
  /\ mem' = [s \in Services |-> {}]
  /\ jobs' = [w \in Windows |-> NoJob]
  /\ failed' = [s \in Services |-> {}]
  /\ UNCHANGED store

\* The page of an identity renames and deletes it; so does its item in a list, which
\* disconnects it as well.
IdentityPage(w, i) == SetIdentityName(w, i) \/ DeleteIdentity(w, i)
IdentityItem(w, i) == IdentityPage(w, i) \/ Disconnect(w, i)
IdentityList(w) == \E i \in Ids : IdentityItem(w, i)

\* The permissions of the origin in the active tab.
PermissionModal(w) == \E o \in Origins : SetPermission(w, o) \/ RemoveApproval(w, o)

StoreCall(w) ==
  \/ DeleteAllIdentities(w) \/ IdentityList(w) \/ PermissionModal(w)
  \/ \E i \in Ids : \/ CreateIdentity(w, i) \/ CreateSignedIdentity(w, i)
                    \/ \E o \in Origins : Connect(w, o, i)
  \/ \E o \in Origins : ApproveCall(w, o)

StoreStep(w) ==
  \/ Written(w) \/ Loaded(w) \/ LoadFails(w) \/ IdentitySigned(w)
  \/ DisconnectDeleted(w) \/ WipeConnections(w) \/ WipeIdentities(w) \/ Approve(w)

\* Once LockerService.unlock has returned nothing else runs before the next service
\* of the chain has asked for its store: between them are only resolved promises.
VaultNext ==
  \/ \E w \in Windows : LoadFirst(w) /\ UNCHANGED crossed
  \/ /\ \A w \in Windows : ~Opened(w)
     /\ \/ \E w \in Windows : \/ LockingCall(w)
                              \/ StoreCall(w) /\ crossed' = (crossed \/ ~LockIsStill)
        \/ /\ \/ \E w \in Windows : \/ LockingStep(w) \/ ResetDone(w)
                                    \/ LockMaps(w) \/ StoreStep(w)
              \/ LockingMnemonic
           /\ UNCHANGED crossed
        \/ RestartVault

VaultSpec == VaultInit /\ [][VaultNext]_vars
-----------------------------------------------------------------------------
(* Properties. *)

VaultQuiet == Quiet /\ \A w \in Windows : jobs[w] = NoJob

Promise == INSTANCE Ledger WITH contents <- [s \in Services |-> Stored(s)],
                                doubtful <- failed, open <- unlocked

\* Once a call has crossed a lock, an unlock or a reset, a write may drop entries until the
\* next restart: one between isUnlocked = true and loadIdentities saves a map that has not
\* been read.
PromisedStep == crossed' \/ Promise!LedgerNext

\* The stores keep what Ledger promises, whatever the maps, the lock and the restarts do:
\* a write never drops or brings back an entry that nobody asked about, unless calls
\* have crossed since the last restart (save() in the three services writes whole maps).
KeepsItsPromise == Promise!LedgerInit /\ [][PromisedStep]_(Promise!ledgerVars)

\* When nothing is in progress in an unlocked wallet that has its mnemonic, what
\* the maps show is what the stores hold, except for the entries of operations
\* that failed (loadIdentities, unlock and save of the three services), unless
\* calls have crossed: the end of LOCK empties maps that an UNLOCK has read.
MapsShowStores ==
  crossed \/
  (VaultQuiet /\ unlocked /\ HasKey =>
     \A s \in Services :
       \A e \in (mem[s] \ Stored(s)) \cup (Stored(s) \ mem[s]) :
         SameKey(e) \cap failed[s] # {})

\* When nothing is in progress in a locked wallet, no identity and no approval is
\* left in memory, except those whose saving failed because the lock came first
\* (cryptKeeper.ts:166-171).
LockedForgets ==
  VaultQuiet /\ ~unlocked =>
    \A s \in {"identity", "approval"} : mem[s] \subseteq failed[s]
=============================================================================
