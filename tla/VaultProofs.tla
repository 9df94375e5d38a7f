------------------------------ MODULE VaultProofs ------------------------------
(***************************************************************************)
(* Proofs about Vault, for every set of windows, identities and origins,   *)
(* any quota and any number of restarts.  The invariants and the           *)
(* implementation of Ledger rest on two things: that a handler finds its   *)
(* map in agreement with its store when it can save (MapsInv), and that it *)
(* does one of a few things with them (HandlerStep).  Both need that no    *)
(* call has crossed a lock, an unlock or a reset since the last restart,   *)
(* and the first that the password is reset only in a wallet that has its  *)
(* key: one that is recovered gets the key without reading its stores.     *)
(***************************************************************************)
EXTENDS Vault, LockerProofs

Unlocking == {"unlock", "resetPassword"}

\* A handler of a store in one of these states waits for no reply.
Unasked == {"none", "approve", "wipe"}

\* What a call waits for is a step of its operation.
CallIsInOrder(call) ==
  \/ call.op = "none" /\ call.pc = "idle"
  \/ call.op = "lock" /\ call.pc \in {"notify", "locked"}
  \/ call.op = "unlock" /\ call.pc \in {"status", "auth", "unlocked"}
  \/ call.op = "resetPassword"
     /\ call.pc \in {"reset-check", "reset-seed", "status", "auth", "unlocked"}

CallsFollowOps == \A w \in Windows : CallIsInOrder(calls[w])

\* What the handler of a store works on.
JobIsInOrder(job) ==
  /\ job.pc = "sign" => \E i \in Ids : job.entry = Identity(i)
  /\ job.pc = "approve" => \E o \in Origins : job.entry = Approval(o)
  /\ job.pc = "load" => job.loads \in Services

JobsHaveEntries == \A w \in Windows : JobIsInOrder(jobs[w])

\* A lock, an unlock or a reset has the lock for itself, the last two also the stores.
OneAtATime ==
  \A w \in Windows :
    /\ jobs[w].pc = "load" => calls[w].op = "unlock" /\ calls[w].pc = "unlocked"
    /\ calls[w].op # "none" =>
         /\ \A v \in Windows \ {w} : calls[v].op = "none"
         /\ jobs[w].pc \in {"none", "load"}
    /\ calls[w].op \in Unlocking => \A v \in Windows \ {w} : jobs[v].pc = "none"

\* A reply is for a window that waits for it, or for the mnemonic.
RepliesHaveTakers ==
  \A i \in 1..Len(replies) : replies[i].to \in Windows =>
    /\ calls[replies[i].to].pc \notin Resting \/ jobs[replies[i].to].pc \notin Unasked
    /\ \A j \in 1..Len(replies) : replies[j].to = replies[i].to => i = j

\* What an unlock waits for is last in the queue: nothing is asked after it.
UnlockIsLast ==
  \A w \in Windows : calls[w].op \in Unlocking =>
    \A i \in 1..Len(replies) : replies[i].to = w => i = Len(replies)

LockIsDone ==
  \A w \in Windows :
    /\ calls[w].op = "lock" => secrets = Cleared /\ ~unlocked
    /\ calls[w].pc = "unlocked" => unlocked

\* What was read of a store is still there.
LoadsAreFresh ==
  \A w \in Windows : jobs[w].pc = "load" => jobs[w].got = store[jobs[w].loads]

\* In a locked wallet the maps only have what late handlers failed to save.
MapsAreForgotten ==
  ~unlocked /\ (\A w \in Windows : calls[w].op # "lock") =>
    \A s \in {"identity", "approval"} : mem[s] \subseteq failed[s]

VaultInv ==
  /\ VaultTypeOK
  /\ CallsFollowOps /\ JobsHaveEntries /\ OneAtATime
  /\ RepliesHaveTakers /\ UnlockIsLast
  /\ LockedIsCleared /\ LockIsDone
  /\ LoadsAreFresh /\ MapsAreForgotten

\* An entry of which the map and the store differ is one whose saving failed.
Excused(s, e) == SameKey(e) \cap failed[s] # {}

\* The map never holds more than the store, but for that.
NoSurplus(s) == \A e \in mem[s] \ Stored(s) : Excused(s, e)

Agree(s) == \A e \in (mem[s] \ Stored(s)) \cup (Stored(s) \ mem[s]) : Excused(s, e)

\* There is no key, and none is coming.
Keyless ==
  /\ ~HasKey
  /\ secrets.password = None \/ \A i \in 1..Len(replies) : replies[i].to # Background
  /\ \A w \in Windows : calls[w].op # "resetPassword"

\* The stores that are still to be read when one is being read.
ToRead == [approval |-> Services, identity |-> {"identity", "connection"},
           connection |-> {"connection"}]

Unread(w, s) == calls[w].op = "unlock" /\ (jobs[w].pc = "load" => s \in ToRead[jobs[w].loads])

\* The map agrees with the store when something can be saved.
IsReady(s) == Agree(s) \/ Keyless \/ \E w \in Windows : Unread(w, s)

MapsInv == \A s \in Services : NoSurplus(s) /\ IsReady(s)

-----------------------------------------------------------------------------
(* The queue *)

\* The queue as the handler that runs has found it, or without the reply it has taken.
Before(queue) == queue = replies \/ (replies # <<>> /\ queue = Tail(replies))

Free(queue, w) == \A i \in 1..Len(queue) : queue[i].to # w

\* Only window w has a new state.
OnlyWindow(w) ==
  /\ calls' \in [Windows -> Call] /\ jobs' \in [Windows -> Job]
  /\ \A v \in Windows \ {w} : calls'[v] = calls[v] /\ jobs'[v] = jobs[v]

Waits(w) == calls[w].pc \notin Resting \/ jobs[w].pc \notin Unasked

LEMMA RepliesType == VaultTypeOK => replies \in Seq(Replies)
  BY DEF VaultTypeOK, LockerTypeOK, Replies

\* Both queues are the replies, from some place on.
LEMMA BeforeFacts ==
  ASSUME VaultTypeOK, NEW queue, Before(queue)
  PROVE  /\ queue \in Seq(Replies) /\ Len(queue) \in Nat
         /\ \E k \in {0, 1} :
              /\ Len(replies) = Len(queue) + k
              /\ \A i \in 1..Len(queue) :
                   i + k \in 1..Len(replies) /\ queue[i] = replies[i + k]
<1>1. replies \in Seq(Replies)
  BY RepliesType
<1>2. CASE queue = replies
  <2>1. Len(replies) \in Nat
    BY <1>1
  <2>2. /\ Len(replies) = Len(queue) + 0
        /\ \A i \in 1..Len(queue) : i + 0 \in 1..Len(replies) /\ queue[i] = replies[i + 0]
    BY <1>2, <2>1
  <2>3. QED
    BY <1>1, <1>2, <2>1, <2>2
<1>3. CASE replies # <<>> /\ queue = Tail(replies)
  <2>1. /\ queue \in Seq(Replies) /\ Len(replies) \in Nat \ {0}
        /\ Len(queue) = Len(replies) - 1
        /\ \A i \in 1..Len(replies) - 1 : queue[i] = replies[i + 1]
    BY <1>1, <1>3, TailFacts
  <2>2. /\ Len(replies) = Len(queue) + 1
        /\ \A i \in 1..Len(queue) : i + 1 \in 1..Len(replies) /\ queue[i] = replies[i + 1]
    BY <2>1
  <2>3. QED
    BY <2>1, <2>2
<1>4. QED
  BY <1>2, <1>3 DEF Before

LEMMA TurnFrees ==
  ASSUME VaultTypeOK, RepliesHaveTakers, NEW w \in Windows, Turn(w)
  PROVE  Before(Tail(replies)) /\ Free(Tail(replies), w)
<1>1. /\ replies \in Seq(Replies) /\ replies # <<>> /\ Len(replies) \in Nat \ {0}
      /\ replies[1].to = w
  BY TurnFacts, RepliesType DEF VaultTypeOK
<1>2. /\ Len(Tail(replies)) = Len(replies) - 1
      /\ \A i \in 1..Len(replies) - 1 : Tail(replies)[i] = replies[i + 1]
  BY <1>1, TailFacts
<1>3. ASSUME NEW i \in 1..Len(Tail(replies)), Tail(replies)[i].to = w
      PROVE  FALSE
  <2>1. 1 \in 1..Len(replies) /\ i + 1 \in 1..Len(replies) /\ i + 1 # 1
    BY <1>1, <1>2
  <2>2. replies[i + 1].to = w
    BY <1>2, <1>3
  <2>3. QED
    BY <1>1, <2>1, <2>2 DEF RepliesHaveTakers
<1>4. QED
  BY <1>1, <1>3 DEF Before, Free

LEMMA RestIsFree ==
  ASSUME RepliesHaveTakers, NEW w \in Windows, ~Waits(w)
  PROVE  Before(replies) /\ Free(replies, w)
<1>1. ASSUME NEW i \in 1..Len(replies), replies[i].to = w
      PROVE  FALSE
  <2>1. calls[w].pc \notin Resting \/ jobs[w].pc \notin Unasked
    BY <1>1 DEF RepliesHaveTakers
  <2>2. QED
    BY <2>1 DEF Waits
<1>2. QED
  BY <1>1 DEF Before, Free

\* A handler that goes on with such a queue and asks at most for one reply.
LEMMA QueueKept ==
  ASSUME VaultTypeOK, RepliesHaveTakers, UnlockIsLast,
         NEW w, OnlyWindow(w), NEW queue, Before(queue), w \in Windows => Free(queue, w),
         \/ replies' = queue
         \/ \E r \in Replies :
              /\ replies' = Append(queue, r)
              /\ (r.to = w /\ w \in Windows /\ Waits(w)') \/ r.to = Background
              /\ \A v \in Windows \ {w} : calls[v].op \notin Unlocking
  PROVE  replies' \in Seq(Replies) /\ RepliesHaveTakers' /\ UnlockIsLast'
<1>1. PICK k \in {0, 1} :
        /\ Len(replies) = Len(queue) + k
        /\ \A i \in 1..Len(queue) : i + k \in 1..Len(replies) /\ queue[i] = replies[i + k]
  BY BeforeFacts
<1>2. queue \in Seq(Replies) /\ Len(queue) \in Nat
  BY BeforeFacts
<1>3. ASSUME NEW i \in 1..Len(queue), queue[i].to \in Windows
      PROVE  /\ queue[i].to # w
             /\ calls'[queue[i].to].pc \notin Resting \/ jobs'[queue[i].to].pc \notin Unasked
             /\ \A j \in 1..Len(queue) : queue[j].to = queue[i].to => i = j
             /\ calls'[queue[i].to].op \in Unlocking => i = Len(queue)
  <2>1. i + k \in 1..Len(replies) /\ queue[i] = replies[i + k]
    BY <1>1
  <2>2. queue[i].to # w
    BY <1>3 DEF Free
  <2>3. calls'[queue[i].to] = calls[queue[i].to] /\ jobs'[queue[i].to] = jobs[queue[i].to]
    BY <1>3, <2>2 DEF OnlyWindow
  <2>4. calls'[queue[i].to].pc \notin Resting \/ jobs'[queue[i].to].pc \notin Unasked
    BY <1>3, <2>1, <2>3 DEF RepliesHaveTakers
  <2>5. ASSUME NEW j \in 1..Len(queue), queue[j].to = queue[i].to
        PROVE  i = j
    <3>1. j + k \in 1..Len(replies) /\ queue[j] = replies[j + k]
      BY <1>1
    <3>2. i + k = j + k
      BY <1>3, <2>1, <2>5, <3>1 DEF RepliesHaveTakers
    <3>3. QED
      BY <3>2
  <2>6. ASSUME calls'[queue[i].to].op \in Unlocking
        PROVE  i = Len(queue)
    <3>1. i + k = Len(replies)
      BY <1>3, <2>1, <2>3, <2>6 DEF UnlockIsLast
    <3>2. QED
      BY <1>1, <1>2, <3>1
  <2>7. QED
    BY <2>2, <2>4, <2>5, <2>6
<1>4. CASE replies' = queue
  <2>1. RepliesHaveTakers'
    BY <1>3, <1>4 DEF RepliesHaveTakers
  <2>2. UnlockIsLast'
    BY <1>3, <1>4 DEF UnlockIsLast
  <2>3. QED
    BY <1>2, <1>4, <2>1, <2>2
<1>5. ASSUME NEW r \in Replies, replies' = Append(queue, r),
             (r.to = w /\ w \in Windows /\ Waits(w)') \/ r.to = Background,
             \A v \in Windows \ {w} : calls[v].op \notin Unlocking
      PROVE  replies' \in Seq(Replies) /\ RepliesHaveTakers' /\ UnlockIsLast'
  <2>1. /\ replies' \in Seq(Replies) /\ Len(replies') = Len(queue) + 1
        /\ \A i \in 1..Len(queue) : replies'[i] = queue[i]
        /\ replies'[Len(queue) + 1] = r
    BY <1>2, <1>5, AppendFacts
  <2>2. \A i \in 1..Len(replies') : i \in 1..Len(queue) \/ i = Len(replies')
    BY <1>2, <2>1
  <2>3. \A i \in 1..Len(queue) : replies'[i].to \in Windows => replies'[i].to # r.to
    BY <1>3, <1>5, <2>1, ConstantsAssumption
  <2>4. ASSUME NEW i \in 1..Len(replies'), replies'[i].to \in Windows
        PROVE  /\ calls'[replies'[i].to].pc \notin Resting
                    \/ jobs'[replies'[i].to].pc \notin Unasked
               /\ \A j \in 1..Len(replies') : replies'[j].to = replies'[i].to => i = j
    <3>1. CASE i \in 1..Len(queue)
      BY <1>3, <2>1, <2>2, <2>3, <2>4, <3>1
    <3>2. CASE i = Len(replies')
      BY <1>5, <2>1, <2>2, <2>3, <2>4, <3>2, ConstantsAssumption DEF Waits
    <3>3. QED
      BY <2>2, <3>1, <3>2
  <2>5. RepliesHaveTakers'
    BY <2>4 DEF RepliesHaveTakers
  <2>6. ASSUME NEW v \in Windows, calls'[v].op \in Unlocking,
               NEW i \in 1..Len(replies'), replies'[i].to = v
        PROVE  i = Len(replies')
    <3>1. v = w
      BY <1>5, <2>6 DEF OnlyWindow
    <3>2. i \notin 1..Len(queue)
      BY <1>3, <2>1, <2>6, <3>1
    <3>3. QED
      BY <2>2, <3>2
  <2>7. UnlockIsLast'
    BY <2>6 DEF UnlockIsLast
  <2>8. QED
    BY <2>1, <2>5, <2>7
<1>6. QED
  BY <1>4, <1>5

\* Nobody asks for the mnemonic.
LEMMA NoMnemonicComes ==
  ASSUME VaultTypeOK, NEW queue, Before(queue),
         \A i \in 1..Len(replies) : replies[i].to # Background,
         \/ replies' = queue
         \/ \E r \in Replies : replies' = Append(queue, r) /\ r.to # Background
  PROVE  \A i \in 1..Len(replies') : replies'[i].to # Background
<1>1. PICK k \in {0, 1} :
        /\ Len(replies) = Len(queue) + k
        /\ \A i \in 1..Len(queue) : i + k \in 1..Len(replies) /\ queue[i] = replies[i + k]
  BY BeforeFacts
<1>2. queue \in Seq(Replies) /\ Len(queue) \in Nat
  BY BeforeFacts
<1>3. \A i \in 1..Len(queue) : queue[i].to # Background
  BY <1>1
<1>4. CASE replies' = queue
  BY <1>3, <1>4
<1>5. ASSUME NEW r \in Replies, replies' = Append(queue, r), r.to # Background
      PROVE  \A i \in 1..Len(replies') : replies'[i].to # Background
  <2>1. /\ Len(replies') = Len(queue) + 1
        /\ \A i \in 1..Len(queue) : replies'[i] = queue[i]
        /\ replies'[Len(queue) + 1] = r
    BY <1>2, <1>5, AppendFacts
  <2>2. \A i \in 1..Len(replies') : i \in 1..Len(queue) \/ i = Len(queue) + 1
    BY <1>2, <2>1
  <2>3. QED
    BY <1>3, <1>5, <2>1, <2>2
<1>6. QED
  BY <1>4, <1>5

-----------------------------------------------------------------------------
(* What the handlers of the stores do *)

LEMMA EntryTypes ==
  /\ \A i \in Ids : Identity(i) \in Entries
  /\ \A o \in Origins : Approval(o) \in Entries
  /\ \A o \in Origins, i \in Ids : Connection(o, i) \in Entries
  BY DEF Entries

LEMMA EntryHasKey == \A e \in Entries : e \in SameKey(e)
  BY DEF SameKey

LEMMA KeysAreShared == \A e, f \in Entries : f \in SameKey(e) => e \in SameKey(f)
  BY DEF SameKey

Started == {"none", "sign", "approve", "written", "deleted", "wipe", "wiped"}

LEMMA NewJobType ==
  ASSUME NEW pc \in Started, NEW e \in Entries \cup {None}
  PROVE  /\ NewJob(pc, e) \in Job
         /\ NewJob(pc, e).pc = pc /\ NewJob(pc, e).entry = e
  BY DEF NewJob, Job, Started

LEMMA NoJobType == NoJob \in Job /\ NoJob.pc = "none"
  BY NewJobType DEF NoJob, Started

\* The handler of a store runs for window w and finds or leaves the queue.
AtWork(w, queue) ==
  /\ calls[w].op = "none"
  /\ \A v \in Windows : calls[v].op \notin Unlocking
  /\ Before(queue) /\ Free(queue, w)

\* Its state becomes `job', and it awaits a reply or not.
Runs(w, queue, job) ==
  /\ KeepLock
  /\ job \in Job /\ JobIsInOrder(job) /\ job.pc # "load"
  /\ jobs' = [jobs EXCEPT ![w] = job]
  /\ \/ replies' = queue
     \/ replies' = Append(queue, [to |-> w, disk |-> disk]) /\ job.pc \notin Unasked

\* With a map that is saved or not, for the sake of entry e ...
Saved(s, e) ==
  \E map \in SUBSET Entries :
    /\ map \subseteq mem[s] \cup {e} /\ mem[s] \ map \subseteq SameKey(e)
    /\ mem' = [mem EXCEPT ![s] = map]
    /\ \/ HasKey /\ store' = [store EXCEPT ![s] = map] /\ failed' = [failed EXCEPT ![s] = {}]
       \/ store' = store /\ failed' = [failed EXCEPT ![s] = @ \cup {e}]

\* ... or a store that is cleared.
Wiped(s) ==
  /\ mem' = [mem EXCEPT ![s] = {}]
  /\ store' = [store EXCEPT ![s] = None]
  /\ failed' = [failed EXCEPT ![s] = {}]

MapStep == KeepMaps \/ \E s \in Services : Wiped(s) \/ \E e \in Entries : Saved(s, e)

\* A handler of a store that runs does one of these.
HandlerStep(w, queue) == \E job \in Job : Runs(w, queue, job) /\ MapStep

\* It has been called, or goes on with or without a reply.
Handles(w) ==
  \E queue \in {replies, Tail(replies)} : AtWork(w, queue) /\ HandlerStep(w, queue)

LEMMA IdleFacts == Idle.op = "none" /\ Idle.pc = "idle"
  BY DEF Idle, NewCall

LEMMA DoneRuns ==
  ASSUME NEW w \in Windows, NEW queue, KeepLock, Done(w, queue), MapStep
  PROVE  HandlerStep(w, queue)
<1>1. JobIsInOrder(NoJob)
  BY NoJobType DEF JobIsInOrder
<1>2. Runs(w, queue, NoJob)
  BY <1>1, NoJobType DEF Runs, Done
<1>3. QED
  BY <1>2, NoJobType DEF HandlerStep

LEMMA WaitRuns ==
  ASSUME NEW w \in Windows, NEW queue,
         NEW pc \in Started \ Unasked, NEW e \in Entries \cup {None},
         pc = "sign" => \E i \in Ids : e = Identity(i),
         KeepLock, Wait(w, NewJob(pc, e), queue), MapStep
  PROVE  HandlerStep(w, queue)
<1>1. /\ NewJob(pc, e) \in Job
      /\ NewJob(pc, e).pc = pc /\ NewJob(pc, e).entry = e
      /\ pc \notin Unasked /\ pc # "load" /\ pc # "approve"
  BY NewJobType DEF Started, Unasked
<1>2. JobIsInOrder(NewJob(pc, e))
  BY <1>1 DEF JobIsInOrder
<1>3. Runs(w, queue, NewJob(pc, e))
  BY <1>1, <1>2 DEF Runs, Wait
<1>4. QED
  BY <1>1, <1>3 DEF HandlerStep

\* The call has returned to the page, or waits for a popup.
LEMMA LaterRuns ==
  ASSUME NEW w \in Windows,
         NEW pc \in {"approve", "wipe"}, NEW e \in Entries \cup {None},
         pc = "approve" => \E o \in Origins : e = Approval(o),
         KeepLock, KeepMaps, jobs' = [jobs EXCEPT ![w] = NewJob(pc, e)], UNCHANGED replies
  PROVE  HandlerStep(w, replies)
<1>1. /\ NewJob(pc, e) \in Job
      /\ NewJob(pc, e).pc = pc /\ NewJob(pc, e).entry = e
      /\ pc # "load" /\ pc # "sign"
  BY NewJobType DEF Started
<1>2. JobIsInOrder(NewJob(pc, e))
  BY <1>1 DEF JobIsInOrder
<1>3. Runs(w, replies, NewJob(pc, e))
  BY <1>1, <1>2 DEF Runs
<1>4. MapStep
  BY DEF MapStep
<1>5. QED
  BY <1>1, <1>3, <1>4 DEF HandlerStep

LEMMA SaveRuns ==
  ASSUME NEW w \in Windows, NEW queue, KeepLock,
         NEW s \in Services, NEW map \in SUBSET Entries, NEW e \in Entries,
         map \subseteq mem[s] \cup {e}, mem[s] \ map \subseteq SameKey(e),
         NEW pc \in {"written", "deleted"}, Save(w, s, map, e, pc, queue)
  PROVE  HandlerStep(w, queue)
<1>1. Saved(s, e)
  BY DEF Saved, Save
<1>2. MapStep
  BY <1>1 DEF MapStep
<1>3. \/ Done(w, queue)
      \/ Wait(w, NewJob(pc, e), queue) \/ Wait(w, NewJob("written", e), queue)
  BY DEF Save
<1>4. /\ pc \in Started \ Unasked /\ pc # "sign"
      /\ "written" \in Started \ Unasked /\ e \in Entries \cup {None}
  BY DEF Started, Unasked
<1>5. QED
  BY <1>2, <1>3, <1>4, DoneRuns, WaitRuns

LEMMA ClearRuns ==
  ASSUME NEW w \in Windows, NEW queue, KeepLock,
         NEW s \in Services, NEW pc \in {"written", "wiped"}, Clear(w, s, pc, queue)
  PROVE  HandlerStep(w, queue)
<1>1. Wiped(s) /\ Wait(w, NewJob(pc, None), queue)
  BY DEF Wiped, Clear
<1>2. MapStep
  BY <1>1 DEF MapStep
<1>3. pc \in Started \ Unasked /\ pc # "sign" /\ None \in Entries \cup {None}
  BY DEF Started, Unasked
<1>4. QED
  BY <1>1, <1>2, <1>3, WaitRuns

LEMMA InsertIdentityRuns ==
  ASSUME VaultTypeOK, NEW w \in Windows, NEW queue, KeepLock, NEW i \in Ids, InsertIdentity(w, i, queue)
  PROVE  HandlerStep(w, queue)
<1>1. /\ Identity(i) \in Entries /\ mem["identity"] \subseteq Entries
      /\ "identity" \in Services
  BY EntryTypes DEF VaultTypeOK, Services
<1>2. CASE Done(w, queue) /\ KeepMaps
  BY <1>2, DoneRuns DEF MapStep
<1>3. CASE Save(w, "identity", mem["identity"] \cup {Identity(i)}, Identity(i), "written", queue)
  BY <1>1, <1>3, SaveRuns
<1>4. QED
  BY <1>2, <1>3 DEF InsertIdentity

LEMMA AddApprovalRuns ==
  ASSUME VaultTypeOK, NEW w \in Windows, KeepLock,
         NEW o \in Origins, AddApproval(w, Approval(o))
  PROVE  HandlerStep(w, replies)
<1>1. /\ Approval(o) \in Entries /\ mem["approval"] \subseteq Entries
      /\ "approval" \in Services
  BY EntryTypes DEF VaultTypeOK, Services
<1>2. QED
  BY <1>1, SaveRuns DEF AddApproval

LEMMA RemoveConnectionRuns ==
  ASSUME VaultTypeOK, NEW w \in Windows, NEW queue, KeepLock,
         NEW c \in mem["connection"], RemoveConnection(w, c, queue)
  PROVE  HandlerStep(w, queue)
<1>1. "connection" \in Services /\ mem["connection"] \subseteq Entries /\ c \in Entries
  BY DEF VaultTypeOK, Services
<1>2. mem["connection"] \ (mem["connection"] \ {c}) \subseteq SameKey(c)
  BY <1>1, EntryHasKey
<1>3. QED
  BY <1>1, <1>2, SaveRuns DEF RemoveConnection

LEMMA StoreCallRuns ==
  ASSUME VaultTypeOK, NEW w \in Windows, StoreCall(w)
  PROVE  HandlerStep(w, replies)
<1>1. \A s \in Services : mem[s] \subseteq Entries
  BY DEF VaultTypeOK
<1>2. {"identity", "approval", "connection"} \subseteq Services
  BY DEF Services
<1>3. CASE DeleteAllIdentities(w)
  BY <1>3, LaterRuns DEF DeleteAllIdentities
<1>4. ASSUME NEW i \in Ids, SetIdentityName(w, i)
      PROVE  HandlerStep(w, replies)
  BY <1>1, <1>2, <1>4, SaveRuns DEF SetIdentityName
<1>5. ASSUME NEW i \in Ids, DeleteIdentity(w, i)
      PROVE  HandlerStep(w, replies)
  <2>1. mem["identity"] \ (mem["identity"] \ {Identity(i)}) \subseteq SameKey(Identity(i))
    BY EntryTypes, EntryHasKey
  <2>2. QED
    BY <1>1, <1>2, <1>5, <2>1, EntryTypes, SaveRuns DEF DeleteIdentity
<1>6. ASSUME NEW i \in Ids, Disconnect(w, i)
      PROVE  HandlerStep(w, replies)
  BY <1>1, <1>6, RemoveConnectionRuns DEF Disconnect
<1>7. ASSUME NEW o \in Origins, SetPermission(w, o)
      PROVE  HandlerStep(w, replies)
  BY <1>1, <1>7, AddApprovalRuns DEF SetPermission
<1>8. ASSUME NEW o \in Origins, RemoveApproval(w, o)
      PROVE  HandlerStep(w, replies)
  <2>1. mem["approval"] \ (mem["approval"] \ {Approval(o)}) \subseteq SameKey(Approval(o))
    BY EntryTypes, EntryHasKey
  <2>2. QED
    BY <1>1, <1>2, <1>8, <2>1, EntryTypes, SaveRuns DEF RemoveApproval
<1>9. ASSUME NEW i \in Ids, CreateIdentity(w, i)
       PROVE  HandlerStep(w, replies)
  BY <1>1, <1>9, InsertIdentityRuns DEF CreateIdentity
<1>10. ASSUME NEW i \in Ids, CreateSignedIdentity(w, i)
       PROVE  HandlerStep(w, replies)
  <2>1. "sign" \in Started \ Unasked /\ Identity(i) \in Entries \cup {None}
    BY EntryTypes DEF Started, Unasked
  <2>2. MapStep
    BY <1>10 DEF CreateSignedIdentity, MapStep
  <2>3. QED
    BY <1>10, <2>1, <2>2, WaitRuns DEF CreateSignedIdentity
<1>11. ASSUME NEW i \in Ids, NEW o \in Origins, Connect(w, o, i)
       PROVE  HandlerStep(w, replies)
  <2> DEFINE c == Connection(o, i)
             map == (mem["connection"] \ SameKey(c)) \cup {c}
  <2>1. /\ c \in Entries /\ map \in SUBSET Entries
        /\ map \subseteq mem["connection"] \cup {c}
        /\ mem["connection"] \ map \subseteq SameKey(c)
    BY <1>1, <1>2, EntryTypes
  <2>2. Ask(w) /\ KeepLock /\ Save(w, "connection", map, c, "written", replies)
    BY <1>11 DEF Connect
  <2> HIDE DEF c, map
  <2>3. QED
    BY <1>2, <2>1, <2>2, SaveRuns
<1>12. ASSUME NEW o \in Origins, ApproveCall(w, o)
       PROVE  HandlerStep(w, replies)
  BY <1>12, EntryTypes, LaterRuns DEF ApproveCall
<1>13. QED
  BY <1>3, <1>4, <1>5, <1>6, <1>7, <1>8, <1>9, <1>10, <1>11, <1>12
  DEF StoreCall, IdentityList, IdentityItem, IdentityPage, PermissionModal

\* A handler that goes on has got a reply, or needed none.
GoesOn(w) ==
  \/ Turn(w) /\ jobs[w].pc \notin {"none", "load"} /\ HandlerStep(w, Tail(replies))
  \/ jobs[w].pc \in {"approve", "wipe"} /\ HandlerStep(w, replies)

LEMMA StoreStepRuns ==
  ASSUME VaultTypeOK, JobsHaveEntries, NEW w \in Windows,
         \/ Written(w) \/ IdentitySigned(w) \/ DisconnectDeleted(w)
         \/ WipeConnections(w) \/ WipeIdentities(w) \/ Approve(w)
  PROVE  GoesOn(w)
<1>1. \A s \in Services : mem[s] \subseteq Entries
  BY DEF VaultTypeOK
<1>2. ASSUME NEW pc \in {"written", "sign", "deleted", "wiped"}, ResumedJob(w, pc),
             HandlerStep(w, Tail(replies))
      PROVE  GoesOn(w)
  BY <1>2 DEF ResumedJob, GoesOn
<1>3. "identity" \in Services /\ "connection" \in Services
  BY DEF Services
<1>4. CASE Written(w)
  <2>1. ResumedJob(w, "written") /\ HandlerStep(w, Tail(replies))
    BY <1>4, DoneRuns DEF Written, MapStep
  <2>2. QED
    BY <1>2, <2>1
<1>5. CASE IdentitySigned(w)
  <2>1. ResumedJob(w, "sign") /\ KeepLock /\ jobs[w].pc = "sign"
    BY <1>5 DEF IdentitySigned, ResumedJob
  <2>2. PICK i \in Ids : jobs[w].entry = Identity(i)
    BY <2>1 DEF JobsHaveEntries, JobIsInOrder
  <2>3. jobs[w].entry.id = i
    BY <2>2 DEF Identity
  <2>4. CASE InsertIdentity(w, jobs[w].entry.id, Tail(replies))
    BY <1>2, <2>1, <2>3, <2>4, InsertIdentityRuns
  <2>5. CASE Done(w, Tail(replies)) /\ KeepMaps
    BY <1>2, <2>1, <2>5, DoneRuns DEF MapStep
  <2>6. QED
    BY <1>5, <2>4, <2>5 DEF IdentitySigned
<1>6. CASE DisconnectDeleted(w)
  <2>1. ResumedJob(w, "deleted") /\ KeepLock
    BY <1>6 DEF DisconnectDeleted
  <2>2. CASE Done(w, Tail(replies)) /\ KeepMaps
    BY <1>2, <2>1, <2>2, DoneRuns DEF MapStep
  <2>3. ASSUME NEW c \in mem["connection"], RemoveConnection(w, c, Tail(replies))
        PROVE  GoesOn(w)
    BY <1>2, <2>1, <2>3, RemoveConnectionRuns
  <2>4. QED
    BY <1>6, <2>2, <2>3 DEF DisconnectDeleted
<1>7. CASE WipeConnections(w)
  <2>1. jobs[w].pc = "wipe" /\ HandlerStep(w, replies)
    BY <1>3, <1>7, ClearRuns DEF WipeConnections
  <2>2. QED
    BY <2>1 DEF GoesOn
<1>8. CASE WipeIdentities(w)
  <2>1. ResumedJob(w, "wiped") /\ KeepLock
    BY <1>8 DEF WipeIdentities
  <2>2. CASE Done(w, Tail(replies)) /\ KeepMaps
    BY <1>2, <2>1, <2>2, DoneRuns DEF MapStep
  <2>3. CASE Clear(w, "identity", "written", Tail(replies))
    BY <1>2, <1>3, <2>1, <2>3, ClearRuns
  <2>4. QED
    BY <1>8, <2>2, <2>3 DEF WipeIdentities
<1>9. CASE Approve(w)
  <2>1. KeepLock /\ jobs[w].pc = "approve"
    BY <1>9 DEF Approve
  <2>2. PICK o \in Origins : jobs[w].entry = Approval(o)
    BY <2>1 DEF JobsHaveEntries, JobIsInOrder
  <2>3. CASE Done(w, replies) /\ KeepMaps
    BY <2>1, <2>3, DoneRuns DEF MapStep, GoesOn
  <2>4. CASE AddApproval(w, jobs[w].entry)
    <3>1. HandlerStep(w, replies)
      BY <2>1, <2>2, <2>4, AddApprovalRuns
    <3>2. QED
      BY <2>1, <3>1 DEF GoesOn
  <2>5. QED
    BY <1>9, <2>3, <2>4 DEF Approve
<1>10. QED
  BY <1>4, <1>5, <1>6, <1>7, <1>8, <1>9

-----------------------------------------------------------------------------
(* The types, whatever calls cross *)

LEMMA MapStepTypes ==
  ASSUME VaultTypeOK, MapStep
  PROVE  /\ store' \in [Services -> (SUBSET Entries) \cup {None}]
         /\ mem' \in [Services -> SUBSET Entries] /\ failed' \in [Services -> SUBSET Entries]
<1>1. /\ store \in [Services -> (SUBSET Entries) \cup {None}]
      /\ mem \in [Services -> SUBSET Entries] /\ failed \in [Services -> SUBSET Entries]
  BY DEF VaultTypeOK
<1>2. CASE KeepMaps
  BY <1>1, <1>2 DEF KeepMaps
<1>3. ASSUME NEW s \in Services, Wiped(s)
      PROVE  /\ store' \in [Services -> (SUBSET Entries) \cup {None}]
             /\ mem' \in [Services -> SUBSET Entries] /\ failed' \in [Services -> SUBSET Entries]
  BY <1>1, <1>3 DEF Wiped
<1>4. ASSUME NEW s \in Services, NEW e \in Entries, Saved(s, e)
      PROVE  /\ store' \in [Services -> (SUBSET Entries) \cup {None}]
             /\ mem' \in [Services -> SUBSET Entries] /\ failed' \in [Services -> SUBSET Entries]
  BY <1>1, <1>4 DEF Saved
<1>5. QED
  BY <1>2, <1>3, <1>4 DEF MapStep

\* A request of a handler with a lock that is left alone is well formed.
LEMMA RequestTypes ==
  ASSUME VaultTypeOK, NEW w \in Windows, NEW queue \in Seq(Replies), NEW job,
         \/ replies' = queue
         \/ replies' = Append(queue, [to |-> w, disk |-> disk])
  PROVE  replies' \in Seq(Replies)
<1>1. [to |-> w, disk |-> disk] \in Replies
  BY DEF VaultTypeOK, LockerTypeOK, Replies
<1>2. QED
  BY <1>1, AppendFacts

LEMMA HandlerTypes ==
  ASSUME VaultTypeOK, JobsHaveEntries, crossed' \in BOOLEAN,
         NEW w \in Windows, NEW queue \in Seq(Replies), HandlerStep(w, queue)
  PROVE  VaultTypeOK' /\ JobsHaveEntries'
<1>1. PICK job \in Job : Runs(w, queue, job) /\ MapStep
  BY DEF HandlerStep
<1>2. /\ KeepLock /\ JobIsInOrder(job) /\ jobs' = [jobs EXCEPT ![w] = job]
      /\ jobs \in [Windows -> Job]
  BY <1>1 DEF Runs, VaultTypeOK
<1>3. replies' \in Seq(Replies)
  BY <1>1, RequestTypes DEF Runs
<1>4. LockerTypeOK'
  BY <1>2, <1>3 DEF KeepLock, VaultTypeOK, LockerTypeOK, Replies
<1>5. VaultTypeOK'
  BY <1>1, <1>2, <1>4, MapStepTypes DEF VaultTypeOK
<1>6. JobsHaveEntries'
  BY <1>2 DEF JobsHaveEntries, JobIsInOrder
<1>7. QED
  BY <1>5, <1>6

LEMMA LoadType ==
  ASSUME VaultTypeOK, NEW s \in Services
  PROVE  /\ Load(s) \in Job
         /\ Load(s).pc = "load" /\ Load(s).loads = s /\ Load(s).got = store[s]
  BY DEF VaultTypeOK, Load, Job

LEMMA FollowingFacts ==
  ASSUME NEW s \in Services, s # "connection"
  PROVE  /\ Following[s] \in Services
         /\ ToRead[s] = {s} \cup ToRead[Following[s]]
<1>1. s \in {"approval", "identity"}
  BY DEF Services
<1>2. CASE s = "approval"
  BY <1>2 DEF Following, ToRead, Services
<1>3. CASE s = "identity"
  BY <1>3 DEF Following, ToRead, Services
<1>4. QED
  BY <1>1, <1>2, <1>3

\* A handler that reads the stores reads one of them next, or is done.
Reads(w, queue) ==
  /\ UNCHANGED <<disk, unlocked, secrets, interrupted, overlapped, restarts, store>>
  /\ mem' \in [Services -> SUBSET Entries] /\ failed' \in [Services -> SUBSET Entries]
  /\ \/ Done(w, queue) /\ calls' = [calls EXCEPT ![w] = Idle]
     \/ \E s \in Services : Wait(w, Load(s), queue) /\ UNCHANGED calls

LEMMA ReadsTypes ==
  ASSUME VaultTypeOK, JobsHaveEntries, crossed' \in BOOLEAN,
         NEW w \in Windows, NEW queue \in Seq(Replies), Reads(w, queue)
  PROVE  VaultTypeOK' /\ JobsHaveEntries'
<1>1. /\ calls \in [Windows -> Call] /\ jobs \in [Windows -> Job]
  BY DEF VaultTypeOK, LockerTypeOK
<1>2. PICK job \in Job :
        JobIsInOrder(job) /\ job.pc \in {"none", "load"} /\ jobs' = [jobs EXCEPT ![w] = job]
  <2>1. CASE Done(w, queue)
    BY <2>1, NoJobType DEF Done, JobIsInOrder
  <2>2. ASSUME NEW s \in Services, Wait(w, Load(s), queue)
        PROVE  \E job \in Job : /\ JobIsInOrder(job) /\ job.pc \in {"none", "load"}
                                /\ jobs' = [jobs EXCEPT ![w] = job]
    BY <2>2, LoadType DEF Wait, JobIsInOrder
  <2>3. QED
    BY <2>1, <2>2 DEF Reads
<1>3. jobs' \in [Windows -> Job] /\ calls' \in [Windows -> Call]
  BY <1>1, <1>2, IdleType DEF Reads
<1>4. replies' \in Seq(Replies)
  BY RequestTypes DEF Reads, Done, Wait
<1>5. LockerTypeOK'
  BY <1>3, <1>4 DEF Reads, VaultTypeOK, LockerTypeOK, Replies
<1>6. VaultTypeOK'
  BY <1>3, <1>5 DEF Reads, VaultTypeOK
<1>7. JobsHaveEntries'
  BY <1>1, <1>2 DEF JobsHaveEntries, JobIsInOrder
<1>8. QED
  BY <1>6, <1>7

LEMMA LoadFirstReads ==
  ASSUME VaultTypeOK, NEW w \in Windows, LoadFirst(w)
  PROVE  Opened(w) /\ Reads(w, replies)
  BY DEF LoadFirst, KeepLock, KeepMaps, Reads, VaultTypeOK, Services

LEMMA LoadedReads ==
  ASSUME VaultTypeOK, JobsHaveEntries, NEW w \in Windows, Loaded(w) \/ LoadFails(w)
  PROVE  Turn(w) /\ jobs[w].pc = "load" /\ Reads(w, Tail(replies))
<1>1. Turn(w) /\ jobs[w].pc = "load"
  BY DEF Loaded, LoadFails, ResumedJob
<1>2. /\ mem \in [Services -> SUBSET Entries] /\ failed \in [Services -> SUBSET Entries]
      /\ jobs[w].loads \in Services /\ jobs[w].got \in (SUBSET Entries) \cup {None}
  BY <1>1 DEF VaultTypeOK, JobsHaveEntries, JobIsInOrder, Job
<1>3. CASE Loaded(w)
  <2>1. /\ UNCHANGED <<disk, unlocked, secrets, interrupted, overlapped, restarts, store>>
        /\ mem' = [mem EXCEPT ![jobs[w].loads] = IF jobs[w].got = None THEN @ ELSE jobs[w].got]
        /\ failed' = [failed EXCEPT ![jobs[w].loads] = IF jobs[w].got = None THEN @ ELSE {}]
    BY <1>3 DEF Loaded
  <2>2. mem' \in [Services -> SUBSET Entries] /\ failed' \in [Services -> SUBSET Entries]
    BY <1>2, <2>1
  <2>3. \/ Done(w, Tail(replies)) /\ calls' = [calls EXCEPT ![w] = Idle]
        \/ /\ jobs[w].loads # "connection"
           /\ Wait(w, Load(Following[jobs[w].loads]), Tail(replies)) /\ UNCHANGED calls
    BY <1>3 DEF Loaded
  <2>4. QED
    BY <1>1, <1>2, <2>1, <2>2, <2>3, FollowingFacts DEF Reads
<1>4. CASE LoadFails(w)
  BY <1>1, <1>2, <1>4 DEF LoadFails, Reads
<1>5. QED
  BY <1>3, <1>4

\* The calls of the lock, which leave the handlers of the stores alone.
LEMMA LockTypes ==
  ASSUME VaultTypeOK, NEW w \in Windows,
         LockingCall(w) \/ LockingStep(w) \/ ResetDone(w) \/ LockMaps(w)
  PROVE  LockerTypeOK' /\ jobs' = jobs
<1>1. CASE LockingCall(w)
  <2>1. LockerCall(w)
    BY <1>1 DEF LockingCall, LockerCall
  <2>2. QED
    BY <1>1, <2>1, CallsKeepTypes DEF LockingCall, vaultVars, VaultTypeOK
<1>2. CASE LockingStep(w)
  <2>1. LockerStep(w)
    BY <1>2 DEF LockingStep, LockerStep
  <2>2. QED
    BY <1>2, <2>1, StepsKeepTypes DEF LockingStep, vaultVars, VaultTypeOK
<1>3. CASE ResetDone(w) \/ LockMaps(w)
  BY <1>3, AnswerKeepsTypes DEF ResetDone, LockMaps, vaultVars, VaultTypeOK
<1>4. QED
  BY <1>1, <1>2, <1>3

LEMMA LockKeepsTypes ==
  ASSUME VaultTypeOK, JobsHaveEntries, crossed' \in BOOLEAN, NEW w \in Windows,
         LockingCall(w) \/ LockingStep(w) \/ ResetDone(w) \/ LockMaps(w)
  PROVE  VaultTypeOK' /\ JobsHaveEntries'
<1>1. LockerTypeOK' /\ jobs' = jobs
  BY LockTypes
<1>2. /\ store' = store /\ mem' \in [Services -> SUBSET Entries]
      /\ failed' \in [Services -> SUBSET Entries]
  BY DEF LockingCall, LockingStep, ResetDone, LockMaps, vaultVars, VaultTypeOK, Services
<1>3. QED
  BY <1>1, <1>2 DEF VaultTypeOK, JobsHaveEntries, JobIsInOrder

LEMMA MnemonicTypes ==
  ASSUME VaultTypeOK, JobsHaveEntries, crossed' \in BOOLEAN, LockingMnemonic
  PROVE  VaultTypeOK' /\ JobsHaveEntries'
<1>1. LockerTypeOK'
  BY MnemonicKeepsTypes DEF LockingMnemonic, VaultTypeOK
<1>2. QED
  BY <1>1 DEF LockingMnemonic, vaultVars, VaultTypeOK, JobsHaveEntries, JobIsInOrder

LEMMA RestartTypes ==
  ASSUME VaultTypeOK, RestartVault
  PROVE  VaultTypeOK' /\ JobsHaveEntries'
<1>1. LockerTypeOK'
  BY RestartKeepsTypes DEF RestartVault, VaultTypeOK
<1>2. /\ store' = store /\ mem' = [s \in Services |-> {}] /\ failed' = [s \in Services |-> {}]
      /\ jobs' = [w \in Windows |-> NoJob] /\ crossed' = FALSE
  BY DEF RestartVault
<1>3. VaultTypeOK'
  BY <1>1, <1>2, NoJobType DEF VaultTypeOK
<1>4. JobsHaveEntries'
  BY <1>2, NoJobType DEF JobsHaveEntries, JobIsInOrder
<1>5. QED
  BY <1>3, <1>4

LEMMA CrossedIsBoolean ==
  ASSUME VaultTypeOK, VaultNext
  PROVE  crossed' \in BOOLEAN
<1>1. \/ crossed' = crossed \/ crossed' = FALSE
      \/ crossed' = (crossed \/ ~LockIsStill)
      \/ crossed' = (crossed \/ ~LockIsStill \/ \E v \in Windows : jobs[v] # NoJob)
  BY DEF VaultNext, LockingCall, RestartVault
<1>2. crossed \in BOOLEAN
  BY DEF VaultTypeOK
<1>3. QED
  BY <1>1, <1>2, Zenon

LEMMA VaultNextKeepsTypes ==
  VaultTypeOK /\ JobsHaveEntries /\ [VaultNext]_vars => VaultTypeOK' /\ JobsHaveEntries'
<1> SUFFICES ASSUME VaultTypeOK, JobsHaveEntries, [VaultNext]_vars
             PROVE  VaultTypeOK' /\ JobsHaveEntries'
  OBVIOUS
<1>1. replies \in Seq(Replies) /\ (replies # <<>> => Tail(replies) \in Seq(Replies))
  BY RepliesType, TailFacts
<1>2. CASE VaultNext
  <2>1. crossed' \in BOOLEAN
    BY <1>2, CrossedIsBoolean
  <2>2. ASSUME NEW w \in Windows, LoadFirst(w)
        PROVE  VaultTypeOK' /\ JobsHaveEntries'
    BY <1>1, <2>1, <2>2, LoadFirstReads, ReadsTypes
  <2>3. ASSUME NEW w \in Windows, Loaded(w) \/ LoadFails(w)
        PROVE  VaultTypeOK' /\ JobsHaveEntries'
    BY <1>1, <2>1, <2>3, LoadedReads, ReadsTypes DEF Turn
  <2>4. ASSUME NEW w \in Windows, StoreCall(w)
        PROVE  VaultTypeOK' /\ JobsHaveEntries'
    BY <1>1, <2>1, <2>4, StoreCallRuns, HandlerTypes
  <2>5. ASSUME NEW w \in Windows, GoesOn(w)
        PROVE  VaultTypeOK' /\ JobsHaveEntries'
    BY <1>1, <2>1, <2>5, HandlerTypes DEF GoesOn, Turn
  <2>6. ASSUME NEW w \in Windows, StoreStep(w)
        PROVE  VaultTypeOK' /\ JobsHaveEntries'
    BY <2>3, <2>5, <2>6, StoreStepRuns DEF StoreStep
  <2>7. ASSUME NEW w \in Windows,
               LockingCall(w) \/ LockingStep(w) \/ ResetDone(w) \/ LockMaps(w)
        PROVE  VaultTypeOK' /\ JobsHaveEntries'
    BY <2>1, <2>7, LockKeepsTypes
  <2>8. CASE LockingMnemonic
    BY <2>1, <2>8, MnemonicTypes
  <2>9. CASE RestartVault
    BY <2>9, RestartTypes
  <2>10. QED
    BY <1>2, <2>2, <2>4, <2>6, <2>7, <2>8, <2>9 DEF VaultNext
<1>3. CASE UNCHANGED vars
  <2>1. LockerTypeOK'
    BY <1>3, NextKeepsTypes DEF vars, VaultTypeOK
  <2>2. QED
    BY <1>3, <2>1 DEF vars, vaultVars, VaultTypeOK, JobsHaveEntries
<1>4. QED
  BY <1>2, <1>3

-----------------------------------------------------------------------------
(* What the handlers of the stores keep *)

LEMMA AskIsAtWork ==
  ASSUME VaultInv, NEW w \in Windows, Ask(w), LockIsStill
  PROVE  AtWork(w, replies)
<1>1. \A v \in Windows : calls[v].op = "none" /\ calls[v].pc = "idle"
  BY IdleFacts DEF LockIsStill
<1>2. ~Waits(w)
  BY <1>1, NoJobType DEF Ask, Waits, Resting, Unasked
<1>3. Before(replies) /\ Free(replies, w)
  BY <1>2, RestIsFree DEF VaultInv
<1>4. QED
  BY <1>1, <1>3 DEF AtWork, Unlocking

LEMMA JobIsAlone ==
  ASSUME VaultInv, NEW w \in Windows, jobs[w].pc \notin {"none", "load"}
  PROVE  /\ calls[w].op = "none" /\ calls[w].pc = "idle"
         /\ \A v \in Windows : calls[v].op \notin Unlocking
<1>1. calls[w].op = "none" /\ \A v \in Windows : calls[v].op \notin Unlocking
  BY DEF VaultInv, OneAtATime, Unlocking
<1>2. QED
  BY <1>1 DEF VaultInv, CallsFollowOps, CallIsInOrder

LEMMA ResumedIsAtWork ==
  ASSUME VaultInv, NEW w \in Windows, Turn(w), jobs[w].pc \notin {"none", "load"}
  PROVE  AtWork(w, Tail(replies))
<1>1. Before(Tail(replies)) /\ Free(Tail(replies), w)
  BY TurnFrees DEF VaultInv
<1>2. QED
  BY <1>1, JobIsAlone DEF AtWork

LEMMA GoingOnIsAtWork ==
  ASSUME VaultInv, NEW w \in Windows, jobs[w].pc \in {"approve", "wipe"}
  PROVE  AtWork(w, replies)
<1>1. /\ calls[w].op = "none" /\ calls[w].pc = "idle"
      /\ \A v \in Windows : calls[v].op \notin Unlocking
  BY JobIsAlone
<1>2. ~Waits(w)
  BY <1>1 DEF Waits, Resting, Unasked
<1>3. Before(replies) /\ Free(replies, w)
  BY <1>2, RestIsFree DEF VaultInv
<1>4. QED
  BY <1>1, <1>3 DEF AtWork

\* A handler that goes on has no lock, unlock or reset beside it that it could cross.
LEMMA GoesOnHandles ==
  ASSUME VaultInv, NEW w \in Windows, GoesOn(w)
  PROVE  Handles(w)
  BY ResumedIsAtWork, GoingOnIsAtWork DEF GoesOn, Handles

\* What a handler of a store that runs leaves as it is.
LEMMA RunsKeeps ==
  ASSUME VaultInv, NEW w \in Windows, NEW queue, NEW job \in Job,
         AtWork(w, queue), Runs(w, queue, job)
  PROVE  /\ CallsFollowOps' /\ OneAtATime' /\ RepliesHaveTakers' /\ UnlockIsLast'
         /\ LockedIsCleared' /\ LockIsDone' /\ LoadsAreFresh'
<1>1. /\ disk' = disk /\ unlocked' = unlocked /\ secrets' = secrets /\ calls' = calls
      /\ job.pc # "load" /\ jobs' = [jobs EXCEPT ![w] = job]
  BY DEF Runs, KeepLock
<1>2. /\ VaultTypeOK /\ CallsFollowOps /\ OneAtATime
      /\ RepliesHaveTakers /\ UnlockIsLast /\ LockedIsCleared /\ LockIsDone
      /\ calls \in [Windows -> Call] /\ jobs \in [Windows -> Job] /\ disk \in Disk
  BY DEF VaultInv, VaultTypeOK, LockerTypeOK
<1>3. /\ jobs' \in [Windows -> Job] /\ jobs'[w] = job
      /\ \A v \in Windows \ {w} : jobs'[v] = jobs[v]
  BY <1>1, <1>2
<1>4. OnlyWindow(w)
  BY <1>1, <1>2, <1>3 DEF OnlyWindow
<1>5. \A v \in Windows : jobs'[v].pc # "load"
  BY <1>1, <1>2, <1>3 DEF AtWork, OneAtATime, Unlocking
<1>6. RepliesHaveTakers' /\ UnlockIsLast'
  <2>1. Before(queue) /\ Free(queue, w) /\ \A v \in Windows : calls[v].op \notin Unlocking
    BY DEF AtWork
  <2>2. CASE replies' = queue
    BY <1>2, <1>4, <2>1, <2>2, QueueKept
  <2>3. CASE replies' = Append(queue, [to |-> w, disk |-> disk]) /\ job.pc \notin Unasked
    <3>1. [to |-> w, disk |-> disk] \in Replies
      BY <1>2 DEF Replies
    <3>2. Waits(w)'
      BY <1>3, <2>3 DEF Waits
    <3>3. \E r \in Replies :
            /\ replies' = Append(queue, r)
            /\ (r.to = w /\ w \in Windows /\ Waits(w)') \/ r.to = Background
            /\ \A v \in Windows \ {w} : calls[v].op \notin Unlocking
      BY <2>1, <2>3, <3>1, <3>2
    <3>4. QED
      BY <1>2, <1>4, <2>1, <3>3, QueueKept
  <2>4. QED
    BY <2>2, <2>3 DEF Runs
<1>7. CallsFollowOps' /\ LockedIsCleared' /\ LockIsDone'
  BY <1>1, <1>2 DEF CallsFollowOps, CallIsInOrder, LockedIsCleared, LockIsDone
<1>8. OneAtATime'
  <2>1. calls[w].op = "none" /\ \A v \in Windows : calls[v].op \notin Unlocking
    BY DEF AtWork
  <2>2. QED
    BY <1>1, <1>2, <1>3, <1>5, <2>1 DEF OneAtATime
<1>9. LoadsAreFresh'
  BY <1>5 DEF LoadsAreFresh
<1>10. QED
  BY <1>6, <1>7, <1>8, <1>9

LEMMA KeyNeedsOpen ==
  ASSUME VaultInv, \A v \in Windows : calls[v].op \notin Unlocking, HasKey
  PROVE  unlocked /\ \A v \in Windows : calls[v].op # "lock"
<1>1. secrets # Cleared
  BY DEF HasKey, Cleared
<1>2. \A v \in Windows : calls[v].pc \notin {"status", "auth"}
  BY DEF VaultInv, CallsFollowOps, CallIsInOrder, Unlocking
<1>3. QED
  BY <1>1, <1>2 DEF VaultInv, LockedIsCleared, LockIsDone

LEMMA MapStepKeeps ==
  ASSUME VaultInv, \A v \in Windows : calls[v].op \notin Unlocking,
         unlocked' = unlocked, calls' = calls, MapStep
  PROVE  MapsAreForgotten'
<1>1. /\ store \in [Services -> (SUBSET Entries) \cup {None}]
      /\ mem \in [Services -> SUBSET Entries] /\ failed \in [Services -> SUBSET Entries]
      /\ MapsAreForgotten
  BY DEF VaultInv, VaultTypeOK
<1>2. {"identity", "approval"} \subseteq Services
  BY DEF Services
<1>3. CASE KeepMaps
  BY <1>1, <1>3 DEF KeepMaps, MapsAreForgotten
<1>4. ASSUME NEW s \in Services, Wiped(s)
      PROVE  MapsAreForgotten'
  BY <1>1, <1>2, <1>4 DEF Wiped, MapsAreForgotten
<1>5. ASSUME NEW s \in Services, NEW e \in Entries, Saved(s, e)
      PROVE  MapsAreForgotten'
  <2>1. PICK map \in SUBSET Entries :
          /\ map \subseteq mem[s] \cup {e}
          /\ mem' = [mem EXCEPT ![s] = map]
          /\ \/ /\ HasKey /\ store' = [store EXCEPT ![s] = map]
                /\ failed' = [failed EXCEPT ![s] = {}]
             \/ store' = store /\ failed' = [failed EXCEPT ![s] = @ \cup {e}]
    BY <1>5 DEF Saved
  <2>2. CASE HasKey
    BY <2>2, KeyNeedsOpen DEF MapsAreForgotten
  <2>3. CASE ~HasKey
    <3>1. /\ mem'[s] \subseteq mem[s] \cup {e} /\ failed'[s] = failed[s] \cup {e}
          /\ \A t \in Services \ {s} : mem'[t] = mem[t] /\ failed'[t] = failed[t]
      BY <1>1, <2>1, <2>3
    <3>2. QED
      BY <1>1, <1>2, <3>1 DEF MapsAreForgotten
  <2>4. QED
    BY <2>2, <2>3
<1>6. QED
  BY <1>3, <1>4, <1>5 DEF MapStep

LEMMA HandlerKeepsInv ==
  ASSUME VaultInv, VaultTypeOK', JobsHaveEntries', NEW w \in Windows, Handles(w)
  PROVE  VaultInv'
<1>1. PICK queue \in {replies, Tail(replies)}, job \in Job :
        AtWork(w, queue) /\ Runs(w, queue, job) /\ MapStep
  BY DEF Handles, HandlerStep
<1>2. /\ unlocked' = unlocked /\ calls' = calls
      /\ \A v \in Windows : calls[v].op \notin Unlocking
  BY <1>1 DEF AtWork, Runs, KeepLock
<1>3. QED
  BY <1>1, <1>2, RunsKeeps, MapStepKeeps DEF VaultInv

-----------------------------------------------------------------------------
(* The calls of the lock *)

\* The handler of window w goes on from queue and its call becomes `call': it has got a
\* reply, or is a new one, or is done.
AtLock(w, call, queue) ==
  \/ /\ Turn(w) /\ calls[w].pc \notin Resting /\ queue = Tail(replies)
     /\ call.op \in {calls[w].op, "none"}
  \/ /\ LockIsStill /\ jobs[w] = NoJob /\ queue = replies
     /\ call.op \in Unlocking => \A v \in Windows : jobs[v] = NoJob
  \/ /\ calls[w].pc \in {"unlocked", "locked"} /\ jobs[w].pc = "none" /\ queue = replies
     /\ call = Idle

LEMMA LockIsAlone ==
  ASSUME VaultInv, NEW w \in Windows, NEW call, NEW queue, AtLock(w, call, queue)
  PROVE  /\ \A v \in Windows \ {w} : calls[v].op = "none"
         /\ jobs[w].pc = "none"
         /\ call.op \in Unlocking => \A v \in Windows \ {w} : jobs[v].pc = "none"
         /\ Before(queue) /\ Free(queue, w)
<1>1. /\ VaultTypeOK /\ OneAtATime /\ RepliesHaveTakers
      /\ CallIsInOrder(calls[w])
  BY DEF VaultInv, CallsFollowOps
<1>2. CASE Turn(w) /\ calls[w].pc \notin Resting /\ queue = Tail(replies)
             /\ call.op \in {calls[w].op, "none"}
  <2>1. calls[w].op # "none"
    BY <1>1, <1>2 DEF CallIsInOrder, Resting
  <2>2. jobs[w].pc = "none"
    BY <1>1, <1>2, <2>1 DEF OneAtATime, Resting
  <2>3. Before(queue) /\ Free(queue, w)
    BY <1>1, <1>2, TurnFrees
  <2>4. QED
    BY <1>1, <1>2, <2>1, <2>2, <2>3 DEF OneAtATime, Unlocking
<1>3. CASE /\ LockIsStill /\ jobs[w] = NoJob /\ queue = replies
           /\ call.op \in Unlocking => \A v \in Windows : jobs[v] = NoJob
  <2>1. /\ \A v \in Windows : calls[v].op = "none" /\ calls[v].pc = "idle"
        /\ jobs[w].pc = "none"
    BY <1>3, IdleFacts, NoJobType DEF LockIsStill
  <2>2. ~Waits(w)
    BY <2>1 DEF Waits, Resting, Unasked
  <2>3. Before(queue) /\ Free(queue, w)
    BY <1>1, <1>3, <2>2, RestIsFree
  <2>4. call.op \in Unlocking => \A v \in Windows \ {w} : jobs[v].pc = "none"
    BY <1>3, NoJobType
  <2>5. QED
    BY <2>1, <2>3, <2>4
<1>4. CASE /\ calls[w].pc \in {"unlocked", "locked"} /\ jobs[w].pc = "none"
           /\ queue = replies /\ call = Idle
  <2>1. calls[w].op # "none"
    BY <1>1, <1>4 DEF CallIsInOrder
  <2>2. ~Waits(w)
    BY <1>4 DEF Waits, Resting, Unasked
  <2>3. Before(queue) /\ Free(queue, w)
    BY <1>1, <1>4, <2>2, RestIsFree
  <2>4. call.op \notin Unlocking
    BY <1>4, IdleFacts DEF Unlocking
  <2>5. QED
    BY <1>1, <1>4, <2>1, <2>3, <2>4 DEF OneAtATime
<1>5. QED
  BY <1>2, <1>3, <1>4 DEF AtLock

\* What a handler of the lock has to see to itself.
LEMMA CallKeeps ==
  ASSUME VaultInv, NEW w \in Windows, NEW call \in Call, NEW queue, AtLock(w, call, queue),
         CallIsInOrder(call), calls' = [calls EXCEPT ![w] = call],
         jobs' = jobs, store' = store,
         \/ replies' = queue
         \/ \E r \in Replies : /\ replies' = Append(queue, r)
                               /\ (r.to = w /\ call.pc \notin Resting) \/ r.to = Background,
         call.op = "lock" => secrets' = Cleared /\ ~unlocked',
         call.pc = "unlocked" => unlocked',
         ~unlocked' => secrets' = Cleared \/ call.pc \in {"status", "auth"}
  PROVE  /\ CallsFollowOps' /\ OneAtATime' /\ RepliesHaveTakers' /\ UnlockIsLast'
         /\ LockedIsCleared' /\ LockIsDone' /\ LoadsAreFresh'
<1>1. /\ VaultTypeOK /\ CallsFollowOps /\ OneAtATime
      /\ RepliesHaveTakers /\ UnlockIsLast /\ LockIsDone /\ LoadsAreFresh
      /\ calls \in [Windows -> Call] /\ jobs \in [Windows -> Job]
  BY DEF VaultInv, VaultTypeOK, LockerTypeOK
<1>2. /\ calls' \in [Windows -> Call] /\ calls'[w] = call
      /\ \A v \in Windows \ {w} : calls'[v] = calls[v]
  BY <1>1
<1>3. OnlyWindow(w)
  BY <1>1, <1>2 DEF OnlyWindow
<1>4. /\ \A v \in Windows \ {w} : calls[v].op = "none"
      /\ jobs[w].pc = "none"
      /\ call.op \in Unlocking => \A v \in Windows \ {w} : jobs[v].pc = "none"
      /\ Before(queue) /\ Free(queue, w)
  BY LockIsAlone
<1>5. RepliesHaveTakers' /\ UnlockIsLast'
  <2>1. \A v \in Windows \ {w} : calls[v].op \notin Unlocking
    BY <1>4 DEF Unlocking
  <2>2. call.pc \notin Resting => Waits(w)'
    BY <1>2 DEF Waits
  <2>3. \/ replies' = queue
        \/ \E r \in Replies :
             /\ replies' = Append(queue, r)
             /\ (r.to = w /\ w \in Windows /\ Waits(w)') \/ r.to = Background
             /\ \A v \in Windows \ {w} : calls[v].op \notin Unlocking
    BY <2>1, <2>2
  <2>4. QED
    BY <1>1, <1>3, <1>4, <2>3, QueueKept
<1>6. CallsFollowOps'
  BY <1>1, <1>2 DEF CallsFollowOps, CallIsInOrder
<1>7. LoadsAreFresh'
  BY <1>1 DEF LoadsAreFresh
<1>8. OneAtATime'
  <2>1. \A v \in Windows : jobs'[v].pc # "load"
    BY <1>1, <1>4 DEF OneAtATime
  <2>2. QED
    BY <1>1, <1>2, <1>4, <2>1 DEF OneAtATime, Unlocking
<1>9. LockIsDone'
  <2>1. \A v \in Windows \ {w} : calls'[v].op = "none" /\ calls'[v].pc = "idle"
    BY <1>1, <1>2, <1>4 DEF CallsFollowOps, CallIsInOrder
  <2>2. QED
    BY <1>2, <2>1 DEF LockIsDone
<1>10. LockedIsCleared'
  BY <1>2 DEF LockedIsCleared
<1>11. QED
  BY <1>5, <1>6, <1>7, <1>8, <1>9, <1>10

\* The maps are left alone, and what is asked for belongs to the lock's own rules.
LEMMA CallKeepsInv ==
  ASSUME VaultInv, VaultTypeOK',
         NEW w \in Windows, NEW call \in Call, NEW queue, AtLock(w, call, queue),
         CallIsInOrder(call), calls' = [calls EXCEPT ![w] = call], UNCHANGED vaultVars,
         \/ replies' = queue
         \/ \E r \in Replies : /\ replies' = Append(queue, r)
                               /\ (r.to = w /\ call.pc \notin Resting) \/ r.to = Background,
         call.op = "lock" => secrets' = Cleared /\ ~unlocked',
         call.pc = "unlocked" => unlocked',
         ~unlocked' => secrets' = Cleared \/ call.pc \in {"status", "auth"},
         calls[w].op = "lock" => call.op = "lock",
         unlocked' = unlocked \/ unlocked' \/ call.op = "lock"
  PROVE  VaultInv'
<1>1. jobs' = jobs /\ store' = store /\ mem' = mem /\ failed' = failed
  BY DEF vaultVars
<1>2. /\ CallsFollowOps' /\ OneAtATime' /\ RepliesHaveTakers' /\ UnlockIsLast'
      /\ LockedIsCleared' /\ LockIsDone' /\ LoadsAreFresh'
  BY <1>1, CallKeeps
<1>3. JobsHaveEntries'
  BY <1>1 DEF VaultInv, JobsHaveEntries, JobIsInOrder
<1>4. MapsAreForgotten'
  BY <1>1 DEF VaultInv, VaultTypeOK, LockerTypeOK, MapsAreForgotten
<1>5. QED
  BY <1>2, <1>3, <1>4 DEF VaultInv

\* A handler that waits only changes its pc.
LEMMA AwaitCall ==
  ASSUME VaultTypeOK, NEW w \in Windows, NEW pc \in Pcs, Await(w, pc)
  PROVE  \E call \in Call :
           /\ call.pc = pc /\ call.op = calls[w].op
           /\ calls' = [calls EXCEPT ![w] = call]
           /\ replies' = Append(Tail(replies), Reply(w))
<1>1. calls \in [Windows -> Call]
  BY DEF VaultTypeOK, LockerTypeOK
<1>2. PICK call \in Call : call = [calls[w] EXCEPT !.pc = pc]
  BY <1>1 DEF Call
<1>3. call.pc = pc /\ call.op = calls[w].op
  BY <1>1, <1>2 DEF Call
<1>4. /\ calls' = [calls EXCEPT ![w] = call]
      /\ replies' = Append(Tail(replies), Reply(w))
  BY <1>1, <1>2 DEF Await
<1>5. QED
  BY <1>3, <1>4

\* A wallet that is not opened keeps no secret while it is locked.
LEMMA NoKeyIsLeft ==
  ASSUME VaultInv, NEW w \in Windows, NEW call, NEW queue, AtLock(w, call, queue),
         calls[w].pc \notin {"status", "auth"}, ~unlocked
  PROVE  secrets = Cleared
<1>1. \A v \in Windows \ {w} : calls[v].pc = "idle"
  BY LockIsAlone DEF VaultInv, CallsFollowOps, CallIsInOrder
<1>2. QED
  BY <1>1 DEF VaultInv, LockedIsCleared

\* A call that crosses nothing.
LEMMA UncrossedCall ==
  ASSUME NEW w \in Windows, LockingCall(w), ~crossed'
  PROVE  /\ LockIsStill /\ jobs[w] = NoJob
         /\ \/ LockCall(w)
            \/ /\ \/ \E p \in Passwords : UnlockCall(w, p)
                  \/ HasKey \in ResetWhen
                     /\ \E m \in Mnemonics, p \in Passwords : ResetPasswordCall(w, m, p)
               /\ \A v \in Windows : jobs[v] = NoJob
<1>1. CASE LockCall(w) /\ crossed' = (crossed \/ ~LockIsStill)
  BY <1>1, Zenon DEF LockingCall
<1>2. CASE crossed' = (crossed \/ ~LockIsStill \/ \E v \in Windows : jobs[v] # NoJob)
  <2>1. LockIsStill /\ \A v \in Windows : jobs[v] = NoJob
    BY <1>2, Zenon
  <2>2. QED
    BY <2>1 DEF LockingCall
<1>3. QED
  BY <1>1, <1>2 DEF LockingCall

LEMMA LockingCallKeepsInv ==
  ASSUME VaultInv, VaultTypeOK', ~crossed', NEW w \in Windows, LockingCall(w)
  PROVE  VaultInv'
<1>1. /\ disk \in Disk /\ LockIsStill /\ jobs[w] = NoJob /\ UNCHANGED vaultVars
  BY UncrossedCall DEF VaultInv, VaultTypeOK, LockerTypeOK, LockingCall
<1>2. ASSUME NEW call \in Call, call.op \in Unlocking => \A v \in Windows : jobs[v] = NoJob,
             Begin(w, call), CallIsInOrder(call), call.pc \notin Resting, disk' = disk,
             call.op = "lock" => secrets' = Cleared /\ ~unlocked',
             ~unlocked' => secrets' = Cleared \/ call.pc \in {"status", "auth"},
             unlocked' = unlocked \/ unlocked' \/ call.op = "lock"
      PROVE  VaultInv'
  <2>1. AtLock(w, call, replies)
    BY <1>1, <1>2 DEF AtLock
  <2>2. calls[w] = Idle /\ calls[w].op = "none"
    BY <1>2, IdleFacts DEF Begin
  <2>3. Reply(w) \in Replies /\ Reply(w).to = w
    BY <1>1, <1>2 DEF Reply, Replies
  <2>4. \E r \in Replies : /\ replies' = Append(replies, r)
                           /\ (r.to = w /\ call.pc \notin Resting) \/ r.to = Background
    BY <1>2, <2>3 DEF Begin
  <2>5. /\ calls' = [calls EXCEPT ![w] = call]
        /\ call.pc # "unlocked" /\ calls[w].op # "lock"
    BY <1>2, <2>2 DEF Begin, Resting
  <2>6. QED
    BY <1>1, <1>2, <2>1, <2>4, <2>5, CallKeepsInv
<1>3. ASSUME NEW op \in Ops, NEW pc \in Pcs, NEW p \in Password, NEW m \in Mnemonic
      PROVE  /\ NewCall(op, pc, p, m) \in Call
             /\ NewCall(op, pc, p, m).op = op /\ NewCall(op, pc, p, m).pc = pc
  BY NewCallType DEF NewCall
<1>4. ASSUME \A v \in Windows : jobs[v] = NoJob, NEW p \in Passwords, UnlockCall(w, p)
      PROVE  VaultInv'
  <2> DEFINE call == NewCall("unlock", "status", p, None)
  <2>1. call \in Call /\ call.op = "unlock" /\ call.pc = "status"
    <3>1. "unlock" \in Ops /\ "status" \in Pcs /\ p \in Password /\ None \in Mnemonic
      BY DEF Ops, Pcs, Password, Mnemonic
    <3>2. QED
      BY <1>3, <3>1
  <2>2. /\ Begin(w, call) /\ disk' = disk /\ unlocked' = unlocked /\ secrets' = secrets
    BY <1>4 DEF UnlockCall
  <2>3. CallIsInOrder(call) /\ call.pc \notin Resting
    BY <2>1 DEF CallIsInOrder, Resting
  <2> HIDE DEF call
  <2>4. QED
    BY <1>2, <1>4, <2>1, <2>2, <2>3
<1>5. ASSUME LockCall(w)
      PROVE  VaultInv'
  <2> DEFINE call == NewCall("lock", "notify", None, None)
  <2>1. call \in Call /\ call.op = "lock" /\ call.pc = "notify"
    BY <1>3 DEF Ops, Pcs, Password, Mnemonic
  <2>2. /\ Begin(w, call) /\ disk' = disk /\ unlocked' = FALSE /\ secrets' = Cleared
    BY <1>5 DEF LockCall
  <2>3. CallIsInOrder(call) /\ call.pc \notin Resting /\ call.op \notin Unlocking
    BY <2>1 DEF CallIsInOrder, Resting, Unlocking
  <2> HIDE DEF call
  <2>4. QED
    BY <1>2, <2>1, <2>2, <2>3
<1>6. ASSUME \A v \in Windows : jobs[v] = NoJob,
             NEW m \in Mnemonics, NEW p \in Passwords, ResetPasswordCall(w, m, p)
      PROVE  VaultInv'
  <2> DEFINE call == NewCall("resetPassword", "reset-check", p, m)
  <2>1. call \in Call /\ call.op = "resetPassword" /\ call.pc = "reset-check"
    <3>1. /\ "resetPassword" \in Ops /\ "reset-check" \in Pcs
          /\ p \in Password /\ m \in Mnemonic
      BY DEF Ops, Pcs, Password, Mnemonic
    <3>2. QED
      BY <1>3, <3>1
  <2>2. /\ Begin(w, call) /\ disk' = disk /\ unlocked' = unlocked /\ secrets' = secrets
    BY <1>6 DEF ResetPasswordCall
  <2>3. CallIsInOrder(call) /\ call.pc \notin Resting
    BY <2>1 DEF CallIsInOrder, Resting
  <2> HIDE DEF call
  <2>4. AtLock(w, call, replies) /\ calls[w].pc = "idle"
    BY <1>1, <1>6, <2>2, IdleFacts DEF AtLock, Begin
  <2>5. ~unlocked => secrets = Cleared
    BY <2>4, NoKeyIsLeft
  <2>6. QED
    BY <1>2, <1>6, <2>1, <2>2, <2>3, <2>5
<1>7. QED
  BY <1>4, <1>5, <1>6, UncrossedCall

LEMMA LockingStepKeepsInv ==
  ASSUME VaultInv, VaultTypeOK', NEW w \in Windows, LockingStep(w)
  PROVE  VaultInv'
<1>1. /\ VaultTypeOK /\ LockerTypeOK /\ disk \in Disk /\ unlocked \in BOOLEAN
      /\ secrets \in [password: Password, mnemonic: Mnemonic]
      /\ calls \in [Windows -> Call] /\ calls[w] \in Call
      /\ CallIsInOrder(calls[w])
  BY DEF VaultInv, VaultTypeOK, LockerTypeOK, CallsFollowOps
<1>2. UNCHANGED vaultVars
  BY DEF LockingStep
\* A call that goes on and is not the one of a lock that was asked for ...
<1>3. ASSUME NEW call \in Call, Turn(w), calls[w].pc \notin Resting,
             call.op \in {calls[w].op, "none"}, CallIsInOrder(call),
             calls' = [calls EXCEPT ![w] = call],
             \/ replies' = Tail(replies)
             \/ \E r \in Replies : /\ replies' = Append(Tail(replies), r)
                                   /\ (r.to = w /\ call.pc \notin Resting) \/ r.to = Background,
             call.op = "lock" => secrets' = Cleared /\ ~unlocked',
             call.pc = "unlocked" => unlocked',
             ~unlocked' => secrets' = Cleared \/ call.pc \in {"status", "auth"},
             calls[w].op = "lock" => call.op = "lock",
             unlocked' = unlocked \/ unlocked'
      PROVE  VaultInv'
  <2>1. AtLock(w, call, Tail(replies))
    BY <1>3 DEF AtLock
  <2>2. QED
    BY <1>2, <1>3, <2>1, CallKeepsInv
<1>4. ASSUME disk' \in Disk
      PROVE  Reply(w) \in Replies /\ Reply(w).to = w
             /\ Reply(Background) \in Replies /\ Reply(Background).to = Background
  BY <1>4 DEF Reply, Replies
\* ... and one that returns.
<1>5. ASSUME Turn(w), calls[w].pc \notin Resting, calls[w].op # "lock", Return(w),
             unlocked' = unlocked, ~unlocked => secrets' = Cleared
      PROVE  VaultInv'
  <2>1. CallIsInOrder(Idle) /\ Idle \in Call /\ Idle.op = "none" /\ Idle.pc = "idle"
    BY IdleFacts, IdleType DEF CallIsInOrder
  <2>2. calls' = [calls EXCEPT ![w] = Idle] /\ replies' = Tail(replies)
    BY <1>5 DEF Return
  <2>3. QED
    BY <1>1, <1>3, <1>5, <2>1, <2>2
<1>6. ASSUME Turn(w), calls[w].pc \notin Resting, calls[w].pc \notin {"status", "auth"}, ~unlocked
      PROVE  secrets = Cleared
  <2>1. AtLock(w, calls[w], Tail(replies))
    BY <1>6 DEF AtLock
  <2>2. QED
    BY <1>6, <2>1, NoKeyIsLeft
<1>7. CASE UnlockStatus(w)
  <2>1. /\ Turn(w) /\ calls[w].pc = "status" /\ disk' = disk /\ unlocked' = unlocked
        /\ secrets' = [secrets EXCEPT !.password = calls[w].password]
        /\ calls' = [calls EXCEPT ![w].pc = "auth", ![w].generated = Got.step = "mnemonic"]
        /\ replies' = Append(Tail(replies), Reply(w))
    BY <1>7 DEF UnlockStatus, Resumed
  <2>2. PICK call \in Call :
          call = [calls[w] EXCEPT !.pc = "auth", !.generated = Got.step = "mnemonic"]
    BY <1>1 DEF Call, Pcs
  <2>3. call.pc = "auth" /\ call.op = calls[w].op
    BY <1>1, <2>2 DEF Call
  <2>4. calls' = [calls EXCEPT ![w] = call]
    BY <1>1, <2>1, <2>2
  <2>5. CallIsInOrder(call)
    BY <1>1, <2>1, <2>3 DEF CallIsInOrder
  <2>6. calls[w].pc \notin Resting /\ call.pc \notin Resting /\ calls[w].op # "lock"
    BY <1>1, <2>1, <2>3 DEF Resting, CallIsInOrder
  <2>7. \E r \in Replies : /\ replies' = Append(Tail(replies), r)
                           /\ (r.to = w /\ call.pc \notin Resting) \/ r.to = Background
    BY <1>1, <1>4, <2>1, <2>6
  <2>8. QED
    BY <1>1, <1>3, <2>1, <2>3, <2>4, <2>5, <2>6, <2>7
<1>8. CASE UnlockSucceeds(w)
  <2>1. /\ Turn(w) /\ calls[w].pc = "auth" /\ disk' = disk /\ unlocked' = TRUE
        /\ secrets' = secrets
        /\ calls' = [calls EXCEPT ![w].pc = "unlocked"]
        /\ replies' = IF calls[w].generated THEN Append(Tail(replies), Reply(Background))
                                            ELSE Tail(replies)
       
    BY <1>8 DEF UnlockSucceeds, Resumed
  <2>2. PICK call \in Call : call = [calls[w] EXCEPT !.pc = "unlocked"]
    BY <1>1 DEF Call, Pcs
  <2>3. call.pc = "unlocked" /\ call.op = calls[w].op
    BY <1>1, <2>2 DEF Call
  <2>4. calls' = [calls EXCEPT ![w] = call]
    BY <1>1, <2>1, <2>2
  <2>5. CallIsInOrder(call) /\ calls[w].op # "lock" /\ calls[w].pc \notin Resting
    BY <1>1, <2>1, <2>3 DEF CallIsInOrder, Resting
  <2>6. \/ replies' = Tail(replies)
        \/ \E r \in Replies : /\ replies' = Append(Tail(replies), r)
                              /\ (r.to = w /\ call.pc \notin Resting) \/ r.to = Background
    BY <1>1, <1>4, <2>1
  <2>7. QED
    BY <1>1, <1>3, <2>1, <2>3, <2>4, <2>5, <2>6
<1>9. CASE UnlockFails(w)
  <2>1. /\ Turn(w) /\ calls[w].pc = "auth" /\ Return(w)
        /\ disk' = disk /\ unlocked' = unlocked /\ secrets' = Cleared
    BY <1>9 DEF UnlockFails, Resumed
  <2>2. calls[w].pc \notin Resting /\ calls[w].op # "lock"
    BY <1>1, <2>1 DEF Resting, CallIsInOrder
  <2>3. QED
    BY <1>5, <2>1, <2>2, IdleType
<1>10. CASE LockNotified(w)
  <2>1. /\ Turn(w) /\ calls[w].pc = "notify" /\ disk' = disk /\ unlocked' = unlocked
        /\ secrets' = secrets
        /\ calls' = [calls EXCEPT ![w].pc = "locked"]
        /\ replies' = Tail(replies)
    BY <1>10 DEF LockNotified, Resumed
  <2>2. PICK call \in Call : call = [calls[w] EXCEPT !.pc = "locked"]
    BY <1>1 DEF Call, Pcs
  <2>3. call.pc = "locked" /\ call.op = calls[w].op
    BY <1>1, <2>2 DEF Call
  <2>4. calls' = [calls EXCEPT ![w] = call]
    BY <1>1, <2>1, <2>2
  <2>5. CallIsInOrder(call) /\ calls[w].op = "lock" /\ calls[w].pc \notin Resting
    BY <1>1, <2>1, <2>3 DEF CallIsInOrder, Resting
  <2>6. secrets = Cleared /\ ~unlocked
    BY <2>5 DEF VaultInv, LockIsDone
  <2>7. QED
    BY <1>1, <1>3, <2>1, <2>3, <2>4, <2>5, <2>6
<1>11. CASE ResetPasswordRefused(w)
  <2>1. /\ Turn(w) /\ calls[w].pc = "reset-check" /\ Return(w)
        /\ disk' = disk /\ unlocked' = unlocked /\ secrets' = secrets
    BY <1>11 DEF ResetPasswordRefused, Resumed
  <2>2. calls[w].pc \notin Resting /\ calls[w].op # "lock"
    BY <1>1, <2>1 DEF Resting, CallIsInOrder
  <2>3. ~unlocked => secrets' = Cleared
    BY <1>6, <2>1, <2>2
  <2>4. QED
    BY <1>1, <1>5, <2>1, <2>2, <2>3
<1>12. CASE ResetPasswordSeed(w)
  <2>1. /\ Turn(w) /\ calls[w].pc = "reset-check" /\ Await(w, "reset-seed")
        /\ disk' = [disk EXCEPT !.seed = [mnemonic |-> calls[w].mnemonic,
                                          password |-> calls[w].password]]
        /\ unlocked' = unlocked /\ secrets' = secrets
    BY <1>12 DEF ResetPasswordSeed, Resumed
  <2>2. calls[w].op = "resetPassword" /\ calls[w].pc \notin Resting
    BY <1>1, <2>1 DEF CallIsInOrder, Resting
  <2>3. PICK call \in Call :
          /\ call.pc = "reset-seed" /\ call.op = calls[w].op
          /\ calls' = [calls EXCEPT ![w] = call]
          /\ replies' = Append(Tail(replies), Reply(w))
    BY <1>1, <2>1, AwaitCall DEF Pcs
  <2>4. disk' \in Disk
    BY <1>1, <2>1 DEF Disk, Call
  <2>5. ~unlocked => secrets = Cleared
    BY <1>6, <2>1, <2>2
  <2>6. CallIsInOrder(call) /\ call.pc \notin Resting
    BY <2>2, <2>3 DEF CallIsInOrder, Resting
  <2>7. \E r \in Replies : /\ replies' = Append(Tail(replies), r)
                           /\ (r.to = w /\ call.pc \notin Resting) \/ r.to = Background
    BY <1>4, <2>3, <2>4, <2>6
  <2>8. QED
    BY <1>1, <1>3, <2>1, <2>2, <2>3, <2>4, <2>5, <2>6, <2>7
<1>13. CASE ResetPasswordChecker(w)
  <2>1. /\ Turn(w) /\ calls[w].pc = "reset-seed" /\ Await(w, "status")
        /\ disk' = [disk EXCEPT !.checker = calls[w].password]
        /\ unlocked' = unlocked /\ secrets' = [secrets EXCEPT !.password = calls[w].password]
    BY <1>13 DEF ResetPasswordChecker, Resumed
  <2>2. calls[w].op = "resetPassword" /\ calls[w].pc \notin Resting
    BY <1>1, <2>1 DEF CallIsInOrder, Resting
  <2>3. PICK call \in Call :
          /\ call.pc = "status" /\ call.op = calls[w].op
          /\ calls' = [calls EXCEPT ![w] = call]
          /\ replies' = Append(Tail(replies), Reply(w))
    BY <1>1, <2>1, AwaitCall DEF Pcs
  <2>4. disk' \in Disk
    BY <1>1, <2>1 DEF Disk, Call
  <2>5. CallIsInOrder(call) /\ call.pc \notin Resting
    BY <2>2, <2>3 DEF CallIsInOrder, Resting
  <2>6. \E r \in Replies : /\ replies' = Append(Tail(replies), r)
                           /\ (r.to = w /\ call.pc \notin Resting) \/ r.to = Background
    BY <1>4, <2>3, <2>4, <2>5
  <2>7. QED
    BY <1>1, <1>3, <2>1, <2>2, <2>3, <2>4, <2>5, <2>6
<1>14. QED
  BY <1>7, <1>8, <1>9, <1>10, <1>11, <1>12, <1>13 DEF LockingStep

\* The last part of a chain that has the lock.
LEMMA AnswerForm ==
  ASSUME VaultInv, NEW w \in Windows, Answer(w), jobs[w].pc = "none",
         jobs' = jobs, store' = store
  PROVE  /\ CallsFollowOps' /\ OneAtATime' /\ RepliesHaveTakers' /\ UnlockIsLast'
         /\ LockedIsCleared' /\ LockIsDone' /\ LoadsAreFresh'
<1>1. /\ calls[w].pc \in {"unlocked", "locked"} /\ calls' = [calls EXCEPT ![w] = Idle]
      /\ unlocked' = unlocked /\ secrets' = secrets /\ replies' = replies
  BY DEF Answer
<1>2. AtLock(w, Idle, replies)
  BY <1>1 DEF AtLock
<1>3. ~unlocked => secrets = Cleared
  BY <1>1, <1>2, NoKeyIsLeft
<1>4. CallIsInOrder(Idle) /\ Idle \in Call /\ Idle.op = "none" /\ Idle.pc = "idle"
  BY IdleFacts, IdleType DEF CallIsInOrder
<1>5. QED
  BY <1>1, <1>2, <1>3, <1>4, CallKeeps

LEMMA ResetDoneKeepsInv ==
  ASSUME VaultInv, VaultTypeOK', JobsHaveEntries', NEW w \in Windows, ResetDone(w)
  PROVE  VaultInv'
<1>1. /\ calls[w].op = "resetPassword" /\ Answer(w)
      /\ jobs' = jobs /\ store' = store /\ mem' = mem /\ failed' = failed
  BY DEF ResetDone, vaultVars
<1>2. jobs[w].pc = "none"
  BY <1>1 DEF VaultInv, OneAtATime
<1>3. MapsAreForgotten'
  BY <1>1 DEF VaultInv, VaultTypeOK, LockerTypeOK, MapsAreForgotten, Answer
<1>4. QED
  BY <1>1, <1>2, <1>3, AnswerForm DEF VaultInv

LEMMA LockMapsKeepsInv ==
  ASSUME VaultInv, VaultTypeOK', JobsHaveEntries', NEW w \in Windows, LockMaps(w)
  PROVE  VaultInv'
<1>1. /\ calls[w].pc = "locked" /\ Answer(w) /\ jobs' = jobs /\ store' = store
      /\ mem' = [mem EXCEPT !["identity"] = {}, !["approval"] = {}]
      /\ failed' = [failed EXCEPT !["identity"] = {}, !["approval"] = {}]
  BY DEF LockMaps
<1>2. jobs[w].pc = "none"
  BY <1>1 DEF VaultInv, OneAtATime, CallsFollowOps, CallIsInOrder
<1>3. /\ mem \in [Services -> SUBSET Entries] /\ failed \in [Services -> SUBSET Entries]
      /\ {"identity", "approval"} \subseteq Services
  BY DEF VaultInv, VaultTypeOK, Services
<1>4. MapsAreForgotten'
  BY <1>1, <1>3 DEF MapsAreForgotten
<1>5. QED
  BY <1>1, <1>2, <1>4, AnswerForm DEF VaultInv

LEMMA MnemonicKeepsInv ==
  ASSUME VaultInv, VaultTypeOK', JobsHaveEntries', LockingMnemonic
  PROVE  VaultInv'
<1>1. /\ VaultTypeOK /\ RepliesHaveTakers /\ UnlockIsLast
      /\ calls \in [Windows -> Call] /\ jobs \in [Windows -> Job]
  BY DEF VaultInv, VaultTypeOK, LockerTypeOK
<1>2. /\ Turn(Background) /\ replies' = Tail(replies)
      /\ secrets' = IF secrets.password # None /\ secrets.password = Got.seed.password
                    THEN [secrets EXCEPT !.mnemonic = Got.seed.mnemonic]
                    ELSE secrets
      /\ unlocked' = unlocked /\ calls' = calls
      /\ store' = store /\ mem' = mem /\ jobs' = jobs /\ failed' = failed
  BY DEF LockingMnemonic, MnemonicLoaded, vaultVars
<1>3. secrets = Cleared => secrets' = Cleared
  BY <1>2 DEF Cleared
<1>4. RepliesHaveTakers' /\ UnlockIsLast'
  <2>1. OnlyWindow(Background) /\ Before(Tail(replies))
    BY <1>1, <1>2 DEF OnlyWindow, Before, Turn
  <2>2. QED
    BY <1>1, <1>2, <2>1, ConstantsAssumption, QueueKept
<1>5. /\ CallsFollowOps' /\ OneAtATime' /\ LoadsAreFresh' /\ MapsAreForgotten'
  BY <1>2 DEF VaultInv, CallsFollowOps, CallIsInOrder, OneAtATime,
              LoadsAreFresh, MapsAreForgotten
<1>6. LockedIsCleared' /\ LockIsDone'
  BY <1>2, <1>3 DEF VaultInv, LockedIsCleared, LockIsDone
<1>7. QED
  BY <1>4, <1>5, <1>6 DEF VaultInv

-----------------------------------------------------------------------------
(* Reading the stores *)

LEMMA LoadingFacts ==
  ASSUME VaultInv, NEW w \in Windows, jobs[w].pc = "load" \/ Opened(w)
  PROVE  /\ calls[w].op = "unlock" /\ calls[w].pc = "unlocked" /\ unlocked
         /\ \A v \in Windows \ {w} : calls[v].op = "none" /\ jobs[v].pc = "none"
<1>1. calls[w].op = "unlock" /\ calls[w].pc = "unlocked"
  BY DEF VaultInv, OneAtATime, Opened
<1>2. QED
  BY <1>1 DEF VaultInv, OneAtATime, LockIsDone, Unlocking

LEMMA ReadsKeepsInv ==
  ASSUME VaultInv, VaultTypeOK', JobsHaveEntries', NEW w \in Windows,
         jobs[w].pc = "load" \/ Opened(w),
         NEW queue, Before(queue), Free(queue, w), Reads(w, queue)
  PROVE  VaultInv'
<1>1. /\ VaultTypeOK /\ RepliesHaveTakers /\ UnlockIsLast
      /\ calls \in [Windows -> Call] /\ jobs \in [Windows -> Job] /\ disk \in Disk
      /\ calls' \in [Windows -> Call] /\ jobs' \in [Windows -> Job]
      /\ disk' = disk /\ unlocked' = unlocked /\ secrets' = secrets /\ store' = store
  BY DEF VaultInv, VaultTypeOK, LockerTypeOK, Reads
<1>2. /\ calls[w].op = "unlock" /\ calls[w].pc = "unlocked" /\ unlocked
      /\ \A v \in Windows \ {w} : calls[v].op = "none" /\ jobs[v].pc = "none"
  BY LoadingFacts
<1>3. \A v \in Windows \ {w} : calls[v].op \notin Unlocking
  BY <1>2 DEF Unlocking
<1>4. MapsAreForgotten' /\ LockedIsCleared'
  BY <1>1, <1>2 DEF MapsAreForgotten, LockedIsCleared
<1>5. CASE Done(w, queue) /\ calls' = [calls EXCEPT ![w] = Idle]
  <2>1. /\ jobs' = [jobs EXCEPT ![w] = NoJob] /\ replies' = queue
        /\ calls' = [calls EXCEPT ![w] = Idle]
    BY <1>5 DEF Done
  <2>2. /\ calls'[w].op = "none" /\ calls'[w].pc = "idle" /\ jobs'[w].pc = "none"
        /\ \A v \in Windows \ {w} : calls'[v] = calls[v] /\ jobs'[v] = jobs[v]
    BY <1>1, <2>1, IdleFacts, NoJobType
  <2>3. OnlyWindow(w)
    BY <1>1, <2>2 DEF OnlyWindow
  <2>4. RepliesHaveTakers' /\ UnlockIsLast'
    BY <1>1, <2>1, <2>3, QueueKept
  <2>5. \A v \in Windows : calls'[v].op = "none" /\ calls'[v].pc = "idle" /\ jobs'[v].pc = "none"
    BY <1>2, <2>2 DEF VaultInv, CallsFollowOps, CallIsInOrder
  <2>6. CallsFollowOps' /\ OneAtATime' /\ LockIsDone' /\ LoadsAreFresh'
    BY <2>5 DEF CallsFollowOps, CallIsInOrder, OneAtATime, LockIsDone, LoadsAreFresh, Unlocking
  <2>7. QED
    BY <1>4, <2>4, <2>6 DEF VaultInv
<1>6. ASSUME NEW s \in Services, Wait(w, Load(s), queue), UNCHANGED calls
      PROVE  VaultInv'
  <2>1. /\ jobs' = [jobs EXCEPT ![w] = Load(s)]
        /\ replies' = Append(queue, [to |-> w, disk |-> disk]) /\ calls' = calls
    BY <1>6 DEF Wait
  <2>2. /\ jobs'[w].pc = "load" /\ jobs'[w].loads = s /\ jobs'[w].got = store[s]
        /\ \A v \in Windows \ {w} : jobs'[v] = jobs[v]
    BY <1>1, <2>1, LoadType
  <2>3. OnlyWindow(w)
    BY <1>1, <2>1, <2>2 DEF OnlyWindow
  <2>4. [to |-> w, disk |-> disk] \in Replies
    BY <1>1 DEF Replies
  <2>5. Waits(w)'
    BY <2>2 DEF Waits, Unasked
  <2>6. \E r \in Replies :
          /\ replies' = Append(queue, r)
          /\ (r.to = w /\ w \in Windows /\ Waits(w)') \/ r.to = Background
          /\ \A v \in Windows \ {w} : calls[v].op \notin Unlocking
    BY <1>3, <2>1, <2>4, <2>5
  <2>7. RepliesHaveTakers' /\ UnlockIsLast'
    BY <1>1, <2>3, <2>6, QueueKept
  <2>8. CallsFollowOps' /\ LockIsDone'
    BY <1>1, <2>1 DEF VaultInv, CallsFollowOps, CallIsInOrder, LockIsDone
  <2>9. OneAtATime' /\ LoadsAreFresh'
    BY <1>1, <1>2, <2>1, <2>2 DEF OneAtATime, LoadsAreFresh, Unlocking
  <2>10. QED
    BY <1>4, <2>7, <2>8, <2>9 DEF VaultInv
<1>7. QED
  BY <1>5, <1>6 DEF Reads

LEMMA LoadFirstKeepsInv ==
  ASSUME VaultInv, VaultTypeOK', JobsHaveEntries', NEW w \in Windows, LoadFirst(w)
  PROVE  VaultInv'
<1>1. Opened(w) /\ Reads(w, replies)
  BY LoadFirstReads DEF VaultInv
<1>2. ~Waits(w)
  BY <1>1, NoJobType DEF Opened, Waits, Resting, Unasked
<1>3. Before(replies) /\ Free(replies, w)
  BY <1>2, RestIsFree DEF VaultInv
<1>4. QED
  BY <1>1, <1>3, ReadsKeepsInv

LEMMA LoadedKeepsInv ==
  ASSUME VaultInv, VaultTypeOK', JobsHaveEntries', NEW w \in Windows,
         Loaded(w) \/ LoadFails(w)
  PROVE  VaultInv'
<1>1. Turn(w) /\ jobs[w].pc = "load" /\ Reads(w, Tail(replies))
  BY LoadedReads DEF VaultInv
<1>2. Before(Tail(replies)) /\ Free(Tail(replies), w)
  BY <1>1, TurnFrees DEF VaultInv
<1>3. QED
  BY <1>1, <1>2, ReadsKeepsInv

-----------------------------------------------------------------------------
(* The invariant *)

LEMMA EmptyQueue ==
  ASSUME replies' = <<>>
  PROVE  RepliesHaveTakers' /\ UnlockIsLast'
<1>1. 1..Len(replies') = {}
  OBVIOUS
<1>2. QED
  BY <1>1 DEF RepliesHaveTakers, UnlockIsLast

\* A restart makes up for every call that has crossed.
LEMMA RestartRestoresVault ==
  ASSUME VaultTypeOK', JobsHaveEntries', RestartVault
  PROVE  VaultInv'
<1>1. /\ unlocked' = FALSE /\ secrets' = Cleared /\ calls' = [w \in Windows |-> Idle]
      /\ replies' = <<>> /\ mem' = [s \in Services |-> {}]
      /\ failed' = [s \in Services |-> {}] /\ jobs' = [w \in Windows |-> NoJob]
  BY DEF RestartVault, Restart
<1>2. \A w \in Windows : /\ calls'[w].op = "none" /\ calls'[w].pc = "idle"
                         /\ jobs'[w].pc = "none"
  BY <1>1, IdleFacts, NoJobType
<1>3. CallsFollowOps' /\ OneAtATime' /\ LockIsDone' /\ LoadsAreFresh'
  BY <1>2 DEF CallsFollowOps, CallIsInOrder, OneAtATime, LockIsDone, LoadsAreFresh, Unlocking
<1>4. LockedIsCleared' /\ MapsAreForgotten'
  BY <1>1 DEF LockedIsCleared, MapsAreForgotten, Services
<1>5. RepliesHaveTakers' /\ UnlockIsLast'
  BY <1>1, EmptyQueue
<1>6. QED
  BY <1>3, <1>4, <1>5 DEF VaultInv

LEMMA InitHasVault == VaultInit => VaultInv
<1> SUFFICES ASSUME VaultInit PROVE VaultInv
  OBVIOUS
<1>1. PICK m \in Mnemonics, p \in Passwords :
        disk = [checker |-> p, seed |-> [mnemonic |-> m, password |-> p],
                accounts |-> m, step |-> "mnemonic"]
  BY DEF VaultInit
<1>2. /\ unlocked = FALSE /\ secrets = Cleared /\ calls = [w \in Windows |-> Idle]
      /\ replies = <<>> /\ interrupted = {} /\ overlapped = FALSE /\ restarts = 0
      /\ crossed = FALSE
      /\ store = [s \in Services |-> None] /\ mem = [s \in Services |-> {}]
      /\ failed = [s \in Services |-> {}] /\ jobs = [w \in Windows |-> NoJob]
  BY DEF VaultInit
<1>3. disk \in Disk
  BY <1>1 DEF Disk, Password, Mnemonic
<1>4. \A w \in Windows : calls[w].op = "none" /\ calls[w].pc = "idle" /\ jobs[w].pc = "none"
  BY <1>2, IdleFacts, NoJobType
<1>5. LockerTypeOK
  <2>1. replies \in Seq(Replies)
    BY <1>2
  <2>2. calls \in [Windows -> Call] /\ secrets \in [password: Password, mnemonic: Mnemonic]
    BY <1>2, IdleType
  <2>3. /\ unlocked \in BOOLEAN /\ overlapped \in BOOLEAN
        /\ interrupted \subseteq Ops /\ restarts \in 0..MaxRestarts
    <3>1. unlocked \in BOOLEAN /\ overlapped \in BOOLEAN
      BY <1>2
    <3>2. interrupted \subseteq Ops
      BY <1>2
    <3>3. restarts \in 0..MaxRestarts
      BY <1>2, ConstantsAssumption
    <3>4. QED
      BY <3>1, <3>2, <3>3
  <2>4. QED
    BY <1>3, <2>1, <2>2, <2>3 DEF LockerTypeOK, Replies
<1>6. VaultTypeOK
  BY <1>2, <1>5, NoJobType DEF VaultTypeOK
<1>7. CallsFollowOps /\ JobsHaveEntries
  BY <1>4 DEF CallsFollowOps, CallIsInOrder, JobsHaveEntries, JobIsInOrder
<1>8. OneAtATime /\ LockIsDone /\ LoadsAreFresh
  BY <1>4 DEF OneAtATime, LockIsDone, LoadsAreFresh, Unlocking
<1>9. LockedIsCleared /\ MapsAreForgotten
  BY <1>2 DEF LockedIsCleared, MapsAreForgotten, Services
<1>10. 1..Len(replies) = {}
  BY <1>2
<1>11. RepliesHaveTakers /\ UnlockIsLast
  BY <1>10 DEF RepliesHaveTakers, UnlockIsLast
<1>12. QED
  BY <1>6, <1>7, <1>8, <1>9, <1>11 DEF VaultInv

\* Every step that crosses nothing is one of these.
LEMMA VaultSteps ==
  ASSUME VaultInv, ~crossed', VaultNext
  PROVE  \/ \E w \in Windows : \/ LoadFirst(w) \/ LockingCall(w) \/ LockingStep(w)
                               \/ ResetDone(w) \/ LockMaps(w)
                               \/ Loaded(w) \/ LoadFails(w) \/ Handles(w)
         \/ LockingMnemonic \/ RestartVault
<1>1. ASSUME NEW w \in Windows, StoreCall(w), crossed' = (crossed \/ ~LockIsStill)
      PROVE  Handles(w)
  <2>1. LockIsStill
    BY <1>1, Zenon
  <2>2. Ask(w)
    BY <1>1 DEF StoreCall, IdentityList, IdentityItem, IdentityPage, PermissionModal,
                DeleteAllIdentities, SetIdentityName, DeleteIdentity, Disconnect, SetPermission,
                RemoveApproval, CreateIdentity, CreateSignedIdentity, Connect, ApproveCall
  <2>3. AtWork(w, replies)
    BY <2>1, <2>2, AskIsAtWork
  <2>4. HandlerStep(w, replies)
    BY <1>1, StoreCallRuns DEF VaultInv
  <2>5. QED
    BY <2>3, <2>4 DEF Handles
<1>2. \A w \in Windows : StoreStep(w) => Loaded(w) \/ LoadFails(w) \/ Handles(w)
  BY StoreStepRuns, GoesOnHandles DEF StoreStep, VaultInv
<1>3. QED
  BY <1>1, <1>2 DEF VaultNext

\* What has crossed stays in history until a restart.
LEMMA CrossedStays ==
  ASSUME [VaultNext]_vars, crossed
  PROVE  crossed' \/ RestartVault
  BY DEF VaultNext, LockingCall, vars

LEMMA NextKeepsVault ==
  ASSUME VaultTypeOK, JobsHaveEntries, crossed \/ VaultInv, [VaultNext]_vars, ~crossed'
  PROVE  VaultInv'
<1>1. VaultTypeOK' /\ JobsHaveEntries'
  BY VaultNextKeepsTypes
<1>2. CASE RestartVault
  BY <1>1, <1>2, RestartRestoresVault
<1>3. CASE VaultNext /\ ~RestartVault
  <2>1. VaultInv
    BY <1>3, CrossedStays
  <2>2. QED
    BY <1>1, <1>3, <2>1, VaultSteps, LoadFirstKeepsInv, LockingCallKeepsInv,
       LockingStepKeepsInv, ResetDoneKeepsInv, LockMapsKeepsInv, LoadedKeepsInv,
       HandlerKeepsInv, MnemonicKeepsInv
<1>4. CASE UNCHANGED vars
  <2>1. UNCHANGED <<disk, unlocked, secrets, calls, replies, store, mem, jobs, failed, crossed>>
    BY <1>4 DEF vars, lockerVars, vaultVars
  <2>2. VaultInv
    BY <2>1
  <2>3. CallsFollowOps' /\ OneAtATime' /\ LockedIsCleared' /\ LockIsDone'
    BY <2>1, <2>2 DEF VaultInv, CallsFollowOps, CallIsInOrder, OneAtATime, LockedIsCleared,
                      LockIsDone
  <2>4. RepliesHaveTakers' /\ UnlockIsLast' /\ LoadsAreFresh' /\ MapsAreForgotten'
    BY <2>1, <2>2 DEF VaultInv, RepliesHaveTakers, UnlockIsLast, LoadsAreFresh, MapsAreForgotten
  <2>5. QED
    BY <1>1, <2>3, <2>4 DEF VaultInv
<1>5. QED
  BY <1>2, <1>3, <1>4

LEMMA VaultWellFormed == VaultSpec => [](VaultTypeOK /\ JobsHaveEntries)
<1>1. VaultInit => VaultTypeOK /\ JobsHaveEntries
  BY InitHasVault DEF VaultInv
<1>2. QED
  BY <1>1, VaultNextKeepsTypes, PTL DEF VaultSpec

\* The types of the maps, the stores and the handlers hold, whatever calls cross.
THEOREM VaultTypesHold == VaultSpec => []VaultTypeOK
  BY VaultWellFormed, PTL

\* Until a call crosses a lock, an unlock or a reset, and again from the next restart, the
\* handlers of the lock and of the stores keep the inductive invariant: calls and jobs in
\* order, replies for those who wait, no key in a locked wallet, nothing left in its maps.
THEOREM VaultInvHolds == VaultSpec => [](crossed \/ VaultInv)
<1>1. VaultTypeOK /\ JobsHaveEntries /\ (crossed \/ VaultInv) /\ [VaultNext]_vars
        => (crossed \/ VaultInv)'
  BY NextKeepsVault
<1>2. QED
  BY <1>1, InitHasVault, VaultWellFormed, PTL DEF VaultSpec

\* When nothing is in progress in a locked wallet, what is left of the identities and
\* approvals in memory is only what could not be saved when the lock came first, however
\* the password is reset, unless calls have crossed (ApprovalService.lock,
\* ZkIdentityService.lock).
THEOREM LockingForgets == VaultSpec => [](crossed \/ LockedForgets)
<1>1. VaultInv => LockedForgets
  <2>1. SUFFICES ASSUME VaultInv, VaultQuiet, ~unlocked
                 PROVE  \A s \in {"identity", "approval"} : mem[s] \subseteq failed[s]
    BY DEF LockedForgets
  <2>2. \A w \in Windows : calls[w].op = "none"
    BY <2>1, IdleFacts DEF VaultQuiet, Quiet
  <2>3. QED
    BY <2>1, <2>2 DEF VaultInv, MapsAreForgotten
<1>2. QED
  BY <1>1, VaultInvHolds, PTL

-----------------------------------------------------------------------------
(* Maps and stores *)

LEMMA StoreIsNoNone == \A S \in SUBSET Entries : S # None
  BY StoresAssumption

\* What belongs to a store has not changed.
SameStore(s) == mem'[s] = mem[s] /\ store'[s] = store[s] /\ failed'[s] = failed[s]

\* A step is as good for the map of s as it was before.
KeepsAgreement(s) == (NoSurplus(s) => NoSurplus(s)') /\ (Agree(s) => Agree(s)')

LEMMA SameStoreAgrees ==
  ASSUME NEW s \in Services, SameStore(s)
  PROVE  KeepsAgreement(s)
<1>1. Stored(s)' = Stored(s)
  BY DEF SameStore, Stored
<1>2. \A e : Excused(s, e)' = Excused(s, e)
  BY DEF SameStore, Excused
<1>3. QED
  BY <1>1, <1>2 DEF KeepsAgreement, NoSurplus, Agree, SameStore

LEMMA EqualMapsAgree ==
  ASSUME NEW s \in Services, mem'[s] = Stored(s)'
  PROVE  NoSurplus(s)' /\ Agree(s)'
  BY DEF NoSurplus, Agree

LEMMA WipedAgrees ==
  ASSUME VaultTypeOK, NEW s \in Services, Wiped(s), NEW t \in Services
  PROVE  KeepsAgreement(t)
<1>1. CASE t = s
  <2>1. mem'[s] = {} /\ store'[s] = None
    BY DEF Wiped, VaultTypeOK
  <2>2. mem'[s] = Stored(s)'
    BY <2>1 DEF Stored
  <2>3. QED
    BY <1>1, <2>2, EqualMapsAgree DEF KeepsAgreement
<1>2. CASE t # s
  <2>1. SameStore(t)
    BY <1>2 DEF Wiped, VaultTypeOK, SameStore
  <2>2. QED
    BY <2>1, SameStoreAgrees
<1>3. QED
  BY <1>1, <1>2

LEMMA SavedAgrees ==
  ASSUME VaultTypeOK, NEW s \in Services, NEW e \in Entries, Saved(s, e), NEW t \in Services
  PROVE  KeepsAgreement(t)
<1>1. /\ mem \in [Services -> SUBSET Entries] /\ failed \in [Services -> SUBSET Entries]
      /\ store \in [Services -> (SUBSET Entries) \cup {None}]
  BY DEF VaultTypeOK
<1>2. PICK map \in SUBSET Entries :
        /\ map \subseteq mem[s] \cup {e} /\ mem[s] \ map \subseteq SameKey(e)
        /\ mem' = [mem EXCEPT ![s] = map]
        /\ \/ HasKey /\ store' = [store EXCEPT ![s] = map] /\ failed' = [failed EXCEPT ![s] = {}]
           \/ store' = store /\ failed' = [failed EXCEPT ![s] = @ \cup {e}]
  BY DEF Saved
<1>3. CASE t # s
  <2>1. SameStore(t)
    BY <1>1, <1>2, <1>3 DEF SameStore
  <2>2. QED
    BY <2>1, SameStoreAgrees
<1>4. CASE t = s /\ store' = [store EXCEPT ![s] = map]
  <2>1. mem'[s] = map /\ store'[s] = map
    BY <1>1, <1>2, <1>4
  <2>2. mem'[s] = Stored(s)'
    BY <2>1, StoreIsNoNone DEF Stored
  <2>3. QED
    BY <1>4, <2>2, EqualMapsAgree DEF KeepsAgreement
<1>5. CASE t = s /\ store' = store /\ failed' = [failed EXCEPT ![s] = @ \cup {e}]
  <2>1. mem'[s] = map /\ failed'[s] = failed[s] \cup {e} /\ Stored(s)' = Stored(s)
    BY <1>1, <1>2, <1>5 DEF Stored
  <2>2. \A f : Excused(s, f) => Excused(s, f)'
    BY <2>1 DEF Excused
  <2>3. ASSUME NEW f \in Entries, f \in SameKey(e)
        PROVE  Excused(s, f)'
    BY <2>1, <2>3, KeysAreShared DEF Excused
  <2>4. ASSUME NEW f \in Entries, ~(f \in mem'[s] <=> f \in mem[s])
        PROVE  Excused(s, f)'
    BY <1>2, <2>1, <2>3, <2>4, EntryHasKey
  <2>5. Stored(s) \subseteq Entries /\ mem[s] \subseteq Entries /\ map \subseteq Entries
    BY <1>1 DEF Stored
  <2>6. NoSurplus(s) => NoSurplus(s)'
    <3>1. SUFFICES ASSUME NoSurplus(s), NEW f \in mem'[s] \ Stored(s)
                   PROVE  Excused(s, f)'
      BY <2>1 DEF NoSurplus
    <3>2. f \in Entries
      BY <2>1, <2>5
    <3>3. QED
      BY <2>2, <2>4, <3>1, <3>2 DEF NoSurplus
  <2>7. Agree(s) => Agree(s)'
    <3>1. SUFFICES ASSUME Agree(s),
                          NEW f \in (mem'[s] \ Stored(s)) \cup (Stored(s) \ mem'[s])
                   PROVE  Excused(s, f)'
      BY <2>1 DEF Agree
    <3>2. f \in Entries
      BY <2>1, <2>5
    <3>3. QED
      BY <2>2, <2>4, <3>1, <3>2 DEF Agree
  <2>8. QED
    BY <1>5, <2>6, <2>7 DEF KeepsAgreement
<1>6. QED
  BY <1>2, <1>3, <1>4, <1>5

LEMMA MapStepAgrees ==
  ASSUME VaultTypeOK, MapStep
  PROVE  \A t \in Services : KeepsAgreement(t)
<1>1. ASSUME KeepMaps, NEW t \in Services
      PROVE  KeepsAgreement(t)
  BY <1>1, SameStoreAgrees DEF KeepMaps, SameStore
<1>2. QED
  BY <1>1, WipedAgrees, SavedAgrees DEF MapStep

LEMMA HandlerKeepsMaps ==
  ASSUME VaultInv, MapsInv, NEW w \in Windows, Handles(w)
  PROVE  MapsInv'
<1>1. PICK queue \in {replies, Tail(replies)}, job \in Job :
        AtWork(w, queue) /\ Runs(w, queue, job) /\ MapStep
  BY DEF Handles, HandlerStep
<1>2. VaultTypeOK /\ disk \in Disk
  BY DEF VaultInv, VaultTypeOK, LockerTypeOK
<1>3. /\ \A v \in Windows : calls[v].op \notin Unlocking
      /\ Before(queue) /\ calls' = calls /\ secrets' = secrets
  BY <1>1 DEF AtWork, Runs, KeepLock
<1>4. Keyless => Keyless'
  <2>1. SUFFICES ASSUME Keyless, \A i \in 1..Len(replies) : replies[i].to # Background
                 PROVE  \A i \in 1..Len(replies') : replies'[i].to # Background
    BY <1>3 DEF Keyless, HasKey
  <2>2. /\ [to |-> w, disk |-> disk] \in Replies
        /\ [to |-> w, disk |-> disk].to # Background
    BY <1>2, ConstantsAssumption DEF Replies
  <2>3. \/ replies' = queue
        \/ \E r \in Replies : replies' = Append(queue, r) /\ r.to # Background
    BY <1>1, <2>2 DEF Runs
  <2>4. QED
    BY <1>2, <1>3, <2>1, <2>3, NoMnemonicComes
<1>5. ASSUME NEW s \in Services
      PROVE  NoSurplus(s)' /\ IsReady(s)'
  <2>1. NoSurplus(s) /\ (Agree(s) \/ Keyless)
    BY <1>3 DEF MapsInv, IsReady, Unread, Unlocking
  <2>2. KeepsAgreement(s)
    BY <1>1, <1>2, MapStepAgrees
  <2>3. QED
    BY <1>4, <2>1, <2>2 DEF KeepsAgreement, IsReady
<1>6. QED
  BY <1>5 DEF MapsInv

\* When neither maps nor stores change, three things make the maps ready.
LEMMA LockKeepsMaps ==
  ASSUME MapsInv, store' = store, mem' = mem, failed' = failed,
         \/ Keyless'
         \/ \E w \in Windows : \A s \in Services : Unread(w, s)'
         \/ \A s \in Services : Agree(s)
  PROVE  MapsInv'
<1>1. ASSUME NEW s \in Services
      PROVE  NoSurplus(s)' /\ IsReady(s)'
  <2>1. KeepsAgreement(s)
    BY SameStoreAgrees DEF SameStore
  <2>2. QED
    BY <2>1 DEF MapsInv, KeepsAgreement, IsReady
<1>2. QED
  BY <1>1 DEF MapsInv

\* A reset finds maps that agree with the stores, and leaves them.
LEMMA ResetIsReady ==
  ASSUME VaultInv, MapsInv, NEW w \in Windows, calls[w].op = "resetPassword"
  PROVE  \A s \in Services : Agree(s)
<1>1. \A v \in Windows : calls[v].op # "unlock"
  BY DEF VaultInv, OneAtATime
<1>2. ~Keyless
  BY DEF Keyless
<1>3. QED
  BY <1>1, <1>2 DEF MapsInv, IsReady, Unread

LEMMA ClearedIsKeyless ==
  ASSUME secrets' = Cleared, \A v \in Windows : calls'[v].op # "resetPassword"
  PROVE  Keyless'
  BY DEF Keyless, HasKey, Cleared

LEMMA LockingCallKeepsMaps ==
  ASSUME FALSE \notin ResetWhen, VaultInv, MapsInv, ~crossed', NEW w \in Windows, LockingCall(w)
  PROVE  MapsInv'
<1>1. /\ store' = store /\ mem' = mem /\ failed' = failed /\ jobs' = jobs
      /\ calls \in [Windows -> Call]
  BY DEF LockingCall, vaultVars, VaultInv, VaultTypeOK, LockerTypeOK
<1>2. jobs[w] = NoJob /\ \A v \in Windows : calls[v].op = "none"
  BY UncrossedCall, IdleFacts DEF LockIsStill
<1>3. ASSUME NEW p \in Passwords, UnlockCall(w, p)
      PROVE  MapsInv'
  <2>1. calls'[w].op = "unlock" /\ jobs'[w].pc # "load"
    BY <1>1, <1>2, <1>3, NoJobType DEF UnlockCall, Begin, NewCall
  <2>2. \A s \in Services : Unread(w, s)'
    BY <2>1 DEF Unread
  <2>3. QED
    BY <1>1, <2>2, LockKeepsMaps
<1>4. ASSUME LockCall(w)
      PROVE  MapsInv'
  <2>1. calls'[w].op = "lock" /\ secrets' = Cleared
    BY <1>1, <1>4 DEF LockCall, Begin, NewCall
  <2>2. \A v \in Windows \ {w} : calls'[v] = calls[v]
    BY <1>1, <1>4 DEF LockCall, Begin
  <2>3. \A v \in Windows : calls'[v].op # "resetPassword"
    BY <1>2, <2>1, <2>2
  <2>4. QED
    BY <1>1, <2>1, <2>3, ClearedIsKeyless, LockKeepsMaps
<1>5. ASSUME HasKey \in ResetWhen
      PROVE  MapsInv'
  <2>1. HasKey
    BY <1>5 DEF HasKey
  <2>2. \A s \in Services : Agree(s)
    BY <1>2, <2>1 DEF MapsInv, IsReady, Keyless, Unread
  <2>3. QED
    BY <1>1, <2>2, LockKeepsMaps
<1>6. QED
  BY <1>3, <1>4, <1>5, UncrossedCall

LEMMA LockingStepKeepsMaps ==
  ASSUME VaultInv, MapsInv, NEW w \in Windows, LockingStep(w)
  PROVE  MapsInv'
<1>1. /\ store' = store /\ mem' = mem /\ failed' = failed /\ jobs' = jobs
      /\ calls \in [Windows -> Call] /\ calls[w] \in Call /\ CallIsInOrder(calls[w])
  BY DEF LockingStep, vaultVars, VaultInv, VaultTypeOK, LockerTypeOK, CallsFollowOps
<1>2. CASE calls[w].op = "resetPassword"
  BY <1>1, <1>2, ResetIsReady, LockKeepsMaps
<1>3. calls[w].op # "none" => \A v \in Windows \ {w} : calls[v].op = "none"
  BY DEF VaultInv, OneAtATime
<1>4. CASE calls[w].op = "unlock"
  <2>1. UnlockStatus(w) \/ UnlockSucceeds(w) \/ UnlockFails(w)
    BY <1>1, <1>4 DEF CallIsInOrder, LockingStep, LockNotified, ResetPasswordRefused,
                      ResetPasswordSeed, ResetPasswordChecker, Resumed
  <2>2. CASE UnlockStatus(w) \/ UnlockSucceeds(w)
    <3>1. calls'[w].op = "unlock" /\ calls[w].pc # "unlocked"
      BY <1>1, <1>4, <2>2 DEF UnlockStatus, UnlockSucceeds, Resumed, Call
    <3>2. jobs'[w].pc # "load"
      BY <1>1, <3>1 DEF VaultInv, OneAtATime
    <3>3. \A s \in Services : Unread(w, s)'
      BY <3>1, <3>2 DEF Unread
    <3>4. QED
      BY <1>1, <3>3, LockKeepsMaps
  <2>3. CASE UnlockFails(w)
    <3>1. secrets' = Cleared /\ calls' = [calls EXCEPT ![w] = Idle]
      BY <2>3 DEF UnlockFails, Return
    <3>2. \A v \in Windows : calls'[v].op = "none"
      BY <1>1, <1>3, <1>4, <3>1, IdleFacts
    <3>3. QED
      BY <1>1, <3>1, <3>2, ClearedIsKeyless, LockKeepsMaps
  <2>4. QED
    BY <2>1, <2>2, <2>3
<1>5. CASE calls[w].op = "lock"
  <2>1. LockNotified(w)
    BY <1>1, <1>5 DEF CallIsInOrder, LockingStep, UnlockStatus, UnlockSucceeds, UnlockFails,
                      ResetPasswordRefused, ResetPasswordSeed, ResetPasswordChecker, Resumed
  <2>2. secrets' = Cleared
    BY <1>5, <2>1 DEF LockNotified, VaultInv, LockIsDone
  <2>3. /\ calls'[w].op = "lock"
        /\ \A v \in Windows \ {w} : calls'[v] = calls[v]
    BY <1>1, <1>5, <2>1 DEF LockNotified, Call
  <2>4. \A v \in Windows : calls'[v].op # "resetPassword"
    BY <1>3, <1>5, <2>3
  <2>5. QED
    BY <1>1, <2>2, <2>4, ClearedIsKeyless, LockKeepsMaps
<1>6. calls[w].op # "none"
  BY <1>1 DEF CallIsInOrder, LockingStep, UnlockStatus, UnlockSucceeds, UnlockFails,
              LockNotified, ResetPasswordRefused, ResetPasswordSeed, ResetPasswordChecker, Resumed
<1>7. QED
  BY <1>1, <1>2, <1>4, <1>5, <1>6 DEF CallIsInOrder

LEMMA ResetDoneKeepsMaps ==
  ASSUME VaultInv, MapsInv, NEW w \in Windows, ResetDone(w)
  PROVE  MapsInv'
  BY ResetIsReady, LockKeepsMaps DEF ResetDone, vaultVars

LEMMA LockMapsKeepsMaps ==
  ASSUME VaultInv, MapsInv, NEW w \in Windows, LockMaps(w)
  PROVE  MapsInv'
<1>1. /\ calls[w].pc = "locked" /\ calls' = [calls EXCEPT ![w] = Idle] /\ secrets' = secrets
      /\ store' = store
      /\ mem' = [mem EXCEPT !["identity"] = {}, !["approval"] = {}]
      /\ failed' = [failed EXCEPT !["identity"] = {}, !["approval"] = {}]
  BY DEF LockMaps, Answer
<1>2. /\ calls \in [Windows -> Call] /\ mem \in [Services -> SUBSET Entries]
      /\ failed \in [Services -> SUBSET Entries]
  BY DEF VaultInv, VaultTypeOK, LockerTypeOK
<1>3. calls[w].op = "lock"
  BY <1>1 DEF VaultInv, CallsFollowOps, CallIsInOrder
<1>4. secrets' = Cleared
  BY <1>1, <1>3 DEF VaultInv, LockIsDone
<1>5. \A v \in Windows : calls'[v].op # "resetPassword"
  BY <1>1, <1>2, <1>3, IdleFacts DEF VaultInv, OneAtATime
<1>6. Keyless'
  BY <1>4, <1>5, ClearedIsKeyless
<1>7. ASSUME NEW s \in Services
      PROVE  NoSurplus(s)'
  <2>1. CASE s \in {"identity", "approval"}
    BY <1>1, <1>2, <2>1 DEF NoSurplus
  <2>2. CASE s \notin {"identity", "approval"}
    <3>1. SameStore(s)
      BY <1>1, <1>2, <2>2 DEF SameStore
    <3>2. QED
      BY <3>1, SameStoreAgrees DEF KeepsAgreement, MapsInv
  <2>3. QED
    BY <2>1, <2>2
<1>8. QED
  BY <1>6, <1>7 DEF MapsInv, IsReady

LEMMA MnemonicKeepsMaps ==
  ASSUME VaultInv, MapsInv, LockingMnemonic
  PROVE  MapsInv'
<1>1. /\ Turn(Background) /\ replies' = Tail(replies) /\ calls' = calls
      /\ secrets.password = None => secrets' = secrets
      /\ store' = store /\ mem' = mem /\ jobs' = jobs /\ failed' = failed
  BY DEF LockingMnemonic, MnemonicLoaded, vaultVars
<1>2. Len(replies) \in Nat \ {0} /\ replies[1].to = Background
  BY <1>1, TurnFacts DEF VaultInv, VaultTypeOK
<1>3. Keyless => Keyless'
  <2>1. ASSUME Keyless
        PROVE  secrets.password = None
    BY <1>2, <2>1 DEF Keyless
  <2>2. QED
    BY <1>1, <2>1 DEF Keyless, HasKey
<1>4. ASSUME NEW s \in Services
      PROVE  NoSurplus(s)' /\ IsReady(s)'
  <2>1. KeepsAgreement(s)
    BY <1>1, SameStoreAgrees DEF SameStore
  <2>2. \A w \in Windows : Unread(w, s) => Unread(w, s)'
    BY <1>1 DEF Unread
  <2>3. QED
    BY <1>3, <2>1, <2>2 DEF MapsInv, KeepsAgreement, IsReady
<1>5. QED
  BY <1>4 DEF MapsInv

LEMMA LoadFirstKeepsMaps ==
  ASSUME VaultInv, MapsInv, NEW w \in Windows, LoadFirst(w)
  PROVE  MapsInv'
<1>1. /\ Opened(w) /\ calls' = calls /\ jobs' = [jobs EXCEPT ![w] = Load("approval")]
      /\ store' = store /\ mem' = mem /\ failed' = failed
  BY DEF LoadFirst, KeepLock, KeepMaps, Wait
<1>2. /\ calls'[w].op = "unlock" /\ jobs'[w].loads = "approval"
  BY <1>1 DEF VaultInv, VaultTypeOK, Opened, Load
<1>3. \A s \in Services : Unread(w, s)'
  BY <1>2 DEF Unread, ToRead
<1>4. QED
  BY <1>1, <1>3, LockKeepsMaps

\* Reading a store makes its map agree with it.
LEMMA LoadedAgrees ==
  ASSUME VaultInv, MapsInv, NEW w \in Windows, Loaded(w), NEW s, s = jobs[w].loads
  PROVE  /\ s \in Services /\ NoSurplus(s)' /\ Agree(s)'
         /\ \A t \in Services \ {s} : SameStore(t)
<1>1. /\ jobs[w].pc = "load" /\ store' = store
      /\ mem' = [mem EXCEPT ![s] = IF jobs[w].got = None THEN @ ELSE jobs[w].got]
      /\ failed' = [failed EXCEPT ![s] = IF jobs[w].got = None THEN @ ELSE {}]
  BY DEF Loaded, ResumedJob
<1>2. /\ mem \in [Services -> SUBSET Entries] /\ failed \in [Services -> SUBSET Entries]
      /\ s \in Services /\ jobs[w].got = store[s]
  BY <1>1 DEF VaultInv, VaultTypeOK, LoadsAreFresh, JobsHaveEntries, JobIsInOrder
<1>3. \A t \in Services \ {s} : SameStore(t)
  BY <1>1, <1>2 DEF SameStore
<1>4. NoSurplus(s)' /\ Agree(s)'
  <2>1. CASE store[s] = None
    <3>1. Stored(s) = {} /\ NoSurplus(s)
      BY <1>2, <2>1 DEF Stored, MapsInv
    <3>2. Agree(s)
      BY <3>1 DEF NoSurplus, Agree
    <3>3. SameStore(s)
      BY <1>1, <1>2, <2>1 DEF SameStore
    <3>4. QED
      BY <1>2, <3>1, <3>2, <3>3, SameStoreAgrees DEF KeepsAgreement
  <2>2. CASE store[s] # None
    <3>1. mem'[s] = Stored(s)'
      BY <1>1, <1>2, <2>2 DEF Stored
    <3>2. QED
      BY <1>2, <3>1, EqualMapsAgree
  <2>3. QED
    BY <2>1, <2>2
<1>5. QED
  BY <1>2, <1>3, <1>4

LEMMA LoadedKeepsMaps ==
  ASSUME VaultInv, MapsInv, NEW w \in Windows, Loaded(w)
  PROVE  MapsInv'
<1>1. /\ Turn(w) /\ jobs[w].pc = "load" /\ secrets' = secrets
      /\ IF jobs[w].loads = "connection"
         THEN Done(w, Tail(replies)) /\ calls' = [calls EXCEPT ![w] = Idle]
         ELSE Wait(w, Load(Following[jobs[w].loads]), Tail(replies)) /\ UNCHANGED calls
  BY DEF Loaded, ResumedJob
<1>2. /\ VaultTypeOK /\ disk \in Disk /\ disk' = disk
      /\ calls \in [Windows -> Call] /\ jobs \in [Windows -> Job]
  BY DEF VaultInv, VaultTypeOK, LockerTypeOK, Loaded
<1>3. /\ calls[w].op = "unlock"
      /\ \A v \in Windows \ {w} : calls[v].op = "none" /\ jobs[v].pc = "none"
  BY <1>1, LoadingFacts
<1>4. Before(Tail(replies))
  BY <1>1, TurnFrees DEF VaultInv
<1>5. Keyless => Keyless'
  <2>1. SUFFICES ASSUME Keyless
                 PROVE  Keyless'
    OBVIOUS
  <2>2. \A v \in Windows : calls'[v].op # "resetPassword"
    BY <1>1, <1>2, <1>3, IdleFacts
  <2>3. ASSUME \A i \in 1..Len(replies) : replies[i].to # Background
        PROVE  \A i \in 1..Len(replies') : replies'[i].to # Background
    <3>1. /\ [to |-> w, disk |-> disk] \in Replies
          /\ [to |-> w, disk |-> disk].to # Background
      BY <1>2, ConstantsAssumption DEF Replies
    <3>2. \/ replies' = Tail(replies)
          \/ \E r \in Replies : replies' = Append(Tail(replies), r) /\ r.to # Background
      BY <1>1, <3>1 DEF Done, Wait
    <3>3. QED
      BY <1>2, <1>4, <2>3, <3>2, NoMnemonicComes
  <2>4. QED
    BY <1>1, <2>1, <2>2, <2>3 DEF Keyless, HasKey
<1>6. ASSUME NEW s \in Services
      PROVE  NoSurplus(s)' /\ IsReady(s)'
  <2>1. CASE s = jobs[w].loads
    BY <2>1, LoadedAgrees DEF IsReady
  <2>2. CASE s # jobs[w].loads
    <3>1. KeepsAgreement(s)
      BY <2>2, LoadedAgrees, SameStoreAgrees
    <3>2. ASSUME Unread(w, s)
          PROVE  Unread(w, s)'
      <4>1. s \in ToRead[jobs[w].loads] /\ jobs[w].loads \in Services
        BY <1>1, <3>2, LoadedAgrees DEF Unread
      <4>2. jobs[w].loads # "connection"
        BY <2>2, <4>1 DEF ToRead
      <4>3. s \in ToRead[Following[jobs[w].loads]] /\ Following[jobs[w].loads] \in Services
        BY <2>2, <4>1, <4>2, FollowingFacts
      <4>4. jobs' = [jobs EXCEPT ![w] = Load(Following[jobs[w].loads])] /\ calls' = calls
        BY <1>1, <4>2 DEF Wait
      <4>5. jobs'[w].loads = Following[jobs[w].loads]
        BY <1>2, <4>3, <4>4, LoadType
      <4>6. QED
        BY <1>3, <4>3, <4>4, <4>5 DEF Unread
    <3>3. NoSurplus(s) /\ (Agree(s) \/ Keyless \/ Unread(w, s))
      BY <1>3 DEF MapsInv, IsReady, Unread
    <3>4. QED
      BY <1>5, <3>1, <3>2, <3>3 DEF KeepsAgreement, IsReady
  <2>3. QED
    BY <2>1, <2>2
<1>7. QED
  BY <1>6 DEF MapsInv

\* What an unlock waits for is last in the queue, so no mnemonic comes after it.
LEMMA LoadFailsKeepsMaps ==
  ASSUME VaultInv, MapsInv, NEW w \in Windows, LoadFails(w)
  PROVE  MapsInv'
<1>1. /\ Turn(w) /\ jobs[w].pc = "load" /\ ~HasKey /\ secrets' = secrets
      /\ replies' = Tail(replies) /\ calls' = [calls EXCEPT ![w] = Idle]
      /\ store' = store /\ mem' = mem /\ failed' = failed
  BY DEF LoadFails, ResumedJob, Done
<1>2. /\ VaultTypeOK /\ LockerTypeOK /\ UnlockIsLast /\ calls \in [Windows -> Call]
  BY DEF VaultInv, VaultTypeOK, LockerTypeOK
<1>3. /\ calls[w].op = "unlock"
      /\ \A v \in Windows \ {w} : calls[v].op = "none"
  BY <1>1, LoadingFacts
<1>4. 1..Len(replies') = {}
  <2>1. /\ replies \in Seq(Replies) /\ replies # <<>>
        /\ Len(replies) \in Nat \ {0} /\ replies[1].to = w
    BY <1>1, <1>2, TurnFacts, RepliesType
  <2>2. 1 \in 1..Len(replies)
    BY <2>1
  <2>3. Len(replies) = 1
    BY <1>2, <1>3, <2>1, <2>2 DEF UnlockIsLast, Unlocking
  <2>4. Len(replies') = 0
    BY <1>1, <2>1, <2>3, TailFacts
  <2>5. QED
    BY <2>4
<1>5. \A v \in Windows : calls'[v].op # "resetPassword"
  BY <1>1, <1>2, <1>3, IdleFacts
<1>6. Keyless'
  BY <1>1, <1>4, <1>5 DEF Keyless, HasKey
<1>7. QED
  BY <1>1, <1>6, LockKeepsMaps

LEMMA RestartKeepsMaps ==
  ASSUME RestartVault
  PROVE  MapsInv'
<1>1. /\ secrets' = Cleared /\ calls' = [w \in Windows |-> Idle]
      /\ mem' = [s \in Services |-> {}]
  BY DEF RestartVault, Restart
<1>2. Keyless'
  BY <1>1, IdleFacts, ClearedIsKeyless
<1>3. \A s \in Services : NoSurplus(s)'
  BY <1>1 DEF NoSurplus
<1>4. QED
  BY <1>2, <1>3 DEF MapsInv, IsReady

LEMMA InitHasMaps == VaultInit => MapsInv
<1> SUFFICES ASSUME VaultInit PROVE MapsInv
  OBVIOUS
<1>1. /\ store = [s \in Services |-> None] /\ mem = [s \in Services |-> {}]
  BY DEF VaultInit
<1>2. ASSUME NEW s \in Services
      PROVE  NoSurplus(s) /\ Agree(s)
  BY <1>1 DEF NoSurplus, Agree, Stored
<1>3. QED
  BY <1>2 DEF MapsInv, IsReady

LEMMA NextKeepsMaps ==
  ASSUME FALSE \notin ResetWhen, crossed \/ VaultInv, crossed \/ MapsInv,
         [VaultNext]_vars, ~crossed'
  PROVE  MapsInv'
<1>1. CASE RestartVault
  BY <1>1, RestartKeepsMaps
<1>2. CASE VaultNext /\ ~RestartVault
  <2>1. VaultInv /\ MapsInv
    BY <1>2, CrossedStays
  <2>2. QED
    BY <1>2, <2>1, VaultSteps, LoadFirstKeepsMaps, LockingCallKeepsMaps, LockingStepKeepsMaps,
       ResetDoneKeepsMaps, LockMapsKeepsMaps, LoadedKeepsMaps, LoadFailsKeepsMaps,
       HandlerKeepsMaps, MnemonicKeepsMaps
<1>3. CASE UNCHANGED vars
  <2>1. /\ secrets' = secrets /\ calls' = calls /\ replies' = replies /\ crossed' = crossed
        /\ store' = store /\ mem' = mem /\ jobs' = jobs /\ failed' = failed
    BY <1>3 DEF vars, lockerVars, vaultVars
  <2>2. MapsInv
    BY <2>1
  <2>3. ASSUME NEW s \in Services
        PROVE  NoSurplus(s)' /\ IsReady(s)'
    <3>1. KeepsAgreement(s)
      BY <2>1, SameStoreAgrees DEF SameStore
    <3>2. Keyless' = Keyless /\ \A w \in Windows : Unread(w, s)' = Unread(w, s)
      BY <2>1 DEF Keyless, HasKey, Unread
    <3>3. QED
      BY <2>2, <3>1, <3>2 DEF MapsInv, KeepsAgreement, IsReady
  <2>4. QED
    BY <2>3 DEF MapsInv
<1>4. QED
  BY <1>1, <1>2, <1>3

\* In a wallet where the password is reset only when there is a key, the maps agree with
\* the stores whenever they can be saved, until a call crosses a lock, an unlock or a
\* reset, and again from the next restart.
THEOREM MapsInvHolds ==
  ASSUME FALSE \notin ResetWhen
  PROVE  VaultSpec => [](crossed \/ MapsInv)
<1>1. (crossed \/ VaultInv) /\ (crossed \/ MapsInv) /\ [VaultNext]_vars
        => (crossed \/ MapsInv)'
  BY NextKeepsMaps
<1>2. QED
  BY <1>1, InitHasMaps, VaultInvHolds, PTL DEF VaultSpec

\* When nothing is in progress in an open wallet with its key, a map differs from its
\* store only in entries whose saving failed, whatever locks, unlocks and restarts came
\* between, unless calls have crossed since the last restart (save(), unlock() and
\* loadIdentities of the three services).
THEOREM MapsShowWhatIsStored ==
  ASSUME FALSE \notin ResetWhen
  PROVE  VaultSpec => []MapsShowStores
<1>1. (crossed \/ VaultInv) /\ (crossed \/ MapsInv) => MapsShowStores
  <2>1. SUFFICES ASSUME MapsInv, VaultQuiet, HasKey, NEW s \in Services,
                        NEW e \in (mem[s] \ Stored(s)) \cup (Stored(s) \ mem[s])
                 PROVE  SameKey(e) \cap failed[s] # {}
    BY DEF MapsShowStores
  <2>2. \A w \in Windows : calls[w].op = "none"
    BY <2>1, IdleFacts DEF VaultQuiet, Quiet
  <2>3. Agree(s)
    BY <2>1, <2>2 DEF MapsInv, IsReady, Keyless, Unread
  <2>4. QED
    BY <2>1, <2>3 DEF Agree, Excused
<1>2. QED
  BY <1>1, VaultInvHolds, MapsInvHolds, PTL

-----------------------------------------------------------------------------
(* The vault implements the ledger *)

Contents == [s \in Services |-> Stored(s)]

LEMMA ContentsType ==
  ASSUME VaultTypeOK
  PROVE  Contents \in [Services -> SUBSET Entries]
<1>1. \A s \in Services : Stored(s) \subseteq Entries
  BY DEF VaultTypeOK, Stored
<1>2. QED
  BY <1>1 DEF Contents

LEMMA ContentsStay == store' = store => Contents' = Contents
  BY DEF Contents, Stored

\* A step that changes no store and adds no doubt is one of opening or closing.
LEMMA QuietStepIsOpenOrClose ==
  ASSUME VaultTypeOK, VaultTypeOK', store' = store,
         \A s \in Services : failed'[s] \subseteq failed[s]
  PROVE  Promise!OpenOrClose
<1>1. unlocked' \in BOOLEAN /\ failed' \in [Services -> SUBSET Entries]
  BY DEF VaultTypeOK, LockerTypeOK
<1>2. Contents' = Contents
  BY ContentsStay
<1>3. QED
  BY <1>1, <1>2 DEF Promise!OpenOrClose, Contents

LEMMA WipedIsWipe ==
  ASSUME VaultTypeOK, unlocked' = unlocked, NEW s \in Services, Wiped(s)
  PROVE  Promise!Wipe(s)
<1>1. /\ store \in [Services -> (SUBSET Entries) \cup {None}]
      /\ store' = [store EXCEPT ![s] = None] /\ failed' = [failed EXCEPT ![s] = {}]
  BY DEF VaultTypeOK, Wiped
<1>2. Stored(s)' = {} /\ \A t \in Services \ {s} : Stored(t)' = Stored(t)
  BY <1>1 DEF Stored
<1>3. Contents' = [Contents EXCEPT ![s] = {}]
  BY <1>2 DEF Contents
<1>4. QED
  BY <1>1, <1>3 DEF Promise!Wipe, Contents

\* Entries of one key are not told apart from each other by what is promised.
LEMMA SameKeys == \A e, f \in Entries : f \in SameKey(e) => Key(f) = Key(e)
  BY DEF SameKey

LEMMA SavedIsChange ==
  ASSUME VaultInv, MapsInv, \A v \in Windows : calls[v].op \notin Unlocking,
         unlocked' = unlocked, NEW s \in Services, NEW e \in Entries, Saved(s, e)
  PROVE  Promise!Change(s, e) \/ Promise!Fail(s, e)
<1>1. /\ VaultTypeOK /\ mem \in [Services -> SUBSET Entries]
      /\ failed \in [Services -> SUBSET Entries]
      /\ store \in [Services -> (SUBSET Entries) \cup {None}]
  BY DEF VaultInv, VaultTypeOK
<1>2. PICK map \in SUBSET Entries :
        /\ map \subseteq mem[s] \cup {e} /\ mem[s] \ map \subseteq SameKey(e)
        /\ \/ HasKey /\ store' = [store EXCEPT ![s] = map] /\ failed' = [failed EXCEPT ![s] = {}]
           \/ store' = store /\ failed' = [failed EXCEPT ![s] = @ \cup {e}]
  BY DEF Saved
<1>3. CASE store' = store /\ failed' = [failed EXCEPT ![s] = @ \cup {e}]
  <2>1. Contents' = Contents
    BY <1>3, ContentsStay
  <2>2. QED
    BY <1>3, <2>1 DEF Promise!Fail, Contents
<1>4. CASE HasKey /\ store' = [store EXCEPT ![s] = map] /\ failed' = [failed EXCEPT ![s] = {}]
  <2>1. unlocked /\ Agree(s)
    BY <1>4, KeyNeedsOpen DEF MapsInv, IsReady, Keyless, Unread, Unlocking
  <2>2. Stored(s)' = map /\ \A t \in Services \ {s} : Stored(t)' = Stored(t)
    BY <1>1, <1>4, StoreIsNoNone DEF Stored
  <2>3. Stored(s) \subseteq Entries
    BY <1>1 DEF Stored
  <2>4. ASSUME NEW f \in Entries, ~(f \in map <=> f \in Stored(s))
        PROVE  \E g \in failed[s] \cup {e} : Key(f) = Key(g)
    <3>1. CASE f \in map <=> f \in mem[s]
      <4>1. SameKey(f) \cap failed[s] # {}
        BY <2>1, <2>4, <3>1 DEF Agree, Excused
      <4>2. PICK g \in failed[s] : g \in SameKey(f)
        BY <4>1
      <4>3. g \in Entries
        BY <1>1
      <4>4. QED
        BY <4>2, <4>3, SameKeys
    <3>2. CASE ~(f \in map <=> f \in mem[s])
      <4>1. f \in SameKey(e)
        BY <1>2, <3>2, EntryHasKey
      <4>2. QED
        BY <4>1, SameKeys
    <3>3. QED
      BY <3>1, <3>2
  <2>5. /\ Contents'[s] = map /\ Contents[s] = Stored(s)
        /\ \A t \in Services \ {s} : Contents'[t] = Contents[t]
        /\ Contents' \in [Services -> SUBSET Entries]
    BY <2>2, <1>1, ContentsType DEF Contents
  <2>6. \A f \in Entries : \/ f \in Contents'[s] <=> f \in Contents[s]
                           \/ \E g \in failed[s] \cup {e} : Key(f) = Key(g)
    BY <2>4, <2>5
  <2>7. Promise!Change(s, e)
    BY <1>4, <2>1, <2>5, <2>6 DEF Promise!Change, Contents
  <2>8. QED
    BY <2>7
<1>5. QED
  BY <1>2, <1>3, <1>4

LEMMA StepKeepsPromise ==
  ASSUME VaultInv, VaultTypeOK', MapsInv, ~crossed', VaultNext, ~RestartVault
  PROVE  Promise!LedgerNext
<1>1. /\ VaultTypeOK /\ VaultTypeOK' /\ failed \in [Services -> SUBSET Entries]
  BY DEF VaultInv, VaultTypeOK
<1>2. ASSUME store' = store, failed' = failed
      PROVE  Promise!LedgerNext
  BY <1>1, <1>2, QuietStepIsOpenOrClose DEF Promise!LedgerNext
<1>3. ASSUME NEW w \in Windows,
             LoadFirst(w) \/ LockingCall(w) \/ LockingStep(w) \/ ResetDone(w) \/ LoadFails(w)
      PROVE  Promise!LedgerNext
  BY <1>2, <1>3 DEF LoadFirst, LockingCall, LockingStep, ResetDone, LoadFails, KeepMaps, vaultVars
<1>4. ASSUME NEW w \in Windows, LockMaps(w)
      PROVE  Promise!LedgerNext
  <2>1. /\ store' = store
        /\ failed' = [failed EXCEPT !["identity"] = {}, !["approval"] = {}]
    BY <1>4 DEF LockMaps
  <2>2. \A s \in Services : failed'[s] \subseteq failed[s]
    BY <1>1, <2>1
  <2>3. QED
    BY <1>1, <2>1, <2>2, QuietStepIsOpenOrClose DEF Promise!LedgerNext
<1>5. ASSUME NEW w \in Windows, Loaded(w)
      PROVE  Promise!LedgerNext
  <2>1. /\ store' = store
        /\ failed' = [failed EXCEPT ![jobs[w].loads] = IF jobs[w].got = None THEN @ ELSE {}]
    BY <1>5 DEF Loaded
  <2>2. \A s \in Services : failed'[s] \subseteq failed[s]
    BY <1>1, <2>1
  <2>3. QED
    BY <1>1, <2>1, <2>2, QuietStepIsOpenOrClose DEF Promise!LedgerNext
<1>6. ASSUME NEW w \in Windows, Handles(w)
      PROVE  Promise!LedgerNext
  <2>1. MapStep /\ unlocked' = unlocked /\ \A v \in Windows : calls[v].op \notin Unlocking
    BY <1>6 DEF Handles, HandlerStep, AtWork, Runs, KeepLock
  <2>2. CASE KeepMaps
    BY <1>2, <2>2 DEF KeepMaps
  <2>3. ASSUME NEW s \in Services, Wiped(s)
        PROVE  Promise!LedgerNext
    BY <1>1, <2>1, <2>3, WipedIsWipe DEF Promise!LedgerNext
  <2>4. ASSUME NEW s \in Services, NEW e \in Entries, Saved(s, e)
        PROVE  Promise!LedgerNext
    BY <2>1, <2>4, SavedIsChange DEF Promise!LedgerNext
  <2>5. QED
    BY <2>1, <2>2, <2>3, <2>4 DEF MapStep
<1>7. CASE LockingMnemonic
  BY <1>2, <1>7 DEF LockingMnemonic, vaultVars
<1>8. QED
  BY <1>3, <1>4, <1>5, <1>6, <1>7, VaultSteps

LEMMA RestartKeepsPromise ==
  ASSUME VaultTypeOK, VaultTypeOK', RestartVault
  PROVE  Promise!LedgerNext
<1>1. store' = store /\ failed' = [s \in Services |-> {}]
  BY DEF RestartVault
<1>2. QED
  BY <1>1, QuietStepIsOpenOrClose DEF Promise!LedgerNext

LEMMA InitKeepsPromise == VaultInit => Promise!LedgerInit
<1> SUFFICES ASSUME VaultInit PROVE Promise!LedgerInit
  OBVIOUS
<1>1. /\ unlocked = FALSE /\ store = [s \in Services |-> None]
      /\ failed = [s \in Services |-> {}]
  BY DEF VaultInit
<1>2. Contents = [s \in Services |-> {}]
  BY <1>1 DEF Contents, Stored
<1>3. QED
  BY <1>1, <1>2 DEF Promise!LedgerInit, Contents

LEMMA NextKeepsPromise ==
  VaultTypeOK /\ JobsHaveEntries /\ (crossed \/ VaultInv) /\ (crossed \/ MapsInv)
    /\ [VaultNext]_vars => [PromisedStep]_(Promise!ledgerVars)
<1> SUFFICES ASSUME VaultTypeOK, JobsHaveEntries, crossed \/ VaultInv, crossed \/ MapsInv,
                    [VaultNext]_vars
             PROVE  [PromisedStep]_(Promise!ledgerVars)
  OBVIOUS
<1>1. VaultTypeOK'
  BY VaultNextKeepsTypes
<1>2. CASE RestartVault
  BY <1>1, <1>2, RestartKeepsPromise DEF PromisedStep
<1>3. CASE VaultNext /\ ~RestartVault
  BY <1>1, <1>3, CrossedStays, StepKeepsPromise DEF PromisedStep
<1>4. CASE UNCHANGED vars
  <2>1. store' = store /\ failed' = failed /\ unlocked' = unlocked
    BY <1>4 DEF vars, lockerVars, vaultVars
  <2>2. Contents' = Contents
    BY <2>1, ContentsStay
  <2>3. UNCHANGED Promise!ledgerVars
    BY <2>1, <2>2 DEF Promise!ledgerVars, Contents
  <2>4. QED
    BY <2>3
<1>5. QED
  BY <1>2, <1>3, <1>4

\* In a wallet where the password is reset only when there is a key, the stores keep
\* what Ledger promises until a call crosses a lock, an unlock or a reset, and again from
\* the next restart: a change is of the keys it was asked for or that earlier failed, and
\* locks, unlocks, restarts and failures change no store (save() of the three services,
\* which write whole maps).
THEOREM VaultKeepsItsPromise ==
  ASSUME FALSE \notin ResetWhen
  PROVE  VaultSpec => KeepsItsPromise
<1>1. QED
  BY NextKeepsPromise, InitKeepsPromise, VaultWellFormed, VaultInvHolds, MapsInvHolds, PTL
  DEF VaultSpec, KeepsItsPromise

=============================================================================
