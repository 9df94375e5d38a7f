---------------------------- MODULE LockerProofs ----------------------------
(***************************************************************************)
(* Proofs about Locker, for every set of windows, passwords and mnemonics  *)
(* and any number of restarts.                                             *)
(*                                                                         *)
(* KeysOnlyWhileOpen, SeedMatchesAccounts and KeysAreTheWallets are not    *)
(* inductive: whether a handler may write depends on what it read before   *)
(* its last await, so the inductive invariant LockerInv relates the calls  *)
(* in progress and the replies in the queue to the state they return to.   *)
(* It holds until two calls of the onboarding overlap, after which only    *)
(* the types are sure.                                                     *)
(***************************************************************************)
EXTENDS Locker, TLAPS

SetupPcs == {"setup-check", "setup-write", "setup-step"}
GenPcs == {"gen-accounts", "gen-seed", "gen-write"}
SavePcs == {"save-seed", "save-accounts", "save-write", "save-select", "save-step"}

\* The pc of a call is one of its operation's.
PcFollowsOp ==
  \A w \in Windows :
    /\ calls[w].pc \in SetupPcs => calls[w].op = "setupPassword"
    /\ calls[w].pc \in GenPcs => calls[w].op = "generateMnemonic"
    /\ calls[w].pc \in SavePcs => calls[w].op = "saveMnemonic"
    /\ calls[w].op = "none" => calls[w].pc = "idle"
    /\ calls[w].pc = "reset-check" => calls[w].mnemonic # None

\* Until calls of the onboarding overlap, there is one at a time.
OneOnboardingCall ==
  \A v, w \in Windows : calls[v].op \in Onboarding /\ calls[w].op \in Onboarding => v = w

\* The page that generates and saves the mnemonic needs an open wallet, which cannot
\* be locked before the onboarding is over.
OnboardingIsOpen ==
  \A w \in Windows :
    calls[w].pc \in (GenPcs \cup SavePcs) \ {"save-step"} => unlocked /\ disk.step # "mnemonic"

\* Only a window that waits is sent a reply, and only one.
RepliesAreAwaited ==
  \A i \in 1..Len(replies) : replies[i].to \in Windows =>
    /\ calls[replies[i].to].pc \notin {"idle", "unlocked", "locked"}
    /\ \A j \in 1..Len(replies) : replies[j].to = replies[i].to => i = j

\* Accounts are written once, and what an onboarding call has read of the mnemonic
\* and the accounts is still so.
RepliesAreFresh ==
  \A i \in 1..Len(replies) :
    /\ replies[i].disk.accounts \in {None, disk.accounts}
    /\ replies[i].disk.step = "mnemonic" => replies[i].disk.accounts # None
    /\ replies[i].to \in Windows /\ calls[replies[i].to].op \in Onboarding =>
         /\ replies[i].disk.accounts = disk.accounts
         /\ replies[i].disk.seed.mnemonic = disk.seed.mnemonic
    /\ replies[i].to = Background =>
         /\ replies[i].disk.accounts # None
         /\ replies[i].disk.seed.mnemonic = replies[i].disk.accounts

\* What the calls in progress have learned still holds.
CallsKnow ==
  \A w \in Windows :
    /\ calls[w].pc \in {"gen-seed", "gen-write"} => disk.accounts = None
    /\ calls[w].pc = "save-accounts" =>
         calls[w].mnemonic = disk.seed.mnemonic /\ disk.seed.mnemonic # None
    /\ calls[w].pc \in {"save-write", "save-select"} => disk.accounts # None
    /\ calls[w].generated => disk.accounts # None

FinishedHasAccounts == disk.step = "mnemonic" => disk.accounts # None

LockerInv ==
  /\ LockerTypeOK
  /\ PcFollowsOp /\ OneOnboardingCall /\ OnboardingIsOpen
  /\ RepliesAreAwaited /\ RepliesAreFresh
  /\ CallsKnow /\ FinishedHasAccounts
  /\ LockedIsCleared /\ OneSeed /\ KeysAreTheAccounts

-----------------------------------------------------------------------------
(* Queues *)

LEMMA AppendFacts ==
  ASSUME NEW S, NEW q \in Seq(S), NEW e \in S
  PROVE  /\ Append(q, e) \in Seq(S)
         /\ Len(Append(q, e)) = Len(q) + 1
         /\ \A i \in 1..Len(q) : Append(q, e)[i] = q[i]
         /\ Append(q, e)[Len(q) + 1] = e
  OBVIOUS

LEMMA TailFacts ==
  ASSUME NEW S, NEW q \in Seq(S), q # <<>>
  PROVE  /\ Len(q) \in Nat \ {0}
         /\ Head(q) = q[1] /\ Head(q) \in S
         /\ Tail(q) \in Seq(S)
         /\ Len(Tail(q)) = Len(q) - 1
         /\ \A i \in 1..Len(q) - 1 : Tail(q)[i] = q[i + 1]
  OBVIOUS

LEMMA Shift ==
  ASSUME NEW n \in Nat, NEW i \in 1..n, i # n
  PROVE  i \in 1..n - 1 /\ i + 1 \in 2..n
  OBVIOUS

LEMMA AwaitFacts ==
  ASSUME NEW S, NEW q \in Seq(S), q # <<>>, NEW e \in S
  PROVE  /\ Append(Tail(q), e) \in Seq(S)
         /\ Len(Append(Tail(q), e)) = Len(q)
         /\ \A i \in 1..Len(q) - 1 : Append(Tail(q), e)[i] = q[i + 1]
         /\ Append(Tail(q), e)[Len(q)] = e
<1>1. Tail(q) \in Seq(S) /\ Len(Tail(q)) = Len(q) - 1 /\ Len(q) \in Nat \ {0}
  BY TailFacts
<1>2. QED
  BY <1>1, AppendFacts, TailFacts

-----------------------------------------------------------------------------
(* Types *)

Replies == [to: Windows \cup {Background}, disk: Disk]

LEMMA NewCallType ==
  ASSUME NEW op \in Ops, NEW pc \in Pcs, NEW p \in Password, NEW m \in Mnemonic
  PROVE  NewCall(op, pc, p, m) \in Call
  BY DEF NewCall, Call

LEMMA IdleType == Idle \in Call /\ Cleared \in [password: Password, mnemonic: Mnemonic]
  BY NewCallType DEF Idle, Cleared, Ops, Pcs, Password, Mnemonic

LEMMA BeginType ==
  ASSUME LockerTypeOK, NEW w \in Windows, NEW call \in Call, disk' \in Disk, Begin(w, call)
  PROVE  calls' \in [Windows -> Call] /\ replies' \in Seq(Replies)
<1>1. Reply(w) \in Replies
  BY DEF Reply, Replies
<1>2. QED
  BY <1>1, AppendFacts DEF LockerTypeOK, Begin, Replies

LEMMA ReturnType ==
  ASSUME LockerTypeOK, NEW w \in Windows, replies # <<>>, Return(w)
  PROVE  calls' \in [Windows -> Call] /\ replies' \in Seq(Replies)
  BY IdleType, TailFacts DEF LockerTypeOK, Return, Replies

-----------------------------------------------------------------------------
(* The queue and the calls: what starting a call, awaiting and returning keep. *)

\* Only the call of window w changes.
OnlyCall(w) ==
  /\ calls' \in [Windows -> Call]
  /\ \A v \in Windows \ {w} : calls'[v] = calls[v]

Resting == {"idle", "unlocked", "locked"}

LEMMA TurnFacts ==
  ASSUME LockerTypeOK, NEW w, Turn(w)
  PROVE  /\ replies # <<>>
         /\ Len(replies) \in Nat \ {0}
         /\ replies[1] \in Replies
         /\ replies[1].to = w /\ Got = replies[1].disk /\ Got \in Disk
<1>1. replies \in Seq(Replies) /\ replies # <<>>
  BY DEF Turn, LockerTypeOK, Replies
<1>2. /\ Len(replies) \in Nat \ {0}
      /\ Head(replies) = replies[1] /\ replies[1] \in Replies
  BY <1>1, TailFacts
<1>3. QED
  BY <1>1, <1>2 DEF Turn, Got, Replies

\* A window whose reply is first in the queue is sent no other.
LEMMA OneReply ==
  ASSUME LockerTypeOK, RepliesAreAwaited, NEW w \in Windows, Turn(w)
  PROVE  /\ replies \in Seq(Replies) /\ replies # <<>>
         /\ Len(replies) \in Nat \ {0} /\ replies[1].to = w
         /\ \A i \in 2..Len(replies) : replies[i].to # w
<1>1. replies \in Seq(Replies)
  BY DEF LockerTypeOK, Replies
<1>2. replies # <<>> /\ Len(replies) \in Nat \ {0} /\ replies[1].to = w
  BY TurnFacts
<1>3. ASSUME NEW i \in 2..Len(replies), replies[i].to = w
      PROVE  FALSE
  <2>1. 1 \in 1..Len(replies) /\ i \in 1..Len(replies) /\ i # 1
    BY <1>2
  <2>2. QED
    BY <2>1, <1>2, <1>3 DEF RepliesAreAwaited
<1>4. QED
  BY <1>1, <1>2, <1>3

LEMMA IdleGetsNone ==
  ASSUME RepliesAreAwaited, NEW w \in Windows, calls[w].pc \in Resting
  PROVE  \A i \in 1..Len(replies) : replies[i].to # w
  BY DEF RepliesAreAwaited, Resting

LEMMA BeginAwaited ==
  ASSUME LockerTypeOK, RepliesAreAwaited, NEW w \in Windows, OnlyCall(w), disk' \in Disk,
         calls[w] = Idle, calls'[w].pc \notin Resting, replies' = Append(replies, Reply(w))
  PROVE  RepliesAreAwaited'
<1>1. Reply(w) \in Replies /\ Reply(w).to = w
  BY DEF Reply, Replies
<1>2. replies \in Seq(Replies)
  BY DEF LockerTypeOK, Replies
<1>3. \A i \in 1..Len(replies) : replies[i].to # w
  BY IdleGetsNone DEF Idle, NewCall, Resting
<1>4. QED
  BY <1>1, <1>2, <1>3, AppendFacts, ConstantsAssumption
  DEF RepliesAreAwaited, OnlyCall, Resting, Replies

LEMMA AwaitAwaited ==
  ASSUME LockerTypeOK, RepliesAreAwaited, NEW w \in Windows, OnlyCall(w), disk' \in Disk,
         Turn(w), calls'[w].pc \notin Resting, replies' = Append(Tail(replies), Reply(w))
  PROVE  RepliesAreAwaited'
<1>1. Reply(w) \in Replies /\ Reply(w).to = w
  BY DEF Reply, Replies
<1>2. /\ replies \in Seq(Replies) /\ replies # <<>>
      /\ Len(replies) \in Nat \ {0} /\ replies[1].to = w
  BY OneReply
<1>3. \A i \in 2..Len(replies) : replies[i].to # w
  BY OneReply
<1>4. /\ Len(replies') = Len(replies) /\ replies'[Len(replies)] = Reply(w)
      /\ \A i \in 1..Len(replies) - 1 :
           i + 1 \in 2..Len(replies) /\ replies'[i] = replies[i + 1]
  BY <1>1, <1>2, AwaitFacts
<1>5. ASSUME NEW i \in 1..Len(replies), replies'[i].to \in Windows
      PROVE  /\ calls'[replies'[i].to].pc \notin Resting
             /\ \A j \in 1..Len(replies) : replies'[j].to = replies'[i].to => i = j
  <2>1. CASE i = Len(replies)
    BY <2>1, <1>1, <1>2, <1>3, <1>4
  <2>2. CASE i # Len(replies)
    <3>1. i \in 1..Len(replies) - 1 /\ i + 1 \in 2..Len(replies)
      BY <2>2, <1>2, Shift
    <3>2. replies'[i] = replies[i + 1] /\ replies'[i].to # w
      BY <3>1, <1>3, <1>4
    <3>3. calls'[replies'[i].to].pc \notin Resting
      BY <1>2, <1>5, <3>1, <3>2 DEF RepliesAreAwaited, OnlyCall, Resting
    <3>4. ASSUME NEW j \in 1..Len(replies), replies'[j].to = replies'[i].to
          PROVE  i = j
      <4>1. j # Len(replies)
        BY <1>1, <1>4, <3>2, <3>4
      <4>2. j \in 1..Len(replies) - 1 /\ j + 1 \in 2..Len(replies)
        BY <4>1, <1>2, Shift
      <4>3. replies'[j] = replies[j + 1]
        BY <4>2, <1>4
      <4>4. i + 1 = j + 1
        BY <1>2, <1>5, <3>1, <3>2, <3>4, <4>2, <4>3 DEF RepliesAreAwaited
      <4>5. QED
        BY <4>2, <3>1, <4>4
    <3>5. QED
      BY <3>3, <3>4
  <2>3. QED
    BY <2>1, <2>2
<1>6. QED
  BY <1>4, <1>5 DEF RepliesAreAwaited, Resting

LEMMA ReturnAwaited ==
  ASSUME LockerTypeOK, RepliesAreAwaited, NEW w \in Windows, OnlyCall(w),
         Turn(w), replies' = Tail(replies)
  PROVE  RepliesAreAwaited'
<1>1. /\ replies \in Seq(Replies) /\ replies # <<>>
      /\ Len(replies) \in Nat \ {0} /\ replies[1].to = w
  BY OneReply
<1>2. \A i \in 2..Len(replies) : replies[i].to # w
  BY OneReply
<1>3. /\ Len(replies') = Len(replies) - 1
      /\ \A i \in 1..Len(replies') : i + 1 \in 2..Len(replies) /\ replies'[i] = replies[i + 1]
  BY <1>1, TailFacts
<1>4. ASSUME NEW i \in 1..Len(replies'), replies'[i].to \in Windows
      PROVE  /\ calls'[replies'[i].to].pc \notin Resting
             /\ \A j \in 1..Len(replies') : replies'[j].to = replies'[i].to => i = j
  <2>1. i + 1 \in 1..Len(replies) /\ replies'[i] = replies[i + 1] /\ replies'[i].to # w
    BY <1>1, <1>2, <1>3
  <2>2. calls'[replies'[i].to].pc \notin Resting
    BY <1>4, <2>1 DEF RepliesAreAwaited, OnlyCall, Resting
  <2>3. ASSUME NEW j \in 1..Len(replies'), replies'[j].to = replies'[i].to
        PROVE  i = j
    <3>1. j + 1 \in 1..Len(replies) /\ replies'[j] = replies[j + 1]
      BY <1>1, <1>3
    <3>2. i + 1 = j + 1
      BY <1>4, <2>1, <2>3, <3>1 DEF RepliesAreAwaited
    <3>3. QED
      BY <1>1, <1>3, <3>2
  <2>4. QED
    BY <2>2, <2>3
<1>5. QED
  BY <1>4 DEF RepliesAreAwaited, Resting

LEMMA BeginFresh ==
  ASSUME LockerTypeOK, RepliesAreAwaited, RepliesAreFresh, FinishedHasAccounts,
         NEW w \in Windows, OnlyCall(w), disk' = disk,
         calls[w] = Idle, replies' = Append(replies, Reply(w))
  PROVE  RepliesAreFresh'
<1>1. Reply(w) = [to |-> w, disk |-> disk] /\ Reply(w) \in Replies
  BY DEF Reply, Replies, LockerTypeOK
<1>2. replies \in Seq(Replies)
  BY DEF LockerTypeOK, Replies
<1>3. \A i \in 1..Len(replies) : replies[i].to # w
  BY IdleGetsNone DEF Idle, NewCall, Resting
<1>4. QED
  BY <1>1, <1>2, <1>3, AppendFacts, ConstantsAssumption
  DEF RepliesAreFresh, FinishedHasAccounts, OnlyCall, Replies

\* Only an onboarding call changes the accounts, from none, or the mnemonic.
LEMMA AwaitFresh ==
  ASSUME LockerTypeOK, RepliesAreAwaited, RepliesAreFresh, FinishedHasAccounts',
         OneOnboardingCall, NEW w \in Windows, OnlyCall(w), disk' \in Disk, Turn(w),
         \/ disk'.accounts = disk.accounts
         \/ disk.accounts = None /\ calls[w].op \in Onboarding,
         disk'.seed.mnemonic = disk.seed.mnemonic \/ calls[w].op \in Onboarding,
         replies' = Append(Tail(replies), Reply(w))
  PROVE  RepliesAreFresh'
<1>1. Reply(w) = [to |-> w, disk |-> disk'] /\ Reply(w) \in Replies
  BY DEF Reply, Replies
<1>2. /\ replies \in Seq(Replies) /\ replies # <<>>
      /\ Len(replies) \in Nat \ {0} /\ replies[1].to = w
  BY OneReply
<1>3. \A i \in 2..Len(replies) : replies[i].to # w
  BY OneReply
<1>4. ASSUME NEW i \in 2..Len(replies)
      PROVE  /\ replies[i].disk.accounts \in {None, disk'.accounts}
             /\ replies[i].to \in Windows /\ calls'[replies[i].to].op \in Onboarding =>
                  /\ replies[i].disk.accounts = disk'.accounts
                  /\ replies[i].disk.seed.mnemonic = disk'.seed.mnemonic
  BY <1>2, <1>3 DEF RepliesAreFresh, OneOnboardingCall, OnlyCall, Replies
<1>5. QED
  BY <1>1, <1>2, <1>3, <1>4, AwaitFacts, ConstantsAssumption
  DEF RepliesAreFresh, FinishedHasAccounts, Replies

LEMMA ReturnFresh ==
  ASSUME LockerTypeOK, RepliesAreAwaited, RepliesAreFresh,
         NEW w \in Windows, OnlyCall(w), disk' = disk, Turn(w), replies' = Tail(replies)
  PROVE  RepliesAreFresh'
<1>1. /\ replies \in Seq(Replies) /\ replies # <<>>
      /\ Len(replies) \in Nat \ {0} /\ replies[1].to = w
  BY OneReply
<1>2. \A i \in 2..Len(replies) : replies[i].to # w
  BY OneReply
<1>3. QED
  BY <1>1, <1>2, TailFacts DEF RepliesAreFresh, OnlyCall, Replies

-----------------------------------------------------------------------------
(* What a step must do to keep the invariant, by the way it leaves the handler. *)

\* A call is well begun, or goes on well, with `call'.
WellPlaced(call) ==
  /\ call.pc \notin Resting
  /\ call.op # "none"
  /\ call.pc \in SetupPcs => call.op = "setupPassword"
  /\ call.pc \in GenPcs => call.op = "generateMnemonic"
  /\ call.pc \in SavePcs => call.op = "saveMnemonic"
  /\ call.pc = "reset-check" => call.mnemonic # None

\* What CallsKnow and OnboardingIsOpen ask of one call.
WellInformed(call) ==
  /\ call.pc \in (GenPcs \cup SavePcs) \ {"save-step"} => unlocked /\ disk.step # "mnemonic"
  /\ call.pc \in {"gen-seed", "gen-write"} => disk.accounts = None
  /\ call.pc = "save-accounts" =>
       call.mnemonic = disk.seed.mnemonic /\ disk.seed.mnemonic # None
  /\ call.pc \in {"save-write", "save-select"} => disk.accounts # None
  /\ call.generated => disk.accounts # None

LEMMA BeginKeeps ==
  ASSUME LockerInv, NEW w \in Windows, NEW call \in Call, Begin(w, call),
         UNCHANGED <<disk, unlocked, secrets, interrupted, restarts>>, overlapped' \in BOOLEAN,
         WellPlaced(call), WellInformed(call),
         call.op \in Onboarding => NoOnboardingCall
  PROVE  LockerInv'
<1>1. /\ OnlyCall(w) /\ calls'[w] = call /\ calls[w] = Idle
      /\ replies' = Append(replies, Reply(w))
      /\ disk' = disk /\ unlocked' = unlocked /\ secrets' = secrets
      /\ disk' \in Disk
  BY DEF Begin, OnlyCall, LockerInv, LockerTypeOK
<1>2. LockerTypeOK'
  BY <1>1, BeginType DEF LockerInv, LockerTypeOK, Replies
<1>3. PcFollowsOp'
  BY <1>1 DEF LockerInv, PcFollowsOp, OnlyCall, WellPlaced, Resting
<1>4. OneOnboardingCall'
  BY <1>1 DEF LockerInv, OneOnboardingCall, OnlyCall, NoOnboardingCall
<1>5. OnboardingIsOpen' /\ CallsKnow'
  BY <1>1 DEF LockerInv, OnboardingIsOpen, CallsKnow, OnlyCall, WellInformed
<1>6. RepliesAreAwaited'
  BY <1>1, BeginAwaited DEF LockerInv, WellPlaced
<1>7. RepliesAreFresh'
  BY <1>1, BeginFresh DEF LockerInv
<1>8. LockedIsCleared'
  BY <1>1 DEF LockerInv, LockedIsCleared, OnlyCall, Idle, NewCall
<1>9. FinishedHasAccounts' /\ OneSeed' /\ KeysAreTheAccounts'
  BY <1>1 DEF LockerInv, FinishedHasAccounts, OneSeed, KeysAreTheAccounts
<1>10. QED
  BY <1>2, <1>3, <1>4, <1>5, <1>6, <1>7, <1>8, <1>9 DEF LockerInv

LEMMA ReturnKeeps ==
  ASSUME LockerInv, NEW w \in Windows, Turn(w), Return(w),
         disk' = disk, unlocked' = unlocked, LeaveHistory,
         secrets' \in [password: Password, mnemonic: Mnemonic],
         \/ secrets' = Cleared
         \/ unlocked
         \/ secrets' = secrets /\ calls[w].pc \notin {"status", "auth"},
         KeysAreTheAccounts'
  PROVE  LockerInv'
<1>1. /\ OnlyCall(w) /\ calls'[w] = Idle /\ replies # <<>> /\ replies' = Tail(replies)
      /\ calls' \in [Windows -> Call] /\ replies' \in Seq(Replies)
  BY ReturnType DEF Return, OnlyCall, LockerInv, LockerTypeOK, Turn
<1>2. LockerTypeOK'
  BY <1>1 DEF LockerInv, LockerTypeOK, LeaveHistory, Replies
<1>3. PcFollowsOp' /\ OneOnboardingCall' /\ OnboardingIsOpen' /\ CallsKnow'
  BY <1>1 DEF LockerInv, PcFollowsOp, OneOnboardingCall, OnboardingIsOpen, CallsKnow,
              OnlyCall, Idle, NewCall, Onboarding, SetupPcs, GenPcs, SavePcs
<1>4. RepliesAreAwaited'
  BY <1>1, ReturnAwaited DEF LockerInv
<1>5. RepliesAreFresh'
  BY <1>1, ReturnFresh DEF LockerInv
<1>6. LockedIsCleared'
  BY <1>1 DEF LockerInv, LockedIsCleared, OnlyCall
<1>7. FinishedHasAccounts' /\ OneSeed'
  BY DEF LockerInv, FinishedHasAccounts, OneSeed
<1>8. QED
  BY <1>2, <1>3, <1>4, <1>5, <1>6, <1>7 DEF LockerInv

LEMMA AwaitKeeps ==
  ASSUME LockerInv, NEW w \in Windows, NEW call \in Call, Turn(w),
         calls' = [calls EXCEPT ![w] = call], replies' = Append(Tail(replies), Reply(w)),
         call.op = calls[w].op, WellPlaced(call), WellInformed(call)',
         unlocked' = unlocked, LeaveHistory,
         disk' \in Disk, secrets' \in [password: Password, mnemonic: Mnemonic],
         \/ disk'.accounts = disk.accounts
         \/ disk.accounts = None /\ call.op \in Onboarding,
         disk'.seed.mnemonic = disk.seed.mnemonic \/ call.op \in Onboarding,
         disk'.step = disk.step \/ call.op \in Onboarding,
         FinishedHasAccounts', LockedIsCleared', OneSeed', KeysAreTheAccounts'
  PROVE  LockerInv'
<1>1. OnlyCall(w) /\ calls'[w] = call
  BY DEF OnlyCall, LockerInv, LockerTypeOK
<1>2. LockerTypeOK'
  <2>1. Reply(w) \in Replies /\ replies # <<>> /\ replies \in Seq(Replies)
    BY DEF Reply, Replies, Turn, LockerInv, LockerTypeOK
  <2>2. replies' \in Seq(Replies)
    BY <2>1, AwaitFacts
  <2>3. QED
    BY <1>1, <2>2 DEF LockerInv, LockerTypeOK, LeaveHistory, OnlyCall, Replies
<1>3. PcFollowsOp'
  BY <1>1 DEF LockerInv, PcFollowsOp, OnlyCall, WellPlaced
<1>4. OneOnboardingCall'
  BY <1>1 DEF LockerInv, OneOnboardingCall, OnlyCall
<1>5. ASSUME NEW v \in Windows, v # w, calls[v].pc \in GenPcs \cup SavePcs
      PROVE  /\ disk'.accounts = disk.accounts /\ disk'.step = disk.step
             /\ disk'.seed.mnemonic = disk.seed.mnemonic
  <2>1. calls[v].op \in Onboarding
    BY <1>5 DEF LockerInv, PcFollowsOp, Onboarding
  <2>2. call.op \notin Onboarding
    BY <2>1, <1>5 DEF LockerInv, OneOnboardingCall
  <2>3. QED
    BY <2>2
<1>6. OnboardingIsOpen'
  BY <1>1, <1>5 DEF LockerInv, OnboardingIsOpen, OnlyCall, WellInformed
<1>7. CallsKnow'
  BY <1>1, <1>5 DEF LockerInv, CallsKnow, OnlyCall, WellInformed, GenPcs, SavePcs
<1>8. RepliesAreAwaited'
  BY <1>1, AwaitAwaited DEF LockerInv, WellPlaced
<1>9. RepliesAreFresh'
  BY <1>1, AwaitFresh DEF LockerInv
<1>10. QED
  BY <1>2, <1>3, <1>4, <1>6, <1>7, <1>8, <1>9 DEF LockerInv

-----------------------------------------------------------------------------
(* The actions *)

\* An onboarding call that overlaps with no other.
LEMMA OnboardingCallKeeps ==
  ASSUME LockerInv, NEW w \in Windows, NEW call \in Call, BeginOnboarding(w, call),
         ~overlapped', WellPlaced(call), WellInformed(call)
  PROVE  LockerInv'
<1>1. /\ Begin(w, call) /\ NoOnboardingCall /\ overlapped' \in BOOLEAN
      /\ UNCHANGED <<disk, unlocked, secrets, interrupted, restarts>>
  BY DEF BeginOnboarding, LockerInv, LockerTypeOK
<1>2. QED
  BY <1>1, BeginKeeps

LEMMA CallsKeepInv ==
  ASSUME LockerInv, ~overlapped', NEW w \in Windows, LockerCall(w)
  PROVE  LockerInv'
<1> USE DEF Ops, Onboarding, Pcs, Resting, SetupPcs, GenPcs, SavePcs
<1>1. CASE LockCall(w)
  <2> DEFINE call == NewCall("lock", "notify", None, None)
  <2>1. call \in Call
    BY NewCallType DEF Password, Mnemonic
  <2>2. /\ OnlyCall(w) /\ calls'[w] = call /\ calls[w] = Idle
        /\ disk' = disk /\ disk' \in Disk /\ ~unlocked' /\ secrets' = Cleared
        /\ replies' = Append(replies, Reply(w)) /\ disk.step = "mnemonic"
    BY <1>1, <2>1 DEF LockCall, Begin, OnlyCall, LockerInv, LockerTypeOK
  <2>3. LockerTypeOK'
    BY <1>1, <2>1, <2>2, BeginType, IdleType
    DEF LockCall, LockerInv, LockerTypeOK, LeaveHistory, Replies
  <2>4. PcFollowsOp' /\ OneOnboardingCall' /\ CallsKnow'
    BY <2>2 DEF LockerInv, PcFollowsOp, OneOnboardingCall, CallsKnow, OnlyCall, NewCall
  <2>5. OnboardingIsOpen'
    BY <2>2 DEF LockerInv, OnboardingIsOpen, OnlyCall, NewCall
  <2>6. RepliesAreAwaited'
    BY <2>2, BeginAwaited DEF LockerInv, NewCall
  <2>7. RepliesAreFresh'
    BY <2>2, BeginFresh DEF LockerInv
  <2>8. FinishedHasAccounts' /\ LockedIsCleared' /\ OneSeed' /\ KeysAreTheAccounts'
    BY <2>2 DEF LockerInv, FinishedHasAccounts, LockedIsCleared, OneSeed,
                KeysAreTheAccounts, Cleared
  <2>9. QED
    BY <2>3, <2>4, <2>5, <2>6, <2>7, <2>8 DEF LockerInv
<1>2. CASE SaveMnemonicCall(w)
  <2> DEFINE call == NewCall("saveMnemonic", "save-seed", None, None)
  <2>1. call \in Call
    BY NewCallType DEF Password, Mnemonic
  <2>2. WellPlaced(call) /\ WellInformed(call)
    BY <1>2 DEF SaveMnemonicCall, OnboardingPage, WellPlaced, WellInformed, NewCall
  <2>3. QED
    BY <1>2, <2>1, <2>2, OnboardingCallKeeps DEF SaveMnemonicCall
<1>3. ASSUME NEW p \in Passwords, UnlockCall(w, p)
      PROVE  LockerInv'
  <2> DEFINE call == NewCall("unlock", "status", p, None)
  <2>1. call \in Call
    BY NewCallType DEF Password, Mnemonic
  <2>2. WellPlaced(call) /\ WellInformed(call) /\ call.op \notin Onboarding
    BY DEF WellPlaced, WellInformed, NewCall
  <2>3. QED
    BY <1>3, <2>1, <2>2, BeginKeeps DEF UnlockCall, LeaveHistory, LockerInv, LockerTypeOK
<1>4. ASSUME NEW p \in Passwords, SetupPasswordCall(w, p)
      PROVE  LockerInv'
  <2> DEFINE call == NewCall("setupPassword", "setup-check", p, None)
  <2>1. call \in Call
    BY NewCallType DEF Password, Mnemonic
  <2>2. WellPlaced(call) /\ WellInformed(call)
    BY DEF WellPlaced, WellInformed, NewCall
  <2>3. QED
    BY <1>4, <2>1, <2>2, OnboardingCallKeeps DEF SetupPasswordCall
<1>5. ASSUME NEW p \in Passwords, NEW m \in Mnemonics, ResetPasswordCall(w, m, p)
      PROVE  LockerInv'
  <2> DEFINE call == NewCall("resetPassword", "reset-check", p, m)
  <2>1. call \in Call
    BY NewCallType DEF Password, Mnemonic
  <2>2. WellPlaced(call) /\ WellInformed(call) /\ call.op \notin Onboarding
    BY ConstantsAssumption DEF WellPlaced, WellInformed, NewCall
  <2>3. QED
    BY <1>5, <2>1, <2>2, BeginKeeps DEF ResetPasswordCall, LeaveHistory, LockerInv, LockerTypeOK,
       LeaveHistory, LockerInv, LockerTypeOK
<1>6. ASSUME NEW m \in Mnemonic, GenerateMnemonicCall(w, m)
      PROVE  LockerInv'
  <2> DEFINE call == NewCall("generateMnemonic", "gen-accounts", None, m)
  <2>1. call \in Call
    BY NewCallType DEF Password
  <2>2. WellPlaced(call) /\ WellInformed(call)
    BY <1>6 DEF GenerateMnemonicCall, OnboardingPage, WellPlaced, WellInformed, NewCall
  <2>3. QED
    BY <1>6, <2>1, <2>2, OnboardingCallKeeps DEF GenerateMnemonicCall
<1>7. QED
  BY <1>1, <1>2, <1>3, <1>4, <1>5, <1>6 DEF LockerCall

\* What the resumed handler of a window has read.
LEMMA GotFacts ==
  ASSUME LockerInv, NEW w \in Windows, Turn(w)
  PROVE  /\ Got \in Disk
         /\ Got.accounts \in {None, disk.accounts}
         /\ Got.step = "mnemonic" => Got.accounts # None
         /\ calls[w].op \in Onboarding =>
              /\ Got.accounts = disk.accounts
              /\ Got.seed.mnemonic = disk.seed.mnemonic
<1>1. /\ Got \in Disk /\ Got = replies[1].disk /\ replies[1].to = w
      /\ 1 \in 1..Len(replies)
  BY TurnFacts DEF LockerInv
<1>2. QED
  BY <1>1 DEF LockerInv, RepliesAreFresh

LEMMA PcOfOnboarding ==
  ASSUME LockerInv, NEW w \in Windows
  PROVE  /\ calls[w] \in Call
         /\ calls[w].pc \in GenPcs \cup SavePcs => calls[w].op \in Onboarding
         /\ calls[w].pc \in (GenPcs \cup SavePcs) \ {"save-step"} => unlocked
         /\ calls[w].pc # "idle" => calls[w].op # "none"
  BY DEF LockerInv, LockerTypeOK, PcFollowsOp, OnboardingIsOpen, Onboarding

\* Await(w, pc) in the form AwaitKeeps speaks of.
LEMMA AwaitForm ==
  ASSUME LockerInv, NEW w \in Windows, NEW pc \in Pcs, Await(w, pc)
  PROVE  \E call \in Call :
           /\ call.pc = pc /\ call.op = calls[w].op
           /\ call.mnemonic = calls[w].mnemonic /\ call.generated = calls[w].generated
           /\ call.password = calls[w].password
           /\ calls' = [calls EXCEPT ![w] = call]
           /\ replies' = Append(Tail(replies), Reply(w))
<1>1. PICK call \in Call : call = [calls[w] EXCEPT !.pc = pc]
  BY PcOfOnboarding DEF Call
<1>2. /\ call.pc = pc /\ call.op = calls[w].op
      /\ call.mnemonic = calls[w].mnemonic /\ call.generated = calls[w].generated
      /\ call.password = calls[w].password
  BY <1>1, PcOfOnboarding DEF Call
<1>3. /\ calls' = [calls EXCEPT ![w] = call]
      /\ replies' = Append(Tail(replies), Reply(w))
  BY <1>1 DEF Await, LockerInv, LockerTypeOK
<1>4. QED
  BY <1>2, <1>3

\* A handler that only awaits, without a write or a change of the lock.
LEMMA AwaitQuietly ==
  ASSUME LockerInv, NEW w \in Windows, NEW pc \in Pcs, Turn(w), Await(w, pc),
         calls[w].op # "none", UNCHANGED <<disk, unlocked, secrets>>, LeaveHistory,
         calls[w].pc \notin {"status", "auth"},
         \A call \in Call : /\ call.pc = pc /\ call.op = calls[w].op
                            /\ call.mnemonic = calls[w].mnemonic
                            /\ call.generated => disk.accounts # None
                            => WellPlaced(call) /\ WellInformed(call)
  PROVE  LockerInv'
<1>1. PICK call \in Call :
        /\ call.pc = pc /\ call.op = calls[w].op
        /\ call.mnemonic = calls[w].mnemonic /\ call.generated = calls[w].generated
        /\ calls' = [calls EXCEPT ![w] = call]
        /\ replies' = Append(Tail(replies), Reply(w))
  BY AwaitForm
<1>2. disk' = disk /\ unlocked' = unlocked /\ secrets' = secrets
  OBVIOUS
<1>3. WellPlaced(call) /\ WellInformed(call)
  BY <1>1 DEF LockerInv, CallsKnow
<1>4. WellInformed(call)'
  BY <1>2, <1>3 DEF WellInformed
<1>5. /\ disk' \in Disk /\ secrets' \in [password: Password, mnemonic: Mnemonic]
      /\ FinishedHasAccounts' /\ OneSeed' /\ KeysAreTheAccounts'
  BY <1>2 DEF LockerInv, LockerTypeOK, FinishedHasAccounts, OneSeed,
              KeysAreTheAccounts
<1>6. LockedIsCleared'
  BY <1>1, <1>2 DEF LockerInv, LockerTypeOK, LockedIsCleared
<1>7. QED
  BY <1>1, <1>2, <1>3, <1>4, <1>5, <1>6, AwaitKeeps

LEMMA UnlockKeepsInv ==
  ASSUME LockerInv, NEW w \in Windows,
         \/ UnlockStatus(w) \/ UnlockSucceeds(w) \/ UnlockFails(w) \/ LockNotified(w)
  PROVE  LockerInv'
<1> USE DEF Ops, Onboarding, Pcs, Resting, SetupPcs, GenPcs, SavePcs
<1>1. CASE UnlockStatus(w)
  <2>1. PICK call \in Call :
          call = [calls[w] EXCEPT !.pc = "auth", !.generated = Got.step = "mnemonic"]
    BY PcOfOnboarding DEF Call
  <2>2. /\ Turn(w) /\ calls[w].pc = "status"
        /\ disk' = disk /\ unlocked' = unlocked /\ LeaveHistory
        /\ secrets' = [secrets EXCEPT !.password = calls[w].password]
        /\ calls' = [calls EXCEPT ![w].pc = "auth", ![w].generated = Got.step = "mnemonic"]
        /\ replies' = Append(Tail(replies), Reply(w))
    BY <1>1 DEF UnlockStatus, Resumed
  <2>3. calls' = [calls EXCEPT ![w] = call]
    BY <2>1, <2>2, PcOfOnboarding DEF LockerInv, LockerTypeOK, Call
  <2>4. /\ call.pc = "auth" /\ call.op = calls[w].op
        /\ call.generated = (Got.step = "mnemonic") /\ calls[w].op # "none"
    BY <2>1, <2>2, PcOfOnboarding DEF Call
  <2>5. WellPlaced(call)
    BY <2>4 DEF WellPlaced
  <2>6. WellInformed(call)'
    BY <2>2, <2>4, GotFacts DEF WellInformed
  <2>7. /\ disk' \in Disk /\ secrets' \in [password: Password, mnemonic: Mnemonic]
        /\ secrets'.mnemonic = secrets.mnemonic
    BY <2>2, PcOfOnboarding DEF LockerInv, LockerTypeOK, Call
  <2>8. LockedIsCleared'
    BY <2>3, <2>4 DEF LockedIsCleared, LockerInv, LockerTypeOK
  <2>9. FinishedHasAccounts' /\ OneSeed' /\ KeysAreTheAccounts'
    BY <2>2, <2>7 DEF LockerInv, FinishedHasAccounts, OneSeed, KeysAreTheAccounts
  <2>10. QED
    BY <2>2, <2>3, <2>4, <2>5, <2>6, <2>7, <2>8, <2>9, AwaitKeeps
<1>2. CASE UnlockFails(w)
  <2>1. KeysAreTheAccounts'
    BY <1>2 DEF UnlockFails, KeysAreTheAccounts, Cleared
  <2>2. QED
    BY <1>2, <2>1, ReturnKeeps, IdleType DEF UnlockFails, Resumed
<1>3. CASE UnlockSucceeds(w)
  <2>1. /\ Turn(w) /\ unlocked' /\ disk' = disk /\ secrets' = secrets /\ LeaveHistory
        /\ calls' = [calls EXCEPT ![w].pc = "unlocked"] /\ calls[w].pc = "auth"
    BY <1>3 DEF UnlockSucceeds, Resumed
  <2>2. /\ OnlyCall(w) /\ calls'[w].pc = "unlocked" /\ calls'[w].op = calls[w].op
        /\ calls'[w].generated = calls[w].generated /\ calls[w].op # "none"
    BY <2>1, PcOfOnboarding DEF OnlyCall, LockerInv, LockerTypeOK, Call
  <2>3. /\ replies \in Seq(Replies) /\ replies # <<>>
        /\ Len(replies) \in Nat \ {0} /\ replies[1].to = w
        /\ \A i \in 2..Len(replies) : replies[i].to # w
    BY <2>1, OneReply DEF LockerInv
  <2>4. PcFollowsOp' /\ OneOnboardingCall' /\ OnboardingIsOpen' /\ CallsKnow'
    BY <2>1, <2>2 DEF LockerInv, PcFollowsOp, OneOnboardingCall, OnboardingIsOpen, CallsKnow,
                      OnlyCall
  <2>5. FinishedHasAccounts' /\ LockedIsCleared' /\ OneSeed' /\ KeysAreTheAccounts'
    BY <2>1 DEF LockerInv, FinishedHasAccounts, LockedIsCleared, OneSeed,
                KeysAreTheAccounts
  <2>6. CASE ~calls[w].generated
    <3>1. replies' = Tail(replies)
      BY <1>3, <2>6 DEF UnlockSucceeds
    <3>2. LockerTypeOK'
      BY <2>1, <2>2, <2>3, <3>1, TailFacts
      DEF LockerInv, LockerTypeOK, LeaveHistory, OnlyCall, Replies
    <3>3. RepliesAreAwaited'
      BY <2>1, <2>2, <3>1, ReturnAwaited DEF LockerInv
    <3>4. RepliesAreFresh'
      BY <2>1, <2>2, <3>1, ReturnFresh DEF LockerInv
    <3>5. QED
      BY <2>4, <2>5, <3>2, <3>3, <3>4 DEF LockerInv
  <2>7. CASE calls[w].generated
    <3>1. replies' = Append(Tail(replies), Reply(Background))
      BY <1>3, <2>7 DEF UnlockSucceeds
    <3>2. /\ Reply(Background) \in Replies /\ Reply(Background).to = Background
          /\ Reply(Background).disk = disk
      BY <2>1 DEF Reply, Replies, LockerInv, LockerTypeOK
    <3>3. /\ Len(replies') = Len(replies) /\ replies'[Len(replies)] = Reply(Background)
          /\ \A i \in 1..Len(replies) - 1 :
               i + 1 \in 2..Len(replies) /\ replies'[i] = replies[i + 1]
          /\ replies' \in Seq(Replies)
      BY <2>3, <3>1, <3>2, AwaitFacts
    <3>4. LockerTypeOK'
      BY <2>1, <2>2, <3>3 DEF LockerInv, LockerTypeOK, LeaveHistory, OnlyCall, Replies
    <3>5. disk.accounts # None /\ disk.seed.mnemonic = disk.accounts
      BY <2>7 DEF LockerInv, CallsKnow, OneSeed
    <3>6. ASSUME NEW i \in 1..Len(replies), i # Len(replies)
          PROVE  /\ i \in 1..Len(replies) - 1 /\ i + 1 \in 1..Len(replies)
                 /\ replies'[i] = replies[i + 1] /\ replies'[i].to # w
      <4>1. i \in 1..Len(replies) - 1 /\ i + 1 \in 2..Len(replies)
        BY <2>3, <3>6, Shift
      <4>2. QED
        BY <2>3, <3>3, <4>1
    <3>7. RepliesAreAwaited'
      <4>1. ASSUME NEW i \in 1..Len(replies), replies'[i].to \in Windows
            PROVE  /\ calls'[replies'[i].to].pc \notin Resting
                   /\ \A j \in 1..Len(replies) : replies'[j].to = replies'[i].to => i = j
        <5>1. i # Len(replies)
          BY <3>2, <3>3, <4>1, ConstantsAssumption
        <5>2. i + 1 \in 1..Len(replies) /\ replies'[i] = replies[i + 1] /\ replies'[i].to # w
          BY <5>1, <3>6
        <5>3. calls'[replies'[i].to].pc \notin Resting
          BY <2>2, <4>1, <5>2 DEF LockerInv, RepliesAreAwaited, OnlyCall
        <5>4. ASSUME NEW j \in 1..Len(replies), replies'[j].to = replies'[i].to
              PROVE  i = j
          <6>1. j # Len(replies)
            BY <3>2, <3>3, <4>1, <5>4, ConstantsAssumption
          <6>2. j + 1 \in 1..Len(replies) /\ replies'[j] = replies[j + 1]
            BY <6>1, <3>6
          <6>3. i + 1 = j + 1
            BY <4>1, <5>2, <5>4, <6>2 DEF LockerInv, RepliesAreAwaited
          <6>4. QED
            BY <2>3, <6>3
        <5>5. QED
          BY <5>3, <5>4
      <4>2. QED
        BY <3>3, <4>1 DEF RepliesAreAwaited
    <3>8. RepliesAreFresh'
      <4>1. ASSUME NEW i \in 1..Len(replies)
            PROVE  /\ replies'[i].disk.accounts \in {None, disk.accounts}
                   /\ replies'[i].disk.step = "mnemonic" => replies'[i].disk.accounts # None
                   /\ replies'[i].to \in Windows /\ calls'[replies'[i].to].op \in Onboarding =>
                        /\ replies'[i].disk.accounts = disk.accounts
                        /\ replies'[i].disk.seed.mnemonic = disk.seed.mnemonic
                   /\ replies'[i].to = Background =>
                        /\ replies'[i].disk.accounts # None
                        /\ replies'[i].disk.seed.mnemonic = replies'[i].disk.accounts
        <5>1. CASE i = Len(replies)
          BY <5>1, <3>2, <3>3, <3>5, ConstantsAssumption
        <5>2. CASE i # Len(replies)
          BY <5>2, <2>2, <3>6 DEF LockerInv, RepliesAreFresh, OnlyCall
        <5>3. QED
          BY <5>1, <5>2
      <4>2. QED
        BY <2>1, <3>3, <4>1 DEF RepliesAreFresh
    <3>9. QED
      BY <2>4, <2>5, <3>4, <3>7, <3>8 DEF LockerInv
  <2>8. QED
    BY <2>6, <2>7
<1>4. CASE LockNotified(w)
  <2>1. /\ Turn(w) /\ unlocked' = unlocked /\ disk' = disk /\ secrets' = secrets
        /\ LeaveHistory /\ replies' = Tail(replies)
        /\ calls' = [calls EXCEPT ![w].pc = "locked"] /\ calls[w].pc = "notify"
    BY <1>4 DEF LockNotified, Resumed
  <2>2. /\ OnlyCall(w) /\ calls'[w].pc = "locked" /\ calls'[w].op = calls[w].op
        /\ calls'[w].generated = calls[w].generated /\ calls[w].op # "none"
    <3>1. calls \in [Windows -> Call] /\ calls[w] \in Call /\ calls[w].op # "none"
      BY <2>1, PcOfOnboarding DEF LockerInv, LockerTypeOK
    <3>2. QED
      BY <2>1, <3>1 DEF OnlyCall, Call
  <2>3. replies \in Seq(Replies) /\ replies # <<>>
    BY <2>1, OneReply DEF LockerInv
  <2>4. LockerTypeOK'
    BY <2>1, <2>2, <2>3, TailFacts
    DEF LockerInv, LockerTypeOK, LeaveHistory, OnlyCall, Replies
  <2>5. PcFollowsOp' /\ OneOnboardingCall' /\ OnboardingIsOpen' /\ CallsKnow'
    BY <2>1, <2>2 DEF LockerInv, PcFollowsOp, OneOnboardingCall, OnboardingIsOpen, CallsKnow,
                      OnlyCall
  <2>6. RepliesAreAwaited'
    BY <2>1, <2>2, ReturnAwaited DEF LockerInv
  <2>7. RepliesAreFresh'
    BY <2>1, <2>2, ReturnFresh DEF LockerInv
  <2>8. FinishedHasAccounts' /\ LockedIsCleared' /\ OneSeed' /\ KeysAreTheAccounts'
    BY <2>1, <2>2 DEF LockerInv, FinishedHasAccounts, LockedIsCleared, OneSeed,
                      KeysAreTheAccounts, OnlyCall
  <2>9. QED
    BY <2>4, <2>5, <2>6, <2>7, <2>8 DEF LockerInv
<1>5. QED
  BY <1>1, <1>2, <1>3, <1>4

LEMMA SetupPasswordKeepsInv ==
  ASSUME LockerInv, NEW w \in Windows,
         \/ SetupPasswordRefused(w) \/ SetupPasswordWrite(w)
         \/ SetupPasswordStep(w) \/ SetupPasswordUnlock(w)
  PROVE  LockerInv'
<1> USE DEF Ops, Onboarding, Pcs, Resting, SetupPcs, GenPcs, SavePcs
<1>1. CASE SetupPasswordUnlock(w)
  <2>1. /\ Turn(w) /\ Await(w, "status") /\ calls[w].pc = "setup-step"
        /\ UNCHANGED <<disk, unlocked, secrets>> /\ LeaveHistory
    BY <1>1 DEF SetupPasswordUnlock, Resumed
  <2>2. calls[w].op # "none"
    BY <2>1, PcOfOnboarding
  <2>3. QED
    BY <2>1, <2>2, AwaitQuietly DEF WellPlaced, WellInformed
<1>2. ASSUME NEW pc \in {"setup-write", "setup-step"}, Turn(w), Await(w, pc),
             calls[w].pc \in {"setup-check", "setup-write"},
             UNCHANGED <<unlocked, secrets>>, LeaveHistory, disk' \in Disk,
             disk'.accounts = disk.accounts, disk'.seed = disk.seed,
             disk'.step = disk.step \/ disk'.step = "password"
      PROVE  LockerInv'
  <2>1. PICK call \in Call :
          /\ call.pc = pc /\ call.op = calls[w].op
          /\ call.mnemonic = calls[w].mnemonic /\ call.generated = calls[w].generated
          /\ calls' = [calls EXCEPT ![w] = call]
          /\ replies' = Append(Tail(replies), Reply(w))
    BY <1>2, AwaitForm
  <2>2. calls[w].op = "setupPassword"
    BY <1>2 DEF LockerInv, PcFollowsOp
  <2>3. WellPlaced(call)
    BY <1>2, <2>1, <2>2 DEF WellPlaced
  <2>4. WellInformed(call)'
    BY <1>2, <2>1 DEF WellInformed, LockerInv, CallsKnow
  <2>5. secrets' \in [password: Password, mnemonic: Mnemonic]
    BY <1>2 DEF LockerInv, LockerTypeOK
  <2>6. FinishedHasAccounts' /\ OneSeed' /\ KeysAreTheAccounts'
    BY <1>2 DEF LockerInv, FinishedHasAccounts, OneSeed, KeysAreTheAccounts
  <2>7. LockedIsCleared'
    BY <1>2, <2>1 DEF LockerInv, LockerTypeOK, LockedIsCleared
  <2>8. QED
    BY <1>2, <2>1, <2>2, <2>3, <2>4, <2>5, <2>6, <2>7, AwaitKeeps
<1>3. CASE SetupPasswordWrite(w)
  <2>1. /\ Turn(w) /\ Await(w, "setup-write") /\ calls[w].pc = "setup-check"
        /\ UNCHANGED <<unlocked, secrets>> /\ LeaveHistory
        /\ disk' = [disk EXCEPT !.checker = calls[w].password]
    BY <1>3 DEF SetupPasswordWrite, Resumed
  <2>2. /\ disk' \in Disk /\ disk'.accounts = disk.accounts
        /\ disk'.seed = disk.seed /\ disk'.step = disk.step
    BY <2>1, PcOfOnboarding DEF LockerInv, LockerTypeOK, Disk, Call
  <2>3. QED
    BY <2>1, <2>2, <1>2
<1>4. CASE SetupPasswordStep(w)
  <2>1. /\ Turn(w) /\ Await(w, "setup-step") /\ calls[w].pc = "setup-write"
        /\ UNCHANGED <<unlocked, secrets>> /\ LeaveHistory
        /\ disk' = [disk EXCEPT !.step = "password"]
    BY <1>4 DEF SetupPasswordStep, Resumed
  <2>2. /\ disk' \in Disk /\ disk'.accounts = disk.accounts
        /\ disk'.seed = disk.seed /\ disk'.step = "password"
    BY <2>1 DEF LockerInv, LockerTypeOK, Disk
  <2>3. QED
    BY <2>1, <2>2, <1>2
<1>5. CASE SetupPasswordRefused(w)
  <2>1. /\ Turn(w) /\ Return(w) /\ LeaveHistory /\ calls[w].pc = "setup-check"
        /\ disk' = disk /\ unlocked' = unlocked /\ secrets' = secrets
    BY <1>5 DEF SetupPasswordRefused, Resumed
  <2>2. secrets' \in [password: Password, mnemonic: Mnemonic] /\ KeysAreTheAccounts'
    BY <2>1 DEF LockerInv, LockerTypeOK, KeysAreTheAccounts
  <2>3. QED
    BY <2>1, <2>2, ReturnKeeps
<1>6. QED
  BY <1>1, <1>3, <1>4, <1>5

LEMMA ResetPasswordKeepsInv ==
  ASSUME LockerInv, NEW w \in Windows,
         ResetPasswordRefused(w) \/ ResetPasswordSeed(w) \/ ResetPasswordChecker(w)
  PROVE  LockerInv'
<1> USE DEF Ops, Onboarding, Pcs, Resting, SetupPcs, GenPcs, SavePcs
<1>1. CASE ResetPasswordRefused(w)
  <2>1. KeysAreTheAccounts'
    BY <1>1 DEF ResetPasswordRefused, LockerInv, KeysAreTheAccounts
  <2>2. QED
    BY <1>1, <2>1, ReturnKeeps DEF ResetPasswordRefused, Resumed, LockerInv, LockerTypeOK
<1>2. CASE ResetPasswordSeed(w)
  <2>1. /\ Turn(w) /\ Await(w, "reset-seed") /\ calls[w].pc = "reset-check"
        /\ UNCHANGED <<unlocked, secrets>> /\ LeaveHistory
        /\ Got.accounts = calls[w].mnemonic
        /\ disk' = [disk EXCEPT !.seed = [mnemonic |-> calls[w].mnemonic,
                                          password |-> calls[w].password]]
    BY <1>2 DEF ResetPasswordSeed, Resumed
  <2>2. PICK call \in Call :
          /\ call.pc = "reset-seed" /\ call.op = calls[w].op
          /\ call.mnemonic = calls[w].mnemonic /\ call.generated = calls[w].generated
          /\ calls' = [calls EXCEPT ![w] = call]
          /\ replies' = Append(Tail(replies), Reply(w))
    BY <2>1, AwaitForm
  <2>3. /\ calls[w].mnemonic # None /\ calls[w].mnemonic = disk.accounts
        /\ disk.accounts # None /\ disk.seed.mnemonic = disk.accounts
    BY <2>1, GotFacts DEF LockerInv, PcFollowsOp, OneSeed
  <2>4. /\ disk' \in Disk /\ disk'.accounts = disk.accounts /\ disk'.step = disk.step
        /\ disk'.seed.mnemonic = disk.seed.mnemonic
    BY <2>1, <2>3, PcOfOnboarding DEF LockerInv, LockerTypeOK, Disk, Call
  <2>5. WellPlaced(call)
    BY <2>1, <2>2, PcOfOnboarding DEF WellPlaced
  <2>6. WellInformed(call)'
    BY <2>2, <2>3, <2>4 DEF WellInformed
  <2>7. FinishedHasAccounts' /\ OneSeed' /\ KeysAreTheAccounts'
    BY <2>1, <2>3, <2>4 DEF LockerInv, FinishedHasAccounts, OneSeed,
                            KeysAreTheAccounts
  <2>8. LockedIsCleared'
    BY <2>1, <2>2 DEF LockerInv, LockerTypeOK, LockedIsCleared
  <2>9. secrets' \in [password: Password, mnemonic: Mnemonic]
    BY <2>1 DEF LockerInv, LockerTypeOK
  <2>10. QED
    BY <2>1, <2>2, <2>4, <2>5, <2>6, <2>7, <2>8, <2>9, AwaitKeeps
<1>3. CASE ResetPasswordChecker(w)
  <2>1. /\ Turn(w) /\ Await(w, "status") /\ calls[w].pc = "reset-seed"
        /\ unlocked' = unlocked /\ LeaveHistory
        /\ secrets' = [secrets EXCEPT !.password = calls[w].password]
        /\ disk' = [disk EXCEPT !.checker = calls[w].password]
    BY <1>3 DEF ResetPasswordChecker, Resumed
  <2>2. PICK call \in Call :
          /\ call.pc = "status" /\ call.op = calls[w].op
          /\ call.mnemonic = calls[w].mnemonic /\ call.generated = calls[w].generated
          /\ calls' = [calls EXCEPT ![w] = call]
          /\ replies' = Append(Tail(replies), Reply(w))
    BY <2>1, AwaitForm
  <2>3. /\ disk' \in Disk /\ disk'.accounts = disk.accounts /\ disk'.step = disk.step
        /\ disk'.seed = disk.seed
        /\ secrets' \in [password: Password, mnemonic: Mnemonic]
        /\ secrets'.mnemonic = secrets.mnemonic
    BY <2>1, PcOfOnboarding DEF LockerInv, LockerTypeOK, Disk, Call
  <2>4. WellPlaced(call)
    BY <2>1, <2>2, PcOfOnboarding DEF WellPlaced
  <2>5. WellInformed(call)'
    BY <2>2, <2>3 DEF WellInformed, LockerInv, CallsKnow
  <2>6. FinishedHasAccounts' /\ OneSeed' /\ KeysAreTheAccounts'
    BY <2>3 DEF LockerInv, FinishedHasAccounts, OneSeed, KeysAreTheAccounts
  <2>7. LockedIsCleared'
    BY <2>2 DEF LockerInv, LockerTypeOK, LockedIsCleared
  <2>8. QED
    BY <2>1, <2>2, <2>3, <2>4, <2>5, <2>6, <2>7, AwaitKeeps
<1>4. QED
  BY <1>1, <1>2, <1>3

LEMMA GenerateMnemonicKeepsInv ==
  ASSUME LockerInv, NEW w \in Windows,
         \/ GenerateMnemonicRefused(w) \/ GenerateMnemonicLookup(w)
         \/ GenerateMnemonicAgain(w) \/ GenerateMnemonicDone(w)
         \/ \E m \in Mnemonics : GenerateMnemonicWrite(w, m)
  PROVE  LockerInv'
<1> USE DEF Ops, Onboarding, Pcs, Resting, SetupPcs, GenPcs, SavePcs
<1>1. CASE GenerateMnemonicRefused(w) \/ GenerateMnemonicAgain(w) \/ GenerateMnemonicDone(w)
  <2>1. /\ Turn(w) /\ Return(w) /\ UNCHANGED <<disk, unlocked, secrets>> /\ LeaveHistory
        /\ calls[w].pc \in GenPcs
    BY <1>1 DEF GenerateMnemonicRefused, GenerateMnemonicAgain, GenerateMnemonicDone, Resumed
  <2>2. KeysAreTheAccounts'
    BY <2>1 DEF LockerInv, KeysAreTheAccounts
  <2>3. QED
    BY <2>1, <2>2, ReturnKeeps DEF LockerInv, LockerTypeOK
<1>2. CASE GenerateMnemonicLookup(w)
  <2>1. /\ Turn(w) /\ Await(w, "gen-seed") /\ calls[w].pc = "gen-accounts"
        /\ UNCHANGED <<disk, unlocked, secrets>> /\ LeaveHistory /\ Got.accounts = None
    BY <1>2 DEF GenerateMnemonicLookup, Resumed
  <2>2. /\ calls[w].op = "generateMnemonic" /\ unlocked /\ disk.step # "mnemonic"
        /\ disk.accounts = None
    BY <2>1, GotFacts DEF LockerInv, PcFollowsOp, OnboardingIsOpen
  <2>3. QED
    BY <2>1, <2>2, AwaitQuietly DEF WellPlaced, WellInformed
<1>3. ASSUME NEW m \in Mnemonics, GenerateMnemonicWrite(w, m)
      PROVE  LockerInv'
  <2>1. /\ Turn(w) /\ calls[w].pc = "gen-seed" /\ unlocked' = unlocked /\ LeaveHistory
        /\ secrets' = [secrets EXCEPT !.mnemonic = m]
    BY <1>3 DEF GenerateMnemonicWrite, Resumed
  <2>2. /\ calls[w].op = "generateMnemonic" /\ unlocked /\ disk.step # "mnemonic"
        /\ disk.accounts = None
    BY <2>1 DEF LockerInv, PcFollowsOp, OnboardingIsOpen, CallsKnow
  <2>3. secrets' \in [password: Password, mnemonic: Mnemonic]
    BY <2>1 DEF LockerInv, LockerTypeOK, Mnemonic
  <2>4. CASE secrets.password = None
    <3>1. disk' = disk /\ Return(w)
      BY <1>3, <2>4 DEF GenerateMnemonicWrite
    <3>2. KeysAreTheAccounts'
      BY <2>2, <3>1 DEF KeysAreTheAccounts
    <3>3. QED
      BY <2>1, <2>2, <2>3, <3>1, <3>2, ReturnKeeps
  <2>5. CASE secrets.password # None
    <3>1. /\ Await(w, "gen-write")
          /\ disk' = [disk EXCEPT !.seed = [mnemonic |-> m, password |-> secrets.password]]
      BY <1>3, <2>5 DEF GenerateMnemonicWrite
    <3>2. PICK call \in Call :
            /\ call.pc = "gen-write" /\ call.op = calls[w].op
            /\ call.mnemonic = calls[w].mnemonic /\ call.generated = calls[w].generated
            /\ calls' = [calls EXCEPT ![w] = call]
            /\ replies' = Append(Tail(replies), Reply(w))
      BY <3>1, AwaitForm
    <3>3. /\ disk' \in Disk /\ disk'.accounts = disk.accounts /\ disk'.step = disk.step
      BY <3>1 DEF LockerInv, LockerTypeOK, Disk, Mnemonic
    <3>4. WellPlaced(call)
      BY <2>2, <3>2 DEF WellPlaced
    <3>5. WellInformed(call)'
      BY <2>1, <2>2, <3>2, <3>3 DEF WellInformed, LockerInv, CallsKnow
    <3>6. FinishedHasAccounts' /\ OneSeed' /\ KeysAreTheAccounts'
      BY <2>2, <3>3 DEF FinishedHasAccounts, OneSeed, KeysAreTheAccounts
    <3>7. LockedIsCleared'
      BY <2>1, <2>2 DEF LockedIsCleared
    <3>8. QED
      BY <2>1, <2>2, <2>3, <3>2, <3>3, <3>4, <3>5, <3>6, <3>7, AwaitKeeps
  <2>6. QED
    BY <2>4, <2>5
<1>4. QED
  BY <1>1, <1>2, <1>3

LEMMA SaveMnemonicKeepsInv ==
  ASSUME LockerInv, NEW w \in Windows,
         \/ SaveMnemonicRefused(w) \/ SaveMnemonicRead(w) \/ SaveMnemonicAccounts(w)
         \/ SaveMnemonicSelect(w) \/ SaveMnemonicStep(w) \/ SaveMnemonicDone(w)
  PROVE  LockerInv'
<1> USE DEF Ops, Onboarding, Pcs, Resting, SetupPcs, GenPcs, SavePcs
<1>1. CASE SaveMnemonicRefused(w) \/ SaveMnemonicDone(w)
  <2>1. /\ Turn(w) /\ Return(w) /\ UNCHANGED <<disk, unlocked, secrets>> /\ LeaveHistory
        /\ calls[w].pc \in SavePcs
    BY <1>1 DEF SaveMnemonicRefused, SaveMnemonicDone, Resumed
  <2>2. KeysAreTheAccounts'
    BY <2>1 DEF LockerInv, KeysAreTheAccounts
  <2>3. QED
    BY <2>1, <2>2, ReturnKeeps DEF LockerInv, LockerTypeOK
<1>2. CASE SaveMnemonicRead(w)
  <2>1. PICK call \in Call :
          call = [calls[w] EXCEPT !.pc = "save-accounts", !.mnemonic = Got.seed.mnemonic]
    BY <1>2, PcOfOnboarding, GotFacts DEF SaveMnemonicRead, Resumed, Call, Disk
  <2>2. /\ Turn(w) /\ calls[w].pc = "save-seed"
        /\ disk' = disk /\ unlocked' = unlocked /\ secrets' = secrets /\ LeaveHistory
        /\ calls' = [calls EXCEPT ![w].pc = "save-accounts",
                                  ![w].mnemonic = Got.seed.mnemonic]
        /\ replies' = Append(Tail(replies), Reply(w))
    BY <1>2 DEF SaveMnemonicRead, Resumed
  <2>3. calls' = [calls EXCEPT ![w] = call]
    BY <2>1, <2>2, PcOfOnboarding DEF LockerInv, LockerTypeOK, Call
  <2>4. /\ call.pc = "save-accounts" /\ call.op = calls[w].op
        /\ call.mnemonic = Got.seed.mnemonic /\ call.generated = calls[w].generated
    BY <2>1, PcOfOnboarding DEF Call
  <2>5. /\ calls[w].op = "saveMnemonic" /\ unlocked /\ disk.step # "mnemonic"
        /\ Got.seed.mnemonic = disk.seed.mnemonic /\ Got.seed.mnemonic # None
    BY <1>2, <2>2, GotFacts
    DEF SaveMnemonicRead, CanReadSeed, LockerInv, PcFollowsOp, OnboardingIsOpen
  <2>6. WellPlaced(call)
    BY <2>4, <2>5 DEF WellPlaced
  <2>7. WellInformed(call)'
    BY <2>2, <2>4, <2>5 DEF WellInformed, LockerInv, CallsKnow
  <2>8. /\ disk' \in Disk /\ secrets' \in [password: Password, mnemonic: Mnemonic]
        /\ FinishedHasAccounts' /\ OneSeed' /\ KeysAreTheAccounts'
    BY <2>2 DEF LockerInv, LockerTypeOK, FinishedHasAccounts, OneSeed,
                KeysAreTheAccounts
  <2>9. LockedIsCleared'
    BY <2>2, <2>5 DEF LockedIsCleared
  <2>10. QED
    BY <2>2, <2>3, <2>4, <2>5, <2>6, <2>7, <2>8, <2>9, AwaitKeeps
<1>3. CASE SaveMnemonicAccounts(w)
  <2>1. /\ Turn(w) /\ calls[w].pc = "save-accounts" /\ unlocked' = unlocked /\ LeaveHistory
        /\ secrets' = [secrets EXCEPT !.mnemonic = calls[w].mnemonic]
    BY <1>3 DEF SaveMnemonicAccounts, Resumed
  <2>2. /\ calls[w].op = "saveMnemonic" /\ unlocked /\ disk.step # "mnemonic"
        /\ Got.accounts = disk.accounts /\ calls[w].mnemonic = disk.seed.mnemonic
    BY <2>1, GotFacts DEF LockerInv, PcFollowsOp, OnboardingIsOpen, CallsKnow
  <2>3. secrets' \in [password: Password, mnemonic: Mnemonic]
        /\ secrets'.mnemonic = disk.seed.mnemonic
    BY <2>1, <2>2, PcOfOnboarding DEF LockerInv, LockerTypeOK, Call
  <2>4. CASE Got.accounts # None
    <3>1. disk' = disk /\ Return(w)
      BY <1>3, <2>4 DEF SaveMnemonicAccounts
    <3>2. KeysAreTheAccounts'
      BY <2>3, <3>1 DEF LockerInv, KeysAreTheAccounts, OneSeed
    <3>3. QED
      BY <2>1, <2>2, <2>3, <3>1, <3>2, ReturnKeeps
  <2>5. CASE Got.accounts = None
    <3>1. Await(w, "save-write") /\ disk' = [disk EXCEPT !.accounts = calls[w].mnemonic]
      BY <1>3, <2>5 DEF SaveMnemonicAccounts
    <3>2. PICK call \in Call :
            /\ call.pc = "save-write" /\ call.op = calls[w].op
            /\ call.mnemonic = calls[w].mnemonic /\ call.generated = calls[w].generated
            /\ calls' = [calls EXCEPT ![w] = call]
            /\ replies' = Append(Tail(replies), Reply(w))
      BY <3>1, AwaitForm
    <3>3. calls[w].mnemonic # None
      BY <2>1, <2>2 DEF LockerInv, CallsKnow
    <3>4. /\ disk' \in Disk /\ disk'.seed = disk.seed /\ disk'.step = disk.step
          /\ disk'.accounts = disk.seed.mnemonic /\ disk'.accounts # None
      BY <2>2, <3>1, <3>3, PcOfOnboarding DEF LockerInv, LockerTypeOK, Disk, Call
    <3>5. WellPlaced(call)
      BY <2>2, <3>2 DEF WellPlaced
    <3>6. WellInformed(call)'
      BY <2>1, <2>2, <3>2, <3>4 DEF WellInformed
    <3>7. FinishedHasAccounts' /\ OneSeed' /\ KeysAreTheAccounts'
      BY <2>3, <3>4 DEF FinishedHasAccounts, OneSeed, KeysAreTheAccounts
    <3>8. LockedIsCleared'
      BY <2>1, <2>2 DEF LockedIsCleared
    <3>9. QED
      BY <2>1, <2>2, <2>3, <2>5, <3>2, <3>4, <3>5, <3>6, <3>7, <3>8, AwaitKeeps
  <2>6. QED
    BY <2>4, <2>5
<1>4. CASE SaveMnemonicSelect(w)
  <2>1. /\ Turn(w) /\ Await(w, "save-select") /\ calls[w].pc = "save-write"
        /\ UNCHANGED <<disk, unlocked, secrets>> /\ LeaveHistory
    BY <1>4 DEF SaveMnemonicSelect, Resumed
  <2>2. /\ calls[w].op = "saveMnemonic" /\ unlocked /\ disk.step # "mnemonic"
        /\ disk.accounts # None
    BY <2>1 DEF LockerInv, PcFollowsOp, OnboardingIsOpen, CallsKnow
  <2>3. QED
    BY <2>1, <2>2, AwaitQuietly DEF WellPlaced, WellInformed
<1>5. CASE SaveMnemonicStep(w)
  <2>1. /\ Turn(w) /\ calls[w].pc = "save-select" /\ LeaveHistory
        /\ unlocked' = unlocked /\ secrets' = secrets
    BY <1>5 DEF SaveMnemonicStep, Resumed
  <2>2. /\ calls[w].op = "saveMnemonic" /\ unlocked /\ disk.accounts # None
    BY <2>1 DEF LockerInv, PcFollowsOp, OnboardingIsOpen, CallsKnow
  <2>3. secrets' \in [password: Password, mnemonic: Mnemonic]
    BY <2>1 DEF LockerInv, LockerTypeOK
  <2>4. CASE secrets.mnemonic # Got.accounts
    <3>1. disk' = disk /\ Return(w)
      BY <1>5, <2>4 DEF SaveMnemonicStep
    <3>2. KeysAreTheAccounts'
      BY <2>1, <3>1 DEF LockerInv, KeysAreTheAccounts
    <3>3. QED
      BY <2>1, <2>2, <2>3, <3>1, <3>2, ReturnKeeps
  <2>5. CASE secrets.mnemonic = Got.accounts
    <3>1. Await(w, "save-step") /\ disk' = [disk EXCEPT !.step = "mnemonic"]
      BY <1>5, <2>5 DEF SaveMnemonicStep
    <3>2. PICK call \in Call :
            /\ call.pc = "save-step" /\ call.op = calls[w].op
            /\ call.mnemonic = calls[w].mnemonic /\ call.generated = calls[w].generated
            /\ calls' = [calls EXCEPT ![w] = call]
            /\ replies' = Append(Tail(replies), Reply(w))
      BY <3>1, AwaitForm
    <3>3. /\ disk' \in Disk /\ disk'.accounts = disk.accounts /\ disk'.seed = disk.seed
      BY <3>1 DEF LockerInv, LockerTypeOK, Disk
    <3>4. WellPlaced(call)
      BY <2>2, <3>2 DEF WellPlaced
    <3>5. WellInformed(call)'
      BY <2>2, <3>2, <3>3 DEF WellInformed
    <3>6. FinishedHasAccounts' /\ OneSeed' /\ KeysAreTheAccounts'
      BY <2>1, <2>2, <3>3 DEF LockerInv, FinishedHasAccounts, OneSeed,
                              KeysAreTheAccounts
    <3>7. LockedIsCleared'
      BY <2>1, <2>2 DEF LockedIsCleared
    <3>8. QED
      BY <2>1, <2>2, <2>3, <3>2, <3>3, <3>4, <3>5, <3>6, <3>7, AwaitKeeps
  <2>6. QED
    BY <2>4, <2>5
<1>6. QED
  BY <1>1, <1>2, <1>3, <1>4, <1>5

LEMMA StepsKeepInv ==
  ASSUME LockerInv, NEW w \in Windows, LockerStep(w)
  PROVE  LockerInv'
  BY UnlockKeepsInv, SetupPasswordKeepsInv, ResetPasswordKeepsInv, GenerateMnemonicKeepsInv,
     SaveMnemonicKeepsInv DEF LockerStep

\* The reply nobody awaits: the mnemonic it brings belongs to the accounts.
LEMMA MnemonicLoadedKeepsInv ==
  ASSUME LockerInv, MnemonicLoaded
  PROVE  LockerInv'
<1>1. /\ Turn(Background) /\ replies' = Tail(replies)
      /\ disk' = disk /\ unlocked' = unlocked /\ calls' = calls /\ LeaveHistory
  BY DEF MnemonicLoaded
<1>2. /\ Len(replies) \in Nat \ {0} /\ replies \in Seq(Replies) /\ replies # <<>>
      /\ replies[1].to = Background /\ Got = replies[1].disk /\ Got \in Disk
  BY <1>1, TurnFacts DEF LockerInv, LockerTypeOK, Replies
<1>3. disk.accounts # None /\ Got.seed.mnemonic = disk.accounts
  <2>1. 1 \in 1..Len(replies)
    BY <1>2
  <2>2. QED
    BY <1>2, <2>1 DEF LockerInv, RepliesAreFresh
<1>4. /\ secrets' \in [password: Password, mnemonic: Mnemonic]
      /\ \/ secrets' = secrets
         \/ secrets.password # None /\ secrets'.mnemonic = disk.accounts
  BY <1>2, <1>3 DEF MnemonicLoaded, LockerInv, LockerTypeOK, Disk
<1>5. /\ replies' \in Seq(Replies) /\ Len(replies') = Len(replies) - 1
      /\ \A i \in 1..Len(replies') : i + 1 \in 2..Len(replies) /\ replies'[i] = replies[i + 1]
  BY <1>1, <1>2, TailFacts
<1>6. LockerTypeOK'
  BY <1>1, <1>4, <1>5 DEF LockerInv, LockerTypeOK, LeaveHistory, Replies
<1>7. PcFollowsOp' /\ OneOnboardingCall' /\ OnboardingIsOpen' /\ CallsKnow'
  BY <1>1 DEF LockerInv, PcFollowsOp, OneOnboardingCall, OnboardingIsOpen, CallsKnow
<1>8. RepliesAreAwaited'
  <2> SUFFICES ASSUME NEW i \in 1..Len(replies'), replies'[i].to \in Windows
               PROVE  /\ calls[replies'[i].to].pc \notin Resting
                      /\ \A j \in 1..Len(replies') : replies'[j].to = replies'[i].to => i = j
    BY <1>1 DEF RepliesAreAwaited, Resting
  <2>1. i + 1 \in 1..Len(replies) /\ replies'[i] = replies[i + 1]
    BY <1>2, <1>5
  <2>2. ASSUME NEW j \in 1..Len(replies'), replies'[j].to = replies'[i].to
        PROVE  i = j
    <3>1. j + 1 \in 1..Len(replies) /\ replies'[j] = replies[j + 1]
      BY <1>2, <1>5
    <3>2. i + 1 = j + 1
      BY <2>1, <2>2, <3>1 DEF LockerInv, RepliesAreAwaited
    <3>3. QED
      BY <1>2, <1>5, <3>2
  <2>3. QED
    BY <2>1, <2>2 DEF LockerInv, RepliesAreAwaited, Resting
<1>9. RepliesAreFresh'
  BY <1>1, <1>2, <1>5 DEF LockerInv, RepliesAreFresh
<1>10. LockedIsCleared'
  BY <1>1, <1>4 DEF LockerInv, LockedIsCleared, Cleared
<1>11. FinishedHasAccounts' /\ OneSeed' /\ KeysAreTheAccounts'
  BY <1>1, <1>4 DEF LockerInv, FinishedHasAccounts, OneSeed, KeysAreTheAccounts
<1>12. QED
  BY <1>6, <1>7, <1>8, <1>9, <1>10, <1>11 DEF LockerInv

LEMMA AnswerKeepsInv ==
  ASSUME LockerInv, NEW w \in Windows, Answer(w)
  PROVE  LockerInv'
<1>1. /\ calls' = [calls EXCEPT ![w] = Idle] /\ calls[w].pc \in {"unlocked", "locked"}
      /\ disk' = disk /\ unlocked' = unlocked /\ secrets' = secrets /\ replies' = replies
      /\ interrupted' \subseteq interrupted /\ restarts' = restarts
      /\ overlapped' = overlapped
  BY DEF Answer
<1>2. OnlyCall(w) /\ calls'[w] = Idle
  BY <1>1, IdleType DEF OnlyCall, LockerInv, LockerTypeOK
<1>3. LockerTypeOK'
  BY <1>1, <1>2 DEF LockerInv, LockerTypeOK, OnlyCall
<1>4. PcFollowsOp' /\ OneOnboardingCall' /\ OnboardingIsOpen' /\ CallsKnow'
  BY <1>1, <1>2 DEF LockerInv, PcFollowsOp, OneOnboardingCall, OnboardingIsOpen, CallsKnow,
                    OnlyCall, Idle, NewCall, Onboarding, SetupPcs, GenPcs, SavePcs
<1>5. \A i \in 1..Len(replies) : replies[i].to # w
  BY <1>1, IdleGetsNone DEF LockerInv, Resting
<1>6. RepliesAreAwaited' /\ RepliesAreFresh'
  BY <1>1, <1>2, <1>5 DEF LockerInv, RepliesAreAwaited, RepliesAreFresh, OnlyCall
<1>7. LockedIsCleared'
  BY <1>1, <1>2 DEF LockerInv, LockedIsCleared, OnlyCall
<1>8. FinishedHasAccounts' /\ OneSeed' /\ KeysAreTheAccounts'
  BY <1>1 DEF LockerInv, FinishedHasAccounts, OneSeed, KeysAreTheAccounts
<1>9. QED
  BY <1>3, <1>4, <1>6, <1>7, <1>8 DEF LockerInv

LEMMA RestartKeepsInv ==
  ASSUME LockerInv, Restart
  PROVE  LockerInv'
<1>1. /\ overlapped' = overlapped
      /\ calls' = [w \in Windows |-> Idle] /\ replies' = <<>>
      /\ disk' = disk /\ ~unlocked' /\ unlocked' \in BOOLEAN /\ secrets' = Cleared
  BY DEF Restart
<1>2. interrupted' \subseteq Ops /\ restarts' \in 0..MaxRestarts
  BY ConstantsAssumption DEF Restart, LockerInv, LockerTypeOK, Call
<1>3. replies' \in Seq([to: Windows \cup {Background}, disk: Disk]) /\ Len(replies') = 0
  BY <1>1
<1>4. LockerTypeOK'
  BY <1>1, <1>2, <1>3, IdleType DEF LockerInv, LockerTypeOK
<1>5. PcFollowsOp' /\ OneOnboardingCall' /\ OnboardingIsOpen' /\ CallsKnow'
  BY <1>1 DEF PcFollowsOp, OneOnboardingCall, OnboardingIsOpen, CallsKnow, Idle, NewCall,
              Onboarding, SetupPcs, GenPcs, SavePcs
<1>6. RepliesAreAwaited' /\ RepliesAreFresh'
  BY <1>3 DEF RepliesAreAwaited, RepliesAreFresh
<1>7. /\ FinishedHasAccounts' /\ LockedIsCleared' /\ OneSeed'
      /\ KeysAreTheAccounts'
  BY <1>1 DEF LockerInv, FinishedHasAccounts, LockedIsCleared, OneSeed,
              KeysAreTheAccounts, Cleared
<1>8. QED
  BY <1>4, <1>5, <1>6, <1>7 DEF LockerInv

-----------------------------------------------------------------------------
(* The theorems *)

LEMMA InitHasInv == LockerInit => LockerInv
<1> SUFFICES ASSUME LockerInit
             PROVE  LockerInv
  OBVIOUS
<1>1. LockerTypeOK
  <2>1. disk \in Disk
    BY DEF LockerInit, Disk, Cleared, Password, Mnemonic
  <2>2. calls \in [Windows -> Call] /\ secrets \in [password: Password, mnemonic: Mnemonic]
    BY IdleType DEF LockerInit
  <2>3. /\ replies = <<>> /\ unlocked = FALSE /\ interrupted = {} /\ restarts = 0
        /\ overlapped = FALSE
    BY DEF LockerInit
  <2>4. replies \in Seq([to: Windows \cup {Background}, disk: Disk])
    BY <2>3
  <2>5. restarts \in 0..MaxRestarts
    BY <2>3, ConstantsAssumption
  <2>6. unlocked \in BOOLEAN /\ overlapped \in BOOLEAN /\ interrupted \subseteq Ops
    BY <2>3
  <2>7. QED
    BY <2>1, <2>2, <2>4, <2>5, <2>6 DEF LockerTypeOK
<1>2. PcFollowsOp /\ OneOnboardingCall /\ OnboardingIsOpen /\ CallsKnow
  BY DEF LockerInit, PcFollowsOp, OneOnboardingCall, OnboardingIsOpen, CallsKnow, Idle,
         NewCall, Onboarding, SetupPcs, GenPcs, SavePcs
<1>3. RepliesAreAwaited /\ RepliesAreFresh
  BY DEF LockerInit, RepliesAreAwaited, RepliesAreFresh
<1>4. /\ FinishedHasAccounts /\ LockedIsCleared /\ OneSeed
      /\ KeysAreTheAccounts
  BY DEF LockerInit, FinishedHasAccounts, LockedIsCleared, OneSeed,
         KeysAreTheAccounts
<1>5. QED
  BY <1>1, <1>2, <1>3, <1>4 DEF LockerInv

LEMMA NextKeepsInv == LockerInv /\ ~overlapped' /\ [LockerNext]_lockerVars => LockerInv'
<1> SUFFICES ASSUME LockerInv, ~overlapped', [LockerNext]_lockerVars
             PROVE  LockerInv'
  OBVIOUS
<1>1. CASE LockerNext
  BY <1>1, CallsKeepInv, StepsKeepInv, AnswerKeepsInv, MnemonicLoadedKeepsInv,
     RestartKeepsInv DEF LockerNext
<1>2. CASE UNCHANGED lockerVars
  BY <1>2 DEF lockerVars, LockerInv, LockerTypeOK, PcFollowsOp, OneOnboardingCall,
              OnboardingIsOpen, RepliesAreAwaited, RepliesAreFresh, CallsKnow,
              FinishedHasAccounts, LockedIsCleared, OneSeed, KeysAreTheAccounts
<1>3. QED
  BY <1>1, <1>2

\* What a resumed handler has read is what was stored once.
LEMMA GotType ==
  ASSUME LockerTypeOK, replies # <<>>
  PROVE  Got \in Disk
<1>1. Head(replies) \in Replies
  BY TailFacts DEF LockerTypeOK, Replies
<1>2. QED
  BY <1>1 DEF Got, Replies

\* A request adds a well-formed reply to the queue, whatever overlaps.
LEMMA QueueTypes ==
  ASSUME LockerTypeOK, replies # <<>>, disk' \in Disk, NEW to \in Windows \cup {Background}
  PROVE  Tail(replies) \in Seq(Replies) /\ Append(Tail(replies), Reply(to)) \in Seq(Replies)
<1>1. Reply(to) \in Replies /\ replies \in Seq(Replies)
  BY DEF Reply, Replies, LockerTypeOK
<1>2. QED
  BY <1>1, AwaitFacts, TailFacts

LEMMA CallsKeepTypes ==
  ASSUME LockerTypeOK, NEW w \in Windows, LockerCall(w)
  PROVE  LockerTypeOK'
<1>1. PICK call \in Call : Begin(w, call)
  <2>1. /\ NewCall("lock", "notify", None, None) \in Call
        /\ NewCall("saveMnemonic", "save-seed", None, None) \in Call
        /\ \A p \in Passwords : /\ NewCall("unlock", "status", p, None) \in Call
                                /\ NewCall("setupPassword", "setup-check", p, None) \in Call
        /\ \A p \in Passwords, m \in Mnemonics :
             NewCall("resetPassword", "reset-check", p, m) \in Call
        /\ \A m \in Mnemonic : NewCall("generateMnemonic", "gen-accounts", None, m) \in Call
    BY NewCallType DEF Ops, Onboarding, Pcs, Password, Mnemonic
  <2>2. QED
    BY <2>1 DEF LockerCall, LockCall, SaveMnemonicCall, UnlockCall, SetupPasswordCall,
                ResetPasswordCall, GenerateMnemonicCall, BeginOnboarding
<1>2. /\ disk' = disk /\ interrupted' = interrupted /\ restarts' = restarts
      /\ unlocked' = unlocked \/ unlocked' = FALSE
      /\ secrets' = secrets \/ secrets' = Cleared
      /\ overlapped' = overlapped \/ overlapped' = (overlapped \/ ~NoOnboardingCall)
  BY DEF LockerCall, LockCall, SaveMnemonicCall, UnlockCall, SetupPasswordCall,
         ResetPasswordCall, GenerateMnemonicCall, BeginOnboarding, LeaveHistory
<1>3. /\ disk' \in Disk /\ unlocked' \in BOOLEAN /\ overlapped' \in BOOLEAN
      /\ secrets' \in [password: Password, mnemonic: Mnemonic]
      /\ interrupted' \subseteq Ops /\ restarts' \in 0..MaxRestarts
  BY <1>2, IdleType DEF LockerTypeOK
<1>4. QED
  BY <1>1, <1>3, BeginType DEF LockerTypeOK, Replies

\* A step of a handler whose own call and reply are well formed afterwards.
LEMMA StepKeepsTypes ==
  ASSUME LockerTypeOK, NEW w \in Windows, replies # <<>>, NEW call \in Call,
         calls' = [calls EXCEPT ![w] = call], LeaveHistory, unlocked' \in BOOLEAN,
         disk' \in Disk, secrets' \in [password: Password, mnemonic: Mnemonic],
         \/ replies' = Tail(replies)
         \/ \E to \in Windows \cup {Background} : replies' = Append(Tail(replies), Reply(to))
  PROVE  LockerTypeOK'
<1>1. replies' \in Seq(Replies)
  BY QueueTypes
<1>2. QED
  BY <1>1 DEF LockerTypeOK, LeaveHistory, Replies

LEMMA ReturnKeepsTypes ==
  ASSUME LockerTypeOK, NEW w \in Windows, replies # <<>>, Return(w), LeaveHistory,
         unlocked' \in BOOLEAN, disk' \in Disk,
         secrets' \in [password: Password, mnemonic: Mnemonic]
  PROVE  LockerTypeOK'
  BY StepKeepsTypes, IdleType DEF Return

LEMMA AwaitKeepsTypes ==
  ASSUME LockerTypeOK, NEW w \in Windows, replies # <<>>, NEW pc \in Pcs, Await(w, pc),
         LeaveHistory, unlocked' \in BOOLEAN, disk' \in Disk,
         secrets' \in [password: Password, mnemonic: Mnemonic]
  PROVE  LockerTypeOK'
<1>1. PICK call \in Call : call = [calls[w] EXCEPT !.pc = pc]
  BY DEF LockerTypeOK, Call
<1>2. calls' = [calls EXCEPT ![w] = call] /\ replies' = Append(Tail(replies), Reply(w))
  BY <1>1 DEF Await, LockerTypeOK
<1>3. QED
  BY <1>2, StepKeepsTypes

LEMMA StepsKeepTypes ==
  ASSUME LockerTypeOK, NEW w \in Windows, LockerStep(w)
  PROVE  LockerTypeOK'
<1> USE DEF Pcs
<1>1. /\ replies # <<>> /\ LeaveHistory
  BY DEF LockerStep, UnlockStatus, UnlockSucceeds, UnlockFails, LockNotified,
         SetupPasswordRefused, SetupPasswordWrite, SetupPasswordStep, SetupPasswordUnlock,
         ResetPasswordRefused, ResetPasswordSeed, ResetPasswordChecker,
         GenerateMnemonicRefused, GenerateMnemonicLookup, GenerateMnemonicAgain,
         GenerateMnemonicDone, GenerateMnemonicWrite, SaveMnemonicRefused, SaveMnemonicRead,
         SaveMnemonicAccounts, SaveMnemonicSelect, SaveMnemonicStep, SaveMnemonicDone,
         Resumed, Turn
<1>2. /\ Got \in Disk /\ calls[w] \in Call /\ disk \in Disk /\ unlocked \in BOOLEAN
      /\ secrets \in [password: Password, mnemonic: Mnemonic]
      /\ calls \in [Windows -> Call]
  BY <1>1, GotType DEF LockerTypeOK
<1>3. CASE UnlockStatus(w)
  <2>1. PICK call \in Call :
          call = [calls[w] EXCEPT !.pc = "auth", !.generated = Got.step = "mnemonic"]
    BY <1>2 DEF Call
  <2>2. /\ calls' = [calls EXCEPT ![w] = call] /\ unlocked' = unlocked /\ disk' = disk
        /\ replies' = Append(Tail(replies), Reply(w))
    BY <1>2, <1>3, <2>1 DEF UnlockStatus, Call
  <2>3. secrets' \in [password: Password, mnemonic: Mnemonic]
    BY <1>2, <1>3 DEF UnlockStatus, Call
  <2>4. QED
    BY <1>1, <1>2, <2>2, <2>3, StepKeepsTypes
<1>4. CASE UnlockSucceeds(w) \/ LockNotified(w)
  <2>1. PICK pc \in {"unlocked", "locked"} : calls' = [calls EXCEPT ![w].pc = pc]
    BY <1>4 DEF UnlockSucceeds, LockNotified
  <2>2. PICK call \in Call : call = [calls[w] EXCEPT !.pc = pc]
    BY <1>2 DEF Call
  <2>3. /\ calls' = [calls EXCEPT ![w] = call] /\ disk' = disk /\ secrets' = secrets
        /\ unlocked' \in BOOLEAN
        /\ \/ replies' = Tail(replies)
           \/ replies' = Append(Tail(replies), Reply(Background))
    BY <1>2, <1>4, <2>1, <2>2 DEF UnlockSucceeds, LockNotified
  <2>4. QED
    BY <1>1, <1>2, <2>3, StepKeepsTypes
<1>5. CASE \/ UnlockFails(w) \/ SetupPasswordRefused(w) \/ ResetPasswordRefused(w)
           \/ GenerateMnemonicRefused(w) \/ GenerateMnemonicAgain(w) \/ GenerateMnemonicDone(w)
           \/ SaveMnemonicRefused(w) \/ SaveMnemonicDone(w)
  <2>1. /\ Return(w) /\ disk' = disk /\ unlocked' = unlocked
        /\ secrets' = secrets \/ secrets' = Cleared
    BY <1>5 DEF UnlockFails, SetupPasswordRefused, ResetPasswordRefused,
                GenerateMnemonicRefused, GenerateMnemonicAgain, GenerateMnemonicDone,
                SaveMnemonicRefused, SaveMnemonicDone
  <2>2. QED
    BY <1>1, <1>2, <2>1, IdleType, ReturnKeepsTypes
<1>6. CASE SetupPasswordUnlock(w) \/ GenerateMnemonicLookup(w) \/ SaveMnemonicSelect(w)
  <2>1. /\ \E pc \in Pcs : Await(w, pc)
        /\ disk' = disk /\ unlocked' = unlocked /\ secrets' = secrets
    BY <1>6 DEF SetupPasswordUnlock, GenerateMnemonicLookup, SaveMnemonicSelect
  <2>2. QED
    BY <1>1, <1>2, <2>1, AwaitKeepsTypes
<1>7. CASE SetupPasswordWrite(w) \/ SetupPasswordStep(w) \/ ResetPasswordSeed(w)
  <2>1. /\ \E pc \in Pcs : Await(w, pc)
        /\ unlocked' = unlocked /\ secrets' = secrets
    BY <1>7 DEF SetupPasswordWrite, SetupPasswordStep, ResetPasswordSeed
  <2>2. disk' \in Disk
    BY <1>2, <1>7 DEF SetupPasswordWrite, SetupPasswordStep, ResetPasswordSeed, Disk, Call
  <2>3. QED
    BY <1>1, <1>2, <2>1, <2>2, AwaitKeepsTypes
<1>8. CASE ResetPasswordChecker(w)
  <2>1. /\ Await(w, "status") /\ unlocked' = unlocked
        /\ disk' \in Disk /\ secrets' \in [password: Password, mnemonic: Mnemonic]
    BY <1>2, <1>8 DEF ResetPasswordChecker, Disk, Call
  <2>2. QED
    BY <1>1, <1>2, <2>1, AwaitKeepsTypes
<1>9. ASSUME NEW m \in Mnemonics, GenerateMnemonicWrite(w, m)
      PROVE  LockerTypeOK'
  <2>1. /\ unlocked' = unlocked /\ secrets' = [secrets EXCEPT !.mnemonic = m]
        /\ \/ disk' = disk /\ Return(w)
           \/ /\ Await(w, "gen-write")
              /\ disk' = [disk EXCEPT !.seed = [mnemonic |-> m, password |-> secrets.password]]
    BY <1>9 DEF GenerateMnemonicWrite
  <2>2. secrets' \in [password: Password, mnemonic: Mnemonic] /\ disk' \in Disk
    BY <1>2, <2>1 DEF Disk, Mnemonic
  <2>3. QED
    BY <1>1, <1>2, <2>1, <2>2, ReturnKeepsTypes, AwaitKeepsTypes
<1>10. CASE SaveMnemonicRead(w)
  <2>1. PICK call \in Call :
          call = [calls[w] EXCEPT !.pc = "save-accounts", !.mnemonic = Got.seed.mnemonic]
    BY <1>2 DEF Call, Disk
  <2>2. /\ calls' = [calls EXCEPT ![w] = call] /\ unlocked' = unlocked /\ disk' = disk
        /\ secrets' = secrets /\ replies' = Append(Tail(replies), Reply(w))
    BY <1>2, <1>10, <2>1 DEF SaveMnemonicRead
  <2>3. QED
    BY <1>1, <1>2, <2>2, StepKeepsTypes
<1>11. CASE SaveMnemonicAccounts(w)
  <2>1. /\ unlocked' = unlocked /\ secrets' = [secrets EXCEPT !.mnemonic = calls[w].mnemonic]
        /\ \/ disk' = disk /\ Return(w)
           \/ Await(w, "save-write") /\ disk' = [disk EXCEPT !.accounts = calls[w].mnemonic]
    BY <1>11 DEF SaveMnemonicAccounts
  <2>2. secrets' \in [password: Password, mnemonic: Mnemonic] /\ disk' \in Disk
    BY <1>2, <2>1 DEF Disk, Call
  <2>3. QED
    BY <1>1, <1>2, <2>1, <2>2, ReturnKeepsTypes, AwaitKeepsTypes
<1>12. CASE SaveMnemonicStep(w)
  <2>1. /\ unlocked' = unlocked /\ secrets' = secrets
        /\ \/ disk' = disk /\ Return(w)
           \/ Await(w, "save-step") /\ disk' = [disk EXCEPT !.step = "mnemonic"]
    BY <1>12 DEF SaveMnemonicStep
  <2>2. disk' \in Disk
    BY <1>2, <2>1 DEF Disk
  <2>3. QED
    BY <1>1, <1>2, <2>1, <2>2, ReturnKeepsTypes, AwaitKeepsTypes
<1>13. QED
  BY <1>3, <1>4, <1>5, <1>6, <1>7, <1>8, <1>9, <1>10, <1>11, <1>12 DEF LockerStep

LEMMA MnemonicKeepsTypes ==
  ASSUME LockerTypeOK, MnemonicLoaded
  PROVE  LockerTypeOK'
<1>1. /\ replies # <<>> /\ replies' = Tail(replies) /\ LeaveHistory
      /\ disk' = disk /\ unlocked' = unlocked /\ calls' = calls
  BY DEF MnemonicLoaded, Turn
<1>2. Got \in Disk /\ replies' \in Seq(Replies)
  BY <1>1, GotType, TailFacts DEF LockerTypeOK, Replies
<1>3. secrets' \in [password: Password, mnemonic: Mnemonic]
  BY <1>2 DEF MnemonicLoaded, LockerTypeOK, Disk
<1>4. QED
  BY <1>1, <1>2, <1>3 DEF LockerTypeOK, LeaveHistory, Replies

LEMMA AnswerKeepsTypes ==
  ASSUME LockerTypeOK, NEW w \in Windows, Answer(w)
  PROVE  LockerTypeOK'
<1>1. calls' \in [Windows -> Call] /\ interrupted' \subseteq Ops
  BY IdleType DEF Answer, LockerTypeOK
<1>2. QED
  BY <1>1 DEF Answer, LockerTypeOK

LEMMA RestartKeepsTypes ==
  ASSUME LockerTypeOK, Restart
  PROVE  LockerTypeOK'
<1>1. /\ calls' = [w \in Windows |-> Idle] /\ replies' = <<>> /\ overlapped' = overlapped
      /\ disk' = disk /\ unlocked' \in BOOLEAN /\ secrets' = Cleared
  BY DEF Restart
<1>2. interrupted' \subseteq Ops /\ restarts' \in 0..MaxRestarts
  BY ConstantsAssumption DEF Restart, LockerTypeOK, Call
<1>3. replies' \in Seq(Replies)
  BY <1>1
<1>4. QED
  BY <1>1, <1>2, <1>3, IdleType DEF LockerTypeOK, Replies

LEMMA NextKeepsTypes == LockerTypeOK /\ [LockerNext]_lockerVars => LockerTypeOK'
<1> SUFFICES ASSUME LockerTypeOK, [LockerNext]_lockerVars
             PROVE  LockerTypeOK'
  OBVIOUS
<1>1. CASE LockerNext
  BY <1>1, CallsKeepTypes, StepsKeepTypes, AnswerKeepsTypes, MnemonicKeepsTypes,
     RestartKeepsTypes DEF LockerNext
<1>2. CASE UNCHANGED lockerVars
  BY <1>2 DEF lockerVars, LockerTypeOK
<1>3. QED
  BY <1>1, <1>2

\* Calls that have overlapped stay in history.
LEMMA OverlapsStay == overlapped /\ [LockerNext]_lockerVars => overlapped'
  BY DEF LockerNext, LockerCall, LockCall, SaveMnemonicCall, UnlockCall, SetupPasswordCall,
         ResetPasswordCall, GenerateMnemonicCall, BeginOnboarding, LeaveHistory, LockerStep,
         UnlockStatus, UnlockSucceeds, UnlockFails, LockNotified,
         SetupPasswordRefused, SetupPasswordWrite, SetupPasswordStep, SetupPasswordUnlock,
         ResetPasswordRefused, ResetPasswordSeed, ResetPasswordChecker,
         GenerateMnemonicRefused, GenerateMnemonicLookup, GenerateMnemonicAgain,
         GenerateMnemonicDone, GenerateMnemonicWrite, SaveMnemonicRefused, SaveMnemonicRead,
         SaveMnemonicAccounts, SaveMnemonicSelect, SaveMnemonicStep, SaveMnemonicDone,
         Answer, MnemonicLoaded, Restart, lockerVars

\* The state of the lock, of the calls in progress and of the replies is well formed,
\* whatever overlaps.
THEOREM TypesHold == LockerSpec => []LockerTypeOK
<1>1. LockerInit => LockerTypeOK
  BY InitHasInv DEF LockerInv
<1>2. QED
  BY <1>1, NextKeepsTypes, PTL DEF LockerSpec

\* Until two calls of the onboarding overlap, and in whatever order the other handlers
\* resume and wherever the service worker is stopped, what a handler has read of the
\* accounts and the mnemonic before an await is still so after it, or is refused there.
THEOREM InvariantHolds == LockerSpec => [](overlapped \/ LockerInv)
<1>1. (overlapped \/ LockerInv) /\ [LockerNext]_lockerVars => (overlapped \/ LockerInv)'
  BY NextKeepsInv, OverlapsStay
<1>2. QED
  BY <1>1, InitHasInv, PTL DEF LockerSpec

\* A locked wallet keeps no secret in memory, unless a password is being checked or calls
\* of the onboarding have overlapped: the mnemonic that unlock loads without waiting for
\* it never outlives a lock.
THEOREM KeysStayInAnOpenWallet == LockerSpec => []KeysOnlyWhileOpen
<1>1. overlapped \/ LockerInv => KeysOnlyWhileOpen
  BY DEF LockerInv, KeysOnlyWhileOpen
<1>2. QED
  BY <1>1, InvariantHolds, PTL

\* The accounts belong to the stored mnemonic after every reset of the password, unlock
\* and restart, unless calls of the onboarding have overlapped.
THEOREM SeedStaysTheAccounts == LockerSpec => []SeedMatchesAccounts
<1>1. overlapped \/ LockerInv => SeedMatchesAccounts
  BY DEF LockerInv, SeedMatchesAccounts
<1>2. QED
  BY <1>1, InvariantHolds, PTL

\* Once there are accounts, no handler puts another mnemonic than theirs in memory,
\* unless calls of the onboarding have overlapped.
THEOREM KeysStayTheWallets == LockerSpec => []KeysAreTheWallets
<1>1. overlapped \/ LockerInv => KeysAreTheWallets
  BY DEF LockerInv, KeysAreTheWallets
<1>2. QED
  BY <1>1, InvariantHolds, PTL
=============================================================================
