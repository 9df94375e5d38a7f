------------------------- MODULE LockerOrderProofs -------------------------
(***************************************************************************)
(* Proofs about Locker that rest on the order of the replies.  Handlers    *)
(* take their turns in the order in which they last asked the storage, so  *)
(* one that has two more awaits to go cannot overtake one that has one.    *)
(* This is what keeps the pairs of stored items together that the code     *)
(* writes one after the other.  With one window there is also no handler   *)
(* that could take the secrets from an open wallet (KeysInv).              *)
(***************************************************************************)
EXTENDS LockerProofs

\* The call that waits for the reply at place i of the queue.
Waiter(i) == IF replies[i].to \in Windows THEN calls[replies[i].to] ELSE Idle
Places == 1..Len(replies)

\* A password is typed into every form that asks for one.
PasswordsAreTyped ==
  \A w \in Windows : calls[w].op \in {"setupPassword", "resetPassword"} => calls[w].password # None

\* Before there is a password nothing can be asked but to set one up, and a set-up
\* that goes on finds no accounts.
NewIsEmpty ==
  /\ disk.checker = None =>
       /\ disk.seed = Cleared /\ disk.accounts = None /\ disk.step = "new" /\ ~unlocked
       /\ \A w \in Windows : calls[w] = Idle \/ calls[w].pc = "setup-check"
  /\ \A w \in Windows : calls[w].pc = "setup-write" => disk.accounts = None

PastCheck == {"reset-seed", "status", "auth", "unlocked"}

\* A reset goes on when there are accounts to compare the mnemonic with.
ResetsHaveAccounts ==
  \A w \in Windows :
    /\ calls[w].pc \in {"reset-check", "reset-seed"} => calls[w].op = "resetPassword"
    /\ calls[w].op = "resetPassword" =>
         \/ calls[w].pc = "reset-check"
         \/ calls[w].pc \in PastCheck /\ disk.accounts # None

\* Before there are accounts the password is set up once, so it is still what a
\* password check has read; the password in memory is that of the last one that waits.
LastAuthIsKept ==
  disk.accounts = None =>
    /\ \A i \in Places : Waiter(i).pc = "auth" => replies[i].disk.checker = disk.checker
    /\ secrets.password # None =>
         \/ \E i \in Places :
              /\ Waiter(i).pc = "auth" /\ Waiter(i).password = secrets.password
              /\ \A j \in i+1..Len(replies) : Waiter(j).pc # "auth"
         \/ /\ \A i \in Places : Waiter(i).pc # "auth"
            /\ secrets.password = disk.checker

\* The onboarding page shows when the wallet is open; what an older unlock still has to
\* check comes before what is asked there.
ChecksComeFirst ==
  disk.accounts = None => \A i, j \in Places :
    /\ Waiter(i).pc \in {"gen-accounts", "save-seed"} /\ Waiter(j).pc = "status" => j < i
    /\ Waiter(i).pc \in {"gen-seed", "save-accounts"} =>
         /\ Waiter(j).pc # "status"
         /\ Waiter(j).pc = "auth" => j < i

\* A set-up goes on, or is refused, on what is still true.
PasswordIsUp(d) == d.checker # None

SetupsKnow ==
  \A i \in Places : Waiter(i).pc = "setup-check" =>
    (PasswordIsUp(replies[i].disk) <=> PasswordIsUp(disk))

\* Accounts are recorded before a reset that has seen them can check a password.
SavesComeFirst ==
  \A i, j \in Places :
    /\ Waiter(i).pc = "save-write" =>
         /\ Waiter(j).pc \notin {"status", "auth", "reset-seed"}
         /\ Waiter(j).pc = "reset-check" /\ replies[j].disk.accounts # None => i < j
    /\ Waiter(i).pc = "save-select" =>
         /\ Waiter(j).pc \notin {"status", "auth"}
         /\ Waiter(j).pc = "reset-seed" => i < j

Saving(i) == Waiter(i).pc \in {"save-write", "save-select"}

SavedIsInMemory == \A i \in Places : Saving(i) => secrets.mnemonic = disk.accounts

StepIsComing ==
  disk.accounts # None /\ disk.step # "mnemonic" =>
    "saveMnemonic" \in interrupted \/ \E i \in Places : Saving(i)

\* Of the resets between their two writes the last one wrote the mnemonic last.
LastSeedIsTyped ==
  \A i \in Places :
    Waiter(i).pc = "reset-seed" /\ (\A j \in i+1..Len(replies) : Waiter(j).pc # "reset-seed")
      => disk.seed.password = Waiter(i).password

CheckerIsComing ==
  \/ disk.seed = Cleared
  \/ disk.seed.password = disk.checker
  \/ \E i \in Places : Waiter(i).pc = "reset-seed"
  \/ /\ "resetPassword" \in interrupted
     /\ \A w \in Windows : calls[w].op = "resetPassword" => calls[w].pc \notin PastCheck

OrderInv ==
  /\ PasswordsAreTyped /\ NewIsEmpty /\ ResetsHaveAccounts
  /\ LastAuthIsKept /\ ChecksComeFirst /\ SetupsKnow
  /\ SavesComeFirst /\ SavedIsInMemory /\ StepIsComing
  /\ LastSeedIsTyped /\ CheckerIsComing

-----------------------------------------------------------------------------
(* The queue moves on: the first reply is taken, and one for x may be added. *)

Shifted(x) ==
  /\ Len(replies) \in Nat \ {0}
  /\ Len(replies') \in {Len(replies) - 1, Len(replies)}
  /\ \A i \in 1..Len(replies) - 1 : Waiter(i)' = Waiter(i + 1) /\ replies'[i] = replies[i + 1]
  /\ Len(replies') = Len(replies) =>
       Waiter(Len(replies))' = x /\ replies'[Len(replies)].disk = disk'
  /\ Len(replies') = Len(replies) - 1 => x = Idle

LEMMA ShiftedPlace ==
  ASSUME NEW x, Shifted(x), NEW i \in Places'
  PROVE  \/ /\ i + 1 \in Places /\ i + 1 > 1
            /\ Waiter(i)' = Waiter(i + 1) /\ replies'[i] = replies[i + 1]
         \/ /\ i = Len(replies) /\ Len(replies') = Len(replies)
            /\ Waiter(i)' = x /\ replies'[i].disk = disk'
  BY DEF Shifted, Places

LEMMA ShiftChecks ==
  ASSUME ChecksComeFirst, NEW x, Shifted(x),
         disk'.accounts = None => disk.accounts = None,
         x.pc \notin {"gen-accounts", "save-seed"},
         x.pc \in {"gen-seed", "save-accounts"} => Waiter(1).pc \in {"gen-accounts", "save-seed"},
         x.pc = "auth" => Waiter(1).pc = "status",
         x.pc = "status" => \/ disk.accounts # None
                            \/ \A i \in Places : Waiter(i).pc \notin
                                 {"gen-accounts", "save-seed", "gen-seed", "save-accounts"}
  PROVE  ChecksComeFirst'
<1> SUFFICES ASSUME disk.accounts = None, NEW i \in Places', NEW j \in Places'
             PROVE  /\ Waiter(i)'.pc \in {"gen-accounts", "save-seed"} /\ Waiter(j)'.pc = "status"
                         => j < i
                    /\ Waiter(i)'.pc \in {"gen-seed", "save-accounts"} =>
                         /\ Waiter(j)'.pc # "status"
                         /\ Waiter(j)'.pc = "auth" => j < i
  BY DEF ChecksComeFirst
<1>1. 1 \in Places /\ Len(replies) \in Nat /\ Places = 1..Len(replies) /\ Places' = 1..Len(replies')
  BY DEF Shifted, Places
<1>2. CASE i + 1 \in Places /\ Waiter(i)' = Waiter(i + 1)
  <2>1. CASE j + 1 \in Places /\ Waiter(j)' = Waiter(j + 1)
    BY <1>1, <1>2, <2>1 DEF ChecksComeFirst
  <2>2. CASE j = Len(replies) /\ Waiter(j)' = x
    BY <1>1, <1>2, <2>2 DEF ChecksComeFirst
  <2>3. QED
    BY <2>1, <2>2, ShiftedPlace
<1>3. CASE i = Len(replies) /\ Waiter(i)' = x
  <2>1. CASE j + 1 \in Places /\ Waiter(j)' = Waiter(j + 1)
    BY <1>1, <1>3, <2>1 DEF ChecksComeFirst
  <2>2. CASE j = Len(replies) /\ Waiter(j)' = x
    BY <1>1, <1>3, <2>2
  <2>3. QED
    BY <2>1, <2>2, ShiftedPlace
<1>4. QED
  BY <1>2, <1>3, ShiftedPlace

LEMMA ShiftSetups ==
  ASSUME SetupsKnow, NEW x, Shifted(x), x.pc # "setup-check",
         PasswordIsUp(disk)' <=> PasswordIsUp(disk)
  PROVE  SetupsKnow'
<1> SUFFICES ASSUME NEW i \in Places', Waiter(i)'.pc = "setup-check"
             PROVE  PasswordIsUp(replies'[i].disk) <=> PasswordIsUp(disk)
  BY DEF SetupsKnow, PasswordIsUp
<1>1. i + 1 \in Places /\ Waiter(i)' = Waiter(i + 1) /\ replies'[i] = replies[i + 1]
  BY ShiftedPlace
<1>2. QED
  BY <1>1 DEF SetupsKnow

LEMMA ShiftSaves ==
  ASSUME SavesComeFirst, NEW x, Shifted(x), x.pc # "reset-check",
         x.pc = "save-write" => \A j \in Places :
            /\ Waiter(j).pc \notin {"status", "auth", "reset-seed"}
            /\ Waiter(j).pc = "reset-check" => replies[j].disk.accounts = None,
         x.pc = "save-select" => Waiter(1).pc = "save-write",
         x.pc = "status" => Waiter(1).pc = "reset-seed" \/ \A i \in Places : ~Saving(i),
         x.pc = "auth" => Waiter(1).pc = "status",
         x.pc = "reset-seed" => Waiter(1).pc = "reset-check" /\ replies[1].disk.accounts # None
  PROVE  SavesComeFirst'
<1> SUFFICES ASSUME NEW i \in Places', NEW j \in Places'
             PROVE  /\ Waiter(i)'.pc = "save-write" =>
                         /\ Waiter(j)'.pc \notin {"status", "auth", "reset-seed"}
                         /\ Waiter(j)'.pc = "reset-check" /\ replies'[j].disk.accounts # None => i < j
                    /\ Waiter(i)'.pc = "save-select" =>
                         /\ Waiter(j)'.pc \notin {"status", "auth"}
                         /\ Waiter(j)'.pc = "reset-seed" => i < j
  BY DEF SavesComeFirst
<1>1. 1 \in Places /\ Len(replies) \in Nat /\ Places = 1..Len(replies) /\ Places' = 1..Len(replies')
  BY DEF Shifted, Places
<1>2. CASE i + 1 \in Places /\ Waiter(i)' = Waiter(i + 1)
  <2>1. CASE /\ j + 1 \in Places /\ Waiter(j)' = Waiter(j + 1) /\ replies'[j] = replies[j + 1]
    BY <1>1, <1>2, <2>1 DEF SavesComeFirst
  <2>2. CASE j = Len(replies) /\ Waiter(j)' = x
    <3>1. i < j
      BY <1>1, <1>2, <2>2
    <3>2. x.pc = "status" => Waiter(i + 1).pc \notin {"save-write", "save-select"}
      BY <1>1, <1>2 DEF SavesComeFirst, Saving
    <3>3. x.pc = "auth" => Waiter(i + 1).pc \notin {"save-write", "save-select"}
      BY <1>1, <1>2 DEF SavesComeFirst, Saving
    <3>4. x.pc = "reset-seed" => Waiter(i + 1).pc # "save-write"
      BY <1>1, <1>2 DEF SavesComeFirst
    <3>5. QED
      BY <1>2, <2>2, <3>1, <3>2, <3>3, <3>4
  <2>3. QED
    BY <2>1, <2>2, ShiftedPlace
<1>3. CASE i = Len(replies) /\ Waiter(i)' = x
  <2>1. CASE /\ j + 1 \in Places /\ Waiter(j)' = Waiter(j + 1) /\ replies'[j] = replies[j + 1]
    BY <1>1, <1>3, <2>1 DEF SavesComeFirst
  <2>2. CASE j = Len(replies) /\ Waiter(j)' = x
    BY <1>1, <1>3, <2>2
  <2>3. QED
    BY <2>1, <2>2, ShiftedPlace
<1>4. QED
  BY <1>2, <1>3, ShiftedPlace

LEMMA ShiftAuth ==
  ASSUME LastAuthIsKept, NEW x, Shifted(x),
         disk'.accounts = None => disk.accounts = None /\ disk'.checker = disk.checker,
         x.pc = "auth" => secrets'.password = x.password,
         x.pc # "auth" => secrets'.password \in {secrets.password, None},
         Waiter(1).pc = "auth" => \/ secrets'.password = None
                                  \/ Waiter(1).password = replies[1].disk.checker
  PROVE  LastAuthIsKept'
<1> SUFFICES ASSUME disk'.accounts = None
             PROVE  /\ \A i \in Places' : Waiter(i)'.pc = "auth" => replies'[i].disk.checker = disk'.checker
                    /\ secrets'.password # None =>
                         \/ \E i \in Places' :
                              /\ Waiter(i)'.pc = "auth" /\ Waiter(i)'.password = secrets'.password
                              /\ \A j \in i+1..Len(replies') : Waiter(j)'.pc # "auth"
                         \/ /\ \A i \in Places' : Waiter(i)'.pc # "auth"
                            /\ secrets'.password = disk'.checker
  BY DEF LastAuthIsKept
<1>1. /\ 1 \in Places /\ Len(replies) \in Nat \ {0}
      /\ Places = 1..Len(replies) /\ Places' = 1..Len(replies')
  BY DEF Shifted, Places
<1>2. \A i \in Places' : Waiter(i)'.pc = "auth" => replies'[i].disk.checker = disk'.checker
  BY ShiftedPlace DEF LastAuthIsKept
<1>3. CASE x.pc = "auth"
  <2>1. Len(replies') = Len(replies) /\ Waiter(Len(replies))' = x
    BY <1>1, <1>3 DEF Shifted, Idle, NewCall
  <2>2. Len(replies) \in Places' /\ Len(replies)+1..Len(replies') = {}
    BY <1>1, <2>1
  <2>3. QED
    BY <1>2, <1>3, <2>1, <2>2
<1>4. CASE x.pc # "auth" /\ secrets'.password # None
  <2>1. secrets'.password = secrets.password /\ disk'.checker = disk.checker
    BY <1>4
  <2>2. CASE \A i \in Places : Waiter(i).pc # "auth"
    BY <1>2, <1>4, <2>1, <2>2, ShiftedPlace DEF LastAuthIsKept
  <2>3. ASSUME NEW i \in Places, Waiter(i).pc = "auth", Waiter(i).password = secrets.password,
               \A j \in i+1..Len(replies) : Waiter(j).pc # "auth"
        PROVE  \/ \E k \in Places' :
                    /\ Waiter(k)'.pc = "auth" /\ Waiter(k)'.password = secrets'.password
                    /\ \A j \in k+1..Len(replies') : Waiter(j)'.pc # "auth"
               \/ /\ \A k \in Places' : Waiter(k)'.pc # "auth"
                  /\ secrets'.password = disk'.checker
    <3>1. CASE i = 1
      <4>1. secrets'.password = disk'.checker
        BY <1>1, <1>4, <2>1, <2>3, <3>1 DEF LastAuthIsKept
      <4>2. ASSUME NEW k \in Places', k + 1 \in Places
            PROVE  Waiter(k + 1).pc # "auth"
        BY <1>1, <2>3, <3>1, <4>2
      <4>3. \A k \in Places' : Waiter(k)'.pc # "auth"
        BY <1>4, <4>2, ShiftedPlace
      <4>4. QED
        BY <4>1, <4>3
    <3>2. CASE i # 1
      <4>1. i - 1 \in 1..Len(replies) - 1 /\ (i - 1) + 1 = i /\ i - 1 \in Places'
        BY <1>1, <3>2 DEF Shifted
      <4>2. Waiter(i - 1)' = Waiter(i)
        BY <4>1 DEF Shifted
      <4>3. ASSUME NEW j \in (i - 1)+1..Len(replies')
            PROVE  Waiter(j)'.pc # "auth"
        <5>1. j \in Places' /\ (j + 1 \in Places => j + 1 \in i+1..Len(replies))
          BY <1>1, <4>1, <4>3 DEF Shifted
        <5>2. QED
          BY <1>4, <2>3, <5>1, ShiftedPlace
      <4>4. QED
        BY <2>1, <2>3, <4>1, <4>2, <4>3
    <3>3. QED
      BY <3>1, <3>2
  <2>4. QED
    BY <1>2, <1>4, <2>1, <2>2, <2>3 DEF LastAuthIsKept
<1>5. QED
  BY <1>2, <1>3, <1>4

LEMMA ShiftSaved ==
  ASSUME SavedIsInMemory, NEW x, Shifted(x),
         x.pc \in {"save-write", "save-select"} => secrets'.mnemonic = disk'.accounts,
         \A i \in Places : i > 1 /\ Saving(i) =>
            secrets'.mnemonic = secrets.mnemonic /\ disk'.accounts = disk.accounts
  PROVE  SavedIsInMemory'
<1> SUFFICES ASSUME NEW i \in Places', Waiter(i)'.pc \in {"save-write", "save-select"}
             PROVE  secrets'.mnemonic = disk'.accounts
  BY DEF SavedIsInMemory, Saving
<1>1. QED
  BY ShiftedPlace DEF SavedIsInMemory, Saving

LEMMA ShiftStep ==
  ASSUME StepIsComing, NEW x, Shifted(x),
         "saveMnemonic" \in interrupted => "saveMnemonic" \in interrupted',
         disk'.accounts # None /\ disk'.step # "mnemonic" =>
            \/ x.pc \in {"save-write", "save-select"}
            \/ disk.accounts # None /\ disk.step # "mnemonic" /\ ~Saving(1)
  PROVE  StepIsComing'
<1> SUFFICES ASSUME disk'.accounts # None, disk'.step # "mnemonic",
                    "saveMnemonic" \notin interrupted
             PROVE  \E i \in Places' : Waiter(i)'.pc \in {"save-write", "save-select"}
  BY DEF StepIsComing, Saving
<1>1. Places = 1..Len(replies) /\ Places' = 1..Len(replies') /\ Len(replies) \in Nat \ {0}
  BY DEF Places, Shifted
<1>2. CASE x.pc \in {"save-write", "save-select"}
  <2>1. Len(replies') = Len(replies) /\ Waiter(Len(replies))' = x
    BY <1>1, <1>2 DEF Shifted, Idle, NewCall
  <2>2. QED
    BY <1>1, <1>2, <2>1
<1>3. CASE disk.accounts # None /\ disk.step # "mnemonic" /\ ~Saving(1)
  <2>1. PICK i \in Places : Saving(i)
    BY <1>3 DEF StepIsComing
  <2>2. i - 1 \in 1..Len(replies) - 1 /\ (i - 1) + 1 = i /\ i - 1 \in Places'
    BY <1>1, <1>3, <2>1 DEF Shifted
  <2>3. Waiter(i - 1)' = Waiter(i)
    BY <2>2 DEF Shifted
  <2>4. QED
    BY <2>1, <2>2, <2>3 DEF Saving
<1>4. QED
  BY <1>2, <1>3

LEMMA ShiftSeed ==
  ASSUME LastSeedIsTyped, NEW x, Shifted(x),
         x.pc = "reset-seed" => disk'.seed.password = x.password,
         x.pc # "reset-seed" => \/ disk'.seed.password = disk.seed.password
                                \/ \A i \in Places : Waiter(i).pc # "reset-seed"
  PROVE  LastSeedIsTyped'
<1> SUFFICES ASSUME NEW i \in Places', Waiter(i)'.pc = "reset-seed",
                    \A j \in i+1..Len(replies') : Waiter(j)'.pc # "reset-seed"
             PROVE  disk'.seed.password = Waiter(i)'.password
  BY DEF LastSeedIsTyped
<1>1. Places = 1..Len(replies) /\ Places' = 1..Len(replies') /\ Len(replies) \in Nat \ {0}
  BY DEF Places, Shifted
<1>2. CASE i = Len(replies) /\ Waiter(i)' = x
  BY <1>2
<1>3. CASE i + 1 \in Places /\ Waiter(i)' = Waiter(i + 1)
  <2>1. x.pc # "reset-seed"
    <3> SUFFICES ASSUME x.pc = "reset-seed" PROVE FALSE
      OBVIOUS
    <3>1. Len(replies') = Len(replies) /\ Waiter(Len(replies))' = x
      BY <1>1 DEF Shifted, Idle, NewCall
    <3>2. Len(replies) \in i+1..Len(replies')
      BY <1>1, <1>3, <3>1
    <3>3. QED
      BY <3>1, <3>2
  <2>2. disk'.seed.password = disk.seed.password
    BY <1>3, <2>1
  <2>3. ASSUME NEW j \in (i + 1)+1..Len(replies)
        PROVE  Waiter(j).pc # "reset-seed"
    <3>1. j - 1 \in 1..Len(replies) - 1 /\ (j - 1) + 1 = j /\ j - 1 \in i+1..Len(replies')
      BY <1>1, <1>3, <2>3 DEF Shifted
    <3>2. Waiter(j - 1)' = Waiter(j)
      BY <3>1 DEF Shifted
    <3>3. QED
      BY <3>1, <3>2
  <2>4. QED
    BY <1>3, <2>2, <2>3 DEF LastSeedIsTyped
<1>4. QED
  BY <1>2, <1>3, ShiftedPlace

LEMMA ShiftChecker ==
  ASSUME CheckerIsComing, NEW x, Shifted(x), disk'.seed = disk.seed, disk'.checker = disk.checker,
         Waiter(1).pc # "reset-seed",
         "resetPassword" \in interrupted => "resetPassword" \in interrupted',
         \A w \in Windows : calls'[w].op = "resetPassword" /\ calls'[w].pc \in PastCheck =>
                              calls[w].op = "resetPassword" /\ calls[w].pc \in PastCheck
  PROVE  CheckerIsComing'
<1>1. ASSUME NEW i \in Places, Waiter(i).pc = "reset-seed"
      PROVE  \E j \in Places' : Waiter(j)'.pc = "reset-seed"
  <2>1. i - 1 \in 1..Len(replies) - 1 /\ (i - 1) + 1 = i /\ i - 1 \in Places'
    BY <1>1 DEF Shifted, Places
  <2>2. Waiter(i - 1)' = Waiter(i)
    BY <2>1 DEF Shifted
  <2>3. QED
    BY <1>1, <2>1, <2>2
<1>2. QED
  BY <1>1 DEF CheckerIsComing

-----------------------------------------------------------------------------
(* How the handlers move the queue. *)

LEMMA HeadFacts ==
  ASSUME LockerInv, NEW w \in Windows, Turn(w)
  PROVE  /\ replies \in Seq(Replies) /\ replies # <<>> /\ Len(replies) \in Nat \ {0}
         /\ \A i \in 2..Len(replies) : replies[i].to # w
         /\ 1 \in Places /\ Waiter(1) = calls[w] /\ replies[1].disk = Got
<1>1. /\ replies \in Seq(Replies) /\ replies # <<>> /\ Len(replies) \in Nat \ {0}
      /\ replies[1].to = w /\ \A i \in 2..Len(replies) : replies[i].to # w
  BY OneReply DEF LockerInv
<1>2. Got = replies[1].disk
  BY TurnFacts DEF LockerInv
<1>3. QED
  BY <1>1, <1>2 DEF Waiter, Places

LEMMA LessByOne == \A n \in Nat \ {0} : n - 1 # n
  OBVIOUS

LEMMA AwaitShifts ==
  ASSUME LockerInv, NEW w \in Windows, Turn(w), OnlyCall(w), disk' \in Disk,
         replies' = Append(Tail(replies), Reply(w))
  PROVE  Shifted(calls'[w])
<1>1. /\ replies \in Seq(Replies) /\ replies # <<>> /\ Len(replies) \in Nat \ {0}
      /\ \A i \in 2..Len(replies) : replies[i].to # w
  BY HeadFacts
<1>2. Reply(w) \in Replies /\ Reply(w) = [to |-> w, disk |-> disk']
  BY DEF Reply, Replies
<1>3. /\ Len(replies') = Len(replies) /\ replies'[Len(replies)] = Reply(w)
      /\ \A i \in 1..Len(replies) - 1 : replies'[i] = replies[i + 1]
  BY <1>1, <1>2, AwaitFacts
<1>4. ASSUME NEW i \in 1..Len(replies) - 1
      PROVE  Waiter(i)' = Waiter(i + 1)
  <2>1. replies'[i] = replies[i + 1] /\ replies[i + 1].to # w
    BY <1>1, <1>3
  <2>2. QED
    BY <2>1 DEF Waiter, OnlyCall
<1>5. Waiter(Len(replies))' = calls'[w] /\ replies'[Len(replies)].disk = disk'
  BY <1>2, <1>3 DEF Waiter
<1>6. Len(replies') # Len(replies) - 1
  BY <1>1, <1>3, LessByOne, Zenon
<1>7. QED
  BY <1>1, <1>3, <1>4, <1>5, <1>6 DEF Shifted

LEMMA ReturnShifts ==
  ASSUME LockerInv, NEW w \in Windows, Turn(w), OnlyCall(w), replies' = Tail(replies)
  PROVE  Shifted(Idle)
<1>1. /\ replies \in Seq(Replies) /\ replies # <<>> /\ Len(replies) \in Nat \ {0}
      /\ \A i \in 2..Len(replies) : replies[i].to # w
  BY HeadFacts
<1>2. /\ Len(replies') = Len(replies) - 1
      /\ \A i \in 1..Len(replies) - 1 : replies'[i] = replies[i + 1]
  BY <1>1, TailFacts
<1>3. ASSUME NEW i \in 1..Len(replies) - 1
      PROVE  Waiter(i)' = Waiter(i + 1)
  <2>1. replies'[i] = replies[i + 1] /\ replies[i + 1].to # w
    BY <1>1, <1>2
  <2>2. QED
    BY <2>1 DEF Waiter, OnlyCall
<1>4. Len(replies') # Len(replies)
  BY <1>1, <1>2, LessByOne, Zenon
<1>5. QED
  BY <1>1, <1>2, <1>3, <1>4 DEF Shifted

\* The mnemonic is requested on behalf of nobody.
LEMMA RequestShifts ==
  ASSUME LockerInv, NEW w \in Windows, Turn(w), OnlyCall(w), disk' \in Disk,
         replies' = Append(Tail(replies), Reply(Background))
  PROVE  Shifted(Idle)
<1>1. /\ replies \in Seq(Replies) /\ replies # <<>> /\ Len(replies) \in Nat \ {0}
      /\ \A i \in 2..Len(replies) : replies[i].to # w
  BY HeadFacts
<1>2. Reply(Background) \in Replies /\ Reply(Background) = [to |-> Background, disk |-> disk']
  BY DEF Reply, Replies
<1>3. /\ Len(replies') = Len(replies) /\ replies'[Len(replies)] = Reply(Background)
      /\ \A i \in 1..Len(replies) - 1 : replies'[i] = replies[i + 1]
  BY <1>1, <1>2, AwaitFacts
<1>4. ASSUME NEW i \in 1..Len(replies) - 1
      PROVE  Waiter(i)' = Waiter(i + 1)
  <2>1. replies'[i] = replies[i + 1] /\ replies[i + 1].to # w
    BY <1>1, <1>3
  <2>2. QED
    BY <2>1 DEF Waiter, OnlyCall
<1>5. Waiter(Len(replies))' = Idle
  BY <1>2, <1>3, ConstantsAssumption DEF Waiter
<1>6. QED
  BY <1>1, <1>2, <1>3, <1>4, <1>5 DEF Shifted

\* A waiter is the call of its window, or of none.
LEMMA WaiterFacts ==
  ASSUME NEW i \in Places
  PROVE  \/ Waiter(i) = Idle /\ Waiter(i).pc = "idle"
         \/ \E v \in Windows : Waiter(i) = calls[v]
  BY DEF Waiter, Idle, NewCall

\* The onboarding page runs one call at a time.
LEMMA OnboardingAlone ==
  ASSUME LockerInv, NEW w \in Windows, calls[w].op \in Onboarding, NEW i \in Places,
         Waiter(i).pc \in SetupPcs \cup GenPcs \cup SavePcs
  PROVE  Waiter(i) = calls[w]
<1>1. PICK v \in Windows : Waiter(i) = calls[v]
  BY WaiterFacts DEF SetupPcs, GenPcs, SavePcs
<1>2. calls[v].op \in Onboarding
  BY <1>1 DEF LockerInv, PcFollowsOp, Onboarding
<1>3. QED
  BY <1>1, <1>2 DEF LockerInv, OneOnboardingCall

\* A handler that writes nothing, and leaves the lock unless the password is right.
LEMMA QuietKeepsOrder ==
  ASSUME LockerInv, OrderInv, NEW w \in Windows, Turn(w), OnlyCall(w), NEW x, Shifted(x),
         UNCHANGED <<disk, secrets>>, LeaveHistory,
         calls'[w] = Idle \/ (calls'[w].op = calls[w].op /\ calls'[w].password = calls[w].password),
         calls'[w].pc \notin {"setup-check", "setup-write", "reset-check", "reset-seed"},
         calls'[w].op = "resetPassword" => calls'[w].pc \in PastCheck /\ calls[w].pc \in PastCheck,
         unlocked' = unlocked \/ calls[w].pc = "auth", unlocked' \in BOOLEAN,
         calls[w].pc # "setup-check" \/ calls'[w] = Idle,
         calls[w].op # "none",
         x.pc \notin {"gen-accounts", "save-seed", "reset-check", "reset-seed", "auth", "save-write"},
         x.pc # "setup-check",
         x.pc \in {"gen-seed", "save-accounts"} => calls[w].pc \in {"gen-accounts", "save-seed"},
         x.pc = "save-select" <=> calls[w].pc = "save-write",
         x.pc = "status" => calls[w].pc = "setup-step",
         calls[w].pc \notin {"reset-seed", "save-select"},
         calls[w].pc = "auth" => IsAuthentic(w)
  PROVE  OrderInv'
<1>1. 1 \in Places /\ Waiter(1) = calls[w] /\ replies[1].disk = Got
  BY HeadFacts
<1>2. disk' = disk /\ secrets' = secrets /\ interrupted' = interrupted
  BY DEF LeaveHistory
<1>3. PasswordsAreTyped' /\ ResetsHaveAccounts'
  <2>1. calls'[w] # Idle => calls'[w].op = calls[w].op /\ calls'[w].password = calls[w].password
    OBVIOUS
  <2>2. QED
    BY <1>2, <2>1 DEF OrderInv, PasswordsAreTyped, ResetsHaveAccounts, OnlyCall, PastCheck,
       Idle,
                      NewCall
<1>4. NewIsEmpty'
  <2>1. CASE disk.checker = None
    <3>1. calls[w].pc = "setup-check"
      BY <2>1 DEF OrderInv, NewIsEmpty, Idle, NewCall
    <3>2. QED
      BY <1>2, <2>1, <3>1 DEF OrderInv, NewIsEmpty, OnlyCall
  <2>2. CASE disk.checker # None
    BY <1>2, <2>2 DEF OrderInv, NewIsEmpty, OnlyCall
  <2>3. QED
    BY <2>1, <2>2
<1>5. x.pc = "status" => \A i \in Places : Waiter(i).pc \notin GenPcs \cup SavePcs
  <2> SUFFICES ASSUME x.pc = "status", NEW i \in Places, Waiter(i).pc \in GenPcs \cup SavePcs
               PROVE  FALSE
    OBVIOUS
  <2>1. calls[w].pc = "setup-step" /\ calls[w].op \in Onboarding
    BY DEF LockerInv, PcFollowsOp, SetupPcs, Onboarding
  <2>2. QED
    BY <2>1, OnboardingAlone DEF GenPcs, SavePcs
<1>6. LastAuthIsKept'
  BY <1>1, <1>2, ShiftAuth DEF OrderInv, IsAuthentic
<1>7. ChecksComeFirst'
  BY <1>1, <1>2, <1>5, ShiftChecks DEF OrderInv, GenPcs, SavePcs
<1>8. SavesComeFirst'
  BY <1>1, <1>5, ShiftSaves DEF OrderInv, GenPcs, SavePcs, Saving
<1>9. SavedIsInMemory'
  BY <1>1, <1>2, ShiftSaved DEF OrderInv, SavedIsInMemory, Saving
<1>10. StepIsComing'
  BY <1>1, <1>2, ShiftStep DEF OrderInv, Saving
<1>11. LastSeedIsTyped'
  BY <1>1, <1>2, ShiftSeed DEF OrderInv
<1>12. CheckerIsComing'
  <2>1. \A v \in Windows : calls'[v].op = "resetPassword" /\ calls'[v].pc \in PastCheck =>
                              calls[v].op = "resetPassword" /\ calls[v].pc \in PastCheck
    BY DEF OnlyCall, Idle, NewCall
  <2>2. QED
    BY <1>1, <1>2, <2>1, ShiftChecker DEF OrderInv
<1>13. SetupsKnow'
  BY <1>2, ShiftSetups DEF OrderInv
<1>14. QED
  BY <1>3, <1>4, <1>6, <1>7, <1>8, <1>9, <1>10, <1>11, <1>12, <1>13 DEF OrderInv

-----------------------------------------------------------------------------
(* A call joins the end of the queue. *)

Joined(x) ==
  /\ Len(replies) \in Nat /\ Len(replies') = Len(replies) + 1
  /\ \A i \in 1..Len(replies) : Waiter(i)' = Waiter(i) /\ replies'[i] = replies[i]
  /\ \A i \in {Len(replies) + 1} : Waiter(i)' = x /\ replies'[i].disk = disk'

LEMMA JoinedPlace ==
  ASSUME NEW x, Joined(x), NEW i \in Places'
  PROVE  \/ i \in Places /\ Waiter(i)' = Waiter(i) /\ replies'[i] = replies[i]
         \/ /\ i = Len(replies) + 1 /\ i \notin Places
            /\ Waiter(i)' = x /\ replies'[i].disk = disk'
  BY DEF Joined, Places

LEMMA BeginJoins ==
  ASSUME LockerInv, NEW w \in Windows, NEW call \in Call, Begin(w, call), disk' = disk
  PROVE  Joined(call) /\ OnlyCall(w) /\ calls[w] = Idle /\ calls'[w] = call
<1>1. /\ calls[w] = Idle /\ calls' = [calls EXCEPT ![w] = call] /\ calls'[w] = call
      /\ OnlyCall(w) /\ replies' = Append(replies, Reply(w)) /\ disk' \in Disk
  BY DEF Begin, OnlyCall, LockerInv, LockerTypeOK
<1>2. replies \in Seq(Replies) /\ Reply(w) \in Replies /\ Reply(w) = [to |-> w, disk |-> disk']
  BY <1>1 DEF Reply, Replies, LockerInv, LockerTypeOK
<1>3. /\ Len(replies) \in Nat /\ Len(replies') = Len(replies) + 1
      /\ replies'[Len(replies) + 1] = Reply(w)
      /\ \A i \in 1..Len(replies) : replies'[i] = replies[i]
  BY <1>1, <1>2, AppendFacts
<1>4. \A i \in 1..Len(replies) : replies[i].to # w
  BY <1>1, IdleGetsNone DEF LockerInv, Idle, NewCall, Resting
<1>5. \A i \in {Len(replies) + 1} : Waiter(i)' = call /\ replies'[i].disk = disk'
  BY <1>1, <1>2, <1>3 DEF Waiter
<1>6. ASSUME NEW i \in 1..Len(replies)
      PROVE  Waiter(i)' = Waiter(i)
  <2>1. replies'[i] = replies[i] /\ replies[i].to # w
    BY <1>3, <1>4
  <2>2. QED
    BY <1>1, <2>1 DEF Waiter, OnlyCall
<1>7. QED
  BY <1>1, <1>3, <1>5, <1>6 DEF Joined

LEMMA BeginKeepsOrder ==
  ASSUME LockerInv, OrderInv, NEW w \in Windows, NEW call \in Call, Begin(w, call),
         disk' = disk, interrupted' = interrupted,
         unlocked' = unlocked \/ ~unlocked',
         secrets' = secrets \/ (secrets' = Cleared /\ disk.step = "mnemonic"),
         call.pc \in {"status", "notify", "setup-check", "reset-check", "gen-accounts", "save-seed"},
         call.op \in {"setupPassword", "resetPassword"} => call.password # None,
         call.op = "resetPassword" <=> call.pc = "reset-check",
         call.pc = "status" => ~unlocked,
         disk.checker = None => call.pc = "setup-check"
  PROVE  OrderInv'
<1>1. /\ Joined(call) /\ OnlyCall(w) /\ calls[w] = Idle /\ calls'[w] = call
      /\ interrupted' = interrupted
  BY BeginJoins
<1>2. /\ Places = 1..Len(replies) /\ Places' = 1..Len(replies') /\ Len(replies) \in Nat
      /\ Len(replies') = Len(replies) + 1
  BY <1>1 DEF Places, Joined
<1>3. PasswordsAreTyped' /\ ResetsHaveAccounts'
  BY <1>1 DEF OrderInv, PasswordsAreTyped, ResetsHaveAccounts, PastCheck, OnlyCall
<1>4. NewIsEmpty'
  <2>1. CASE disk.checker = None
    BY <1>1, <2>1 DEF OrderInv, NewIsEmpty, OnlyCall
  <2>2. CASE disk.checker # None
    BY <1>1, <2>2 DEF OrderInv, NewIsEmpty, OnlyCall
  <2>3. QED
    BY <2>1, <2>2
<1>5. call.pc = "status" => \A i \in Places : Waiter(i).pc \notin (GenPcs \cup SavePcs) \ {"save-step"}
  <2> SUFFICES ASSUME ~unlocked, NEW i \in Places, Waiter(i).pc \in (GenPcs \cup SavePcs) \ {"save-step"}
               PROVE  FALSE
    OBVIOUS
  <2>1. PICK v \in Windows : Waiter(i) = calls[v]
    BY WaiterFacts DEF GenPcs, SavePcs
  <2>2. QED
    BY <2>1 DEF LockerInv, OnboardingIsOpen
<1>6. LastAuthIsKept'
  <2> SUFFICES ASSUME disk.accounts = None
               PROVE  /\ \A i \in Places' : Waiter(i)'.pc = "auth" => replies'[i].disk.checker = disk.checker
                      /\ secrets'.password # None =>
                           \/ \E i \in Places' :
                                /\ Waiter(i)'.pc = "auth" /\ Waiter(i)'.password = secrets'.password
                                /\ \A j \in i+1..Len(replies') : Waiter(j)'.pc # "auth"
                           \/ /\ \A i \in Places' : Waiter(i)'.pc # "auth"
                              /\ secrets'.password = disk.checker
    BY DEF LastAuthIsKept
  <2>1. \A i \in Places' : Waiter(i)'.pc = "auth" => replies'[i].disk.checker = disk.checker
    BY <1>1, JoinedPlace DEF OrderInv, LastAuthIsKept
  <2>2. CASE secrets' = Cleared
    BY <2>1, <2>2 DEF Cleared
  <2>3. CASE secrets' = secrets /\ secrets.password # None
    <3>1. CASE \A i \in Places : Waiter(i).pc # "auth"
      BY <1>1, <2>1, <2>3, <3>1, JoinedPlace DEF OrderInv, LastAuthIsKept
    <3>2. ASSUME NEW i \in Places, Waiter(i).pc = "auth", Waiter(i).password = secrets.password,
                 \A j \in i+1..Len(replies) : Waiter(j).pc # "auth"
          PROVE  \E k \in Places' :
                   /\ Waiter(k)'.pc = "auth" /\ Waiter(k)'.password = secrets'.password
                   /\ \A j \in k+1..Len(replies') : Waiter(j)'.pc # "auth"
      <4>1. i \in Places' /\ Waiter(i)' = Waiter(i)
        BY <1>1, <1>2 DEF Joined
      <4>2. ASSUME NEW j \in i+1..Len(replies')
            PROVE  Waiter(j)'.pc # "auth"
        <5>1. j \in Places' /\ (j \in Places => j \in i+1..Len(replies))
          BY <1>2, <4>2
        <5>2. QED
          BY <1>1, <3>2, <5>1, JoinedPlace
      <4>3. QED
        BY <2>3, <3>2, <4>1, <4>2
    <3>3. QED
      BY <2>1, <2>3, <3>1, <3>2 DEF OrderInv, LastAuthIsKept
  <2>4. QED
    BY <2>1, <2>2, <2>3
<1>7. ChecksComeFirst'
  <2> SUFFICES ASSUME disk.accounts = None, NEW i \in Places', NEW j \in Places'
               PROVE  /\ Waiter(i)'.pc \in {"gen-accounts", "save-seed"} /\ Waiter(j)'.pc = "status"
                           => j < i
                      /\ Waiter(i)'.pc \in {"gen-seed", "save-accounts"} =>
                           /\ Waiter(j)'.pc # "status"
                           /\ Waiter(j)'.pc = "auth" => j < i
    BY DEF ChecksComeFirst
  <2>1. CASE i \in Places /\ Waiter(i)' = Waiter(i)
    <3>1. CASE j \in Places /\ Waiter(j)' = Waiter(j)
      BY <2>1, <3>1 DEF OrderInv, ChecksComeFirst
    <3>2. CASE Waiter(j)' = call
      BY <1>5, <2>1, <3>2 DEF GenPcs, SavePcs
    <3>3. QED
      BY <1>1, <3>1, <3>2, JoinedPlace
  <2>2. CASE i = Len(replies) + 1 /\ Waiter(i)' = call
    <3>1. CASE j \in Places
      BY <1>2, <2>2, <3>1
    <3>2. CASE Waiter(j)' = call
      BY <2>2, <3>2
    <3>3. QED
      BY <1>1, <3>1, <3>2, JoinedPlace
  <2>3. QED
    BY <1>1, <2>1, <2>2, JoinedPlace
<1>8. SavesComeFirst'
  <2> SUFFICES ASSUME NEW i \in Places', NEW j \in Places'
               PROVE  /\ Waiter(i)'.pc = "save-write" =>
                           /\ Waiter(j)'.pc \notin {"status", "auth", "reset-seed"}
                           /\ Waiter(j)'.pc = "reset-check" /\ replies'[j].disk.accounts # None => i < j
                      /\ Waiter(i)'.pc = "save-select" =>
                           /\ Waiter(j)'.pc \notin {"status", "auth"}
                           /\ Waiter(j)'.pc = "reset-seed" => i < j
    BY DEF SavesComeFirst
  <2>1. CASE i \in Places /\ Waiter(i)' = Waiter(i)
    <3>1. CASE j \in Places /\ Waiter(j)' = Waiter(j) /\ replies'[j] = replies[j]
      BY <2>1, <3>1 DEF OrderInv, SavesComeFirst
    <3>2. CASE j = Len(replies) + 1 /\ Waiter(j)' = call
      <4>1. i < j
        BY <1>2, <2>1, <3>2
      <4>2. QED
        BY <1>5, <2>1, <3>2, <4>1 DEF GenPcs, SavePcs
    <3>3. QED
      BY <1>1, <3>1, <3>2, JoinedPlace
  <2>2. CASE Waiter(i)' = call
    BY <2>2
  <2>3. QED
    BY <1>1, <2>1, <2>2, JoinedPlace
<1>9. SavedIsInMemory'
  <2> SUFFICES ASSUME NEW i \in Places', Waiter(i)'.pc \in {"save-write", "save-select"}
               PROVE  secrets'.mnemonic = disk.accounts
    BY DEF SavedIsInMemory, Saving
  <2>1. i \in Places /\ Waiter(i)' = Waiter(i)
    BY <1>1, JoinedPlace
  <2>2. PICK v \in Windows : Waiter(i) = calls[v]
    BY <2>1, WaiterFacts
  <2>3. disk.step # "mnemonic"
    BY <2>1, <2>2 DEF LockerInv, OnboardingIsOpen, SavePcs
  <2>4. QED
    BY <2>1, <2>3 DEF OrderInv, SavedIsInMemory, Saving
<1>10. StepIsComing'
  <2> SUFFICES ASSUME disk.accounts # None, disk.step # "mnemonic", "saveMnemonic" \notin interrupted
               PROVE  \E i \in Places' : Waiter(i)'.pc \in {"save-write", "save-select"}
    BY <1>1 DEF StepIsComing, Saving
  <2>1. PICK i \in Places : Saving(i)
    BY DEF OrderInv, StepIsComing
  <2>2. i \in Places' /\ Waiter(i)' = Waiter(i)
    BY <1>1, <1>2 DEF Joined
  <2>3. QED
    BY <2>1, <2>2 DEF Saving
<1>11. LastSeedIsTyped'
  <2> SUFFICES ASSUME NEW i \in Places', Waiter(i)'.pc = "reset-seed",
                      \A j \in i+1..Len(replies') : Waiter(j)'.pc # "reset-seed"
               PROVE  disk.seed.password = Waiter(i)'.password
    BY DEF LastSeedIsTyped
  <2>1. i \in Places /\ Waiter(i)' = Waiter(i)
    BY <1>1, JoinedPlace
  <2>2. ASSUME NEW j \in i+1..Len(replies)
        PROVE  Waiter(j).pc # "reset-seed"
    <3>1. j \in i+1..Len(replies') /\ j \in 1..Len(replies)
      BY <1>2, <2>1, <2>2
    <3>2. QED
      BY <1>1, <3>1 DEF Joined
  <2>3. QED
    BY <2>1, <2>2 DEF OrderInv, LastSeedIsTyped
<1>12. CheckerIsComing'
  <2>1. ASSUME NEW i \in Places, Waiter(i).pc = "reset-seed"
        PROVE  \E k \in Places' : Waiter(k)'.pc = "reset-seed"
    <3>1. i \in Places' /\ Waiter(i)' = Waiter(i)
      BY <1>1, <1>2 DEF Joined
    <3>2. QED
      BY <2>1, <3>1
  <2>2. \A v \in Windows : calls'[v].op = "resetPassword" /\ calls'[v].pc \in PastCheck =>
                              calls[v].op = "resetPassword" /\ calls[v].pc \in PastCheck
    BY <1>1 DEF OnlyCall, PastCheck
  <2>3. QED
    BY <1>1, <2>1, <2>2 DEF OrderInv, CheckerIsComing
<1>13. SetupsKnow'
  BY <1>1, JoinedPlace DEF OrderInv, SetupsKnow
<1>14. QED
  BY <1>3, <1>4, <1>6, <1>7, <1>8, <1>9, <1>10, <1>11, <1>12, <1>13 DEF OrderInv

LEMMA CallsKeepOrder ==
  ASSUME LockerInv, OrderInv, NEW w \in Windows, LockerCall(w)
  PROVE  OrderInv'
<1> USE DEF Ops, Onboarding, Pcs
<1>0. disk.step # "new" => disk.checker # None
  BY DEF OrderInv, NewIsEmpty
<1>1. CASE LockCall(w)
  <2>1. NewCall("lock", "notify", None, None) \in Call
    BY NewCallType DEF Password, Mnemonic
  <2>2. QED
    BY <1>0, <1>1, <2>1, BeginKeepsOrder DEF LockCall, LeaveHistory, NewCall
<1>2. CASE SaveMnemonicCall(w)
  <2>1. NewCall("saveMnemonic", "save-seed", None, None) \in Call
    BY NewCallType DEF Password, Mnemonic
  <2>2. disk.checker # None
    BY <1>2 DEF SaveMnemonicCall, OnboardingPage, OrderInv, NewIsEmpty
  <2>3. QED
    BY <1>2, <2>1, <2>2, BeginKeepsOrder
    DEF SaveMnemonicCall, BeginOnboarding, NewCall
<1>3. ASSUME NEW p \in Passwords, UnlockCall(w, p)
      PROVE  OrderInv'
  <2>1. NewCall("unlock", "status", p, None) \in Call
    BY NewCallType DEF Password, Mnemonic
  <2>2. disk.checker # None
    BY <1>0, <1>3 DEF UnlockCall, IsInitialized
  <2>3. QED
    BY <1>3, <2>1, <2>2, BeginKeepsOrder DEF UnlockCall, LeaveHistory, NewCall
<1>4. ASSUME NEW p \in Passwords, SetupPasswordCall(w, p)
      PROVE  OrderInv'
  <2>1. NewCall("setupPassword", "setup-check", p, None) \in Call /\ p # None
    BY NewCallType, ConstantsAssumption DEF Password, Mnemonic
  <2>2. QED
    BY <1>4, <2>1, BeginKeepsOrder DEF SetupPasswordCall, BeginOnboarding, NewCall
<1>5. ASSUME NEW p \in Passwords, NEW m \in Mnemonics, ResetPasswordCall(w, m, p)
      PROVE  OrderInv'
  <2>1. NewCall("resetPassword", "reset-check", p, m) \in Call /\ p # None
    BY NewCallType, ConstantsAssumption DEF Password, Mnemonic
  <2>2. disk.checker # None
    BY <1>0, <1>5 DEF ResetPasswordCall, IsInitialized
  <2>3. QED
    BY <1>5, <2>1, <2>2, BeginKeepsOrder DEF ResetPasswordCall, LeaveHistory, NewCall
<1>6. ASSUME NEW m \in Mnemonic, GenerateMnemonicCall(w, m)
      PROVE  OrderInv'
  <2>1. NewCall("generateMnemonic", "gen-accounts", None, m) \in Call
    BY NewCallType DEF Password
  <2>2. disk.checker # None
    BY <1>6 DEF GenerateMnemonicCall, OnboardingPage, OrderInv, NewIsEmpty
  <2>3. QED
    BY <1>6, <2>1, <2>2, BeginKeepsOrder
    DEF GenerateMnemonicCall, BeginOnboarding, NewCall
<1>7. QED
  BY <1>1, <1>2, <1>3, <1>4, <1>5, <1>6 DEF LockerCall

-----------------------------------------------------------------------------
(* The handlers *)

LEMMA AwaitMoves ==
  ASSUME LockerInv, NEW w \in Windows, NEW pc \in Pcs, Turn(w), Await(w, pc), disk' \in Disk
  PROVE  /\ OnlyCall(w) /\ Shifted(calls'[w])
         /\ calls'[w].pc = pc /\ calls'[w].op = calls[w].op
         /\ calls'[w].password = calls[w].password
<1>1. PICK call \in Call :
        /\ call.pc = pc /\ call.op = calls[w].op /\ call.password = calls[w].password
        /\ calls' = [calls EXCEPT ![w] = call]
        /\ replies' = Append(Tail(replies), Reply(w))
  BY AwaitForm
<1>2. OnlyCall(w) /\ calls'[w] = call
  BY <1>1 DEF OnlyCall, LockerInv, LockerTypeOK
<1>3. Shifted(calls'[w])
  BY <1>1, <1>2, AwaitShifts
<1>4. QED
  BY <1>1, <1>2, <1>3

LEMMA ReturnMoves ==
  ASSUME LockerInv, NEW w \in Windows, Turn(w), Return(w)
  PROVE  OnlyCall(w) /\ Shifted(Idle) /\ calls'[w] = Idle
<1>1. OnlyCall(w) /\ calls'[w] = Idle
  BY IdleType DEF OnlyCall, Return, LockerInv, LockerTypeOK
<1>2. QED
  BY <1>1, ReturnShifts DEF Return

\* A wallet in which more is going on than a set-up has a password.
LEMMA BusyHasChecker ==
  ASSUME OrderInv, NEW w \in Windows, calls[w].pc \notin {"idle", "setup-check"}
  PROVE  disk.checker # None
  BY DEF OrderInv, NewIsEmpty, Idle, NewCall

LEMMA UnlockKeepsOrder ==
  ASSUME LockerInv, OrderInv, NEW w \in Windows, UnlockStatus(w) \/ UnlockFails(w)
  PROVE  OrderInv'
<1>1. /\ Turn(w) /\ disk' = disk /\ unlocked' = unlocked /\ interrupted' = interrupted
      /\ calls[w].pc \in {"status", "auth"} /\ disk' \in Disk
  BY DEF UnlockStatus, UnlockFails, Resumed, LeaveHistory, LockerInv, LockerTypeOK
<1>2. 1 \in Places /\ Waiter(1) = calls[w] /\ replies[1].disk = Got
  BY <1>1, HeadFacts
<1>3. disk.checker # None
  BY <1>1, BusyHasChecker
<1>4. CASE UnlockStatus(w)
  <2>1. /\ OnlyCall(w) /\ calls'[w].pc = "auth" /\ calls'[w].op = calls[w].op
        /\ calls'[w].password = calls[w].password
    <3>1. PICK call \in Call :
            call = [calls[w] EXCEPT !.pc = "auth", !.generated = Got.step = "mnemonic"]
      BY PcOfOnboarding DEF Call, Pcs
    <3>2. /\ call.pc = "auth" /\ call.op = calls[w].op /\ call.password = calls[w].password
      BY <3>1, PcOfOnboarding DEF Call
    <3>3. calls' = [calls EXCEPT ![w] = call]
      BY <1>4, <3>1, PcOfOnboarding DEF UnlockStatus, LockerInv, LockerTypeOK, Call
    <3>4. QED
      BY <3>2, <3>3 DEF OnlyCall, LockerInv, LockerTypeOK
  <2>2. Shifted(calls'[w])
    BY <1>1, <1>4, <2>1, AwaitShifts DEF UnlockStatus
  <2>3. /\ calls[w].pc = "status" /\ secrets'.password = calls[w].password
        /\ secrets'.mnemonic = secrets.mnemonic
    BY <1>4 DEF UnlockStatus, Resumed, LockerInv, LockerTypeOK
  <2>4. PasswordsAreTyped' /\ NewIsEmpty' /\ ResetsHaveAccounts'
    BY <1>1, <1>3, <2>1, <2>3
    DEF OrderInv, PasswordsAreTyped, NewIsEmpty, ResetsHaveAccounts, OnlyCall, PastCheck
  <2>5. LastAuthIsKept'
    BY <1>1, <1>2, <2>1, <2>2, <2>3, ShiftAuth DEF OrderInv
  <2>6. ChecksComeFirst'
    BY <1>1, <1>2, <2>1, <2>2, <2>3, ShiftChecks DEF OrderInv
  <2>7. SavesComeFirst'
    BY <1>1, <1>2, <2>1, <2>2, <2>3, ShiftSaves DEF OrderInv
  <2>8. SavedIsInMemory'
    BY <1>1, <1>2, <2>1, <2>2, <2>3, ShiftSaved DEF OrderInv
  <2>9. StepIsComing'
    BY <1>1, <1>2, <2>1, <2>2, <2>3, ShiftStep DEF OrderInv, Saving
  <2>10. LastSeedIsTyped'
    BY <1>1, <1>2, <2>1, <2>2, <2>3, ShiftSeed DEF OrderInv
  <2>11. \A v \in Windows : calls'[v].op = "resetPassword" /\ calls'[v].pc \in PastCheck =>
                               calls[v].op = "resetPassword" /\ calls[v].pc \in PastCheck
    BY <2>1, <2>3 DEF OnlyCall, PastCheck
  <2>12. CheckerIsComing'
    BY <1>1, <1>2, <2>2, <2>3, <2>11, ShiftChecker DEF OrderInv
  <2>13. SetupsKnow'
    BY <1>1, <2>1, <2>2, ShiftSetups DEF OrderInv
  <2>14. QED
    BY <2>4, <2>5, <2>6, <2>7, <2>8, <2>9, <2>10, <2>12, <2>13 DEF OrderInv
<1>5. CASE UnlockFails(w)
  <2>1. OnlyCall(w) /\ Shifted(Idle) /\ calls'[w] = Idle
    BY <1>1, <1>5, ReturnMoves DEF UnlockFails
  <2>2. calls[w].pc = "auth" /\ secrets'.password = None
    BY <1>5 DEF UnlockFails, Resumed, Cleared
  <2>3. Idle.pc = "idle" /\ Idle.op = "none"
    BY DEF Idle, NewCall
  <2>4. PasswordsAreTyped' /\ NewIsEmpty' /\ ResetsHaveAccounts'
    BY <1>1, <1>3, <2>1, <2>2, <2>3
    DEF OrderInv, PasswordsAreTyped, NewIsEmpty, ResetsHaveAccounts, OnlyCall, PastCheck
  <2>5. LastAuthIsKept'
    BY <1>1, <1>2, <2>1, <2>2, <2>3, ShiftAuth DEF OrderInv
  <2>6. ChecksComeFirst'
    BY <1>1, <1>2, <2>1, <2>2, <2>3, ShiftChecks DEF OrderInv
  <2>7. SavesComeFirst'
    BY <1>1, <1>2, <2>1, <2>2, <2>3, ShiftSaves DEF OrderInv
  <2>8. \A i \in Places : ~Saving(i)
    BY <1>2, <2>2 DEF OrderInv, SavesComeFirst, Saving
  <2>9. SavedIsInMemory'
    BY <1>1, <1>2, <2>1, <2>2, <2>3, <2>8, ShiftSaved DEF OrderInv
  <2>10. StepIsComing'
    BY <1>1, <1>2, <2>1, <2>2, <2>3, ShiftStep DEF OrderInv, Saving
  <2>11. LastSeedIsTyped'
    BY <1>1, <1>2, <2>1, <2>2, <2>3, ShiftSeed DEF OrderInv
  <2>12. \A v \in Windows : calls'[v].op = "resetPassword" /\ calls'[v].pc \in PastCheck =>
                               calls[v].op = "resetPassword" /\ calls[v].pc \in PastCheck
    BY <2>1, <2>3 DEF OnlyCall
  <2>13. CheckerIsComing'
    BY <1>1, <1>2, <2>1, <2>2, <2>12, ShiftChecker DEF OrderInv
  <2>14. SetupsKnow'
    BY <1>1, <2>1, <2>3, ShiftSetups DEF OrderInv
  <2>15. QED
    BY <2>4, <2>5, <2>6, <2>7, <2>9, <2>10, <2>11, <2>13, <2>14 DEF OrderInv
<1>6. QED
  BY <1>4, <1>5

LEMMA SetupPasswordKeepsOrder ==
  ASSUME LockerInv, OrderInv, NEW w \in Windows, SetupPasswordWrite(w) \/ SetupPasswordStep(w)
  PROVE  OrderInv'
<1>1. /\ Turn(w) /\ unlocked' = unlocked /\ secrets' = secrets /\ interrupted' = interrupted
      /\ calls[w].pc \in {"setup-check", "setup-write"}
  BY DEF SetupPasswordWrite, SetupPasswordStep, Resumed, LeaveHistory
<1>2. 1 \in Places /\ Waiter(1) = calls[w] /\ replies[1].disk = Got
  BY <1>1, HeadFacts
<1>3. calls[w].op = "setupPassword" /\ calls[w] \in Call /\ calls[w].password # None
  BY <1>1 DEF LockerInv, LockerTypeOK, PcFollowsOp, SetupPcs, OrderInv, PasswordsAreTyped
<1>4. CASE SetupPasswordWrite(w)
  <2>1. /\ calls[w].pc = "setup-check" /\ disk' = [disk EXCEPT !.checker = calls[w].password]
        /\ Await(w, "setup-write") /\ disk.checker = None
    BY <1>2, <1>4 DEF SetupPasswordWrite, Resumed, OrderInv, SetupsKnow, PasswordIsUp
  <2>2. /\ disk' \in Disk /\ disk'.checker # None /\ disk'.seed = Cleared /\ disk'.accounts = None
        /\ disk'.step = "new"
    BY <1>3, <2>1 DEF LockerInv, LockerTypeOK, Disk, Call, OrderInv, NewIsEmpty
  <2>3. /\ OnlyCall(w) /\ Shifted(calls'[w]) /\ calls'[w].pc = "setup-write"
        /\ calls'[w].op = "setupPassword" /\ calls'[w].password = calls[w].password
    BY <1>1, <1>3, <2>1, <2>2, AwaitMoves DEF Pcs
  <2>4. \A v \in Windows \ {w} : calls[v] = Idle /\ calls'[v] = Idle
    BY <1>3, <2>1, <2>3
    DEF OrderInv, NewIsEmpty, OnlyCall, LockerInv, PcFollowsOp, OneOnboardingCall, SetupPcs,
       Onboarding
  <2>5. PasswordsAreTyped' /\ NewIsEmpty' /\ ResetsHaveAccounts'
    BY <1>3, <2>2, <2>3, <2>4
    DEF PasswordsAreTyped, NewIsEmpty, ResetsHaveAccounts, Idle, NewCall
  <2>6. \A i \in Places : Waiter(i).pc \in {"idle", "setup-check"}
    BY <2>1, WaiterFacts DEF OrderInv, NewIsEmpty, Idle, NewCall
  <2>7. \A i \in Places' : Waiter(i)'.pc \in {"idle", "setup-check", "setup-write"}
    BY <2>3, <2>6, ShiftedPlace
  <2>8. secrets.password = None
    BY <2>1, <2>6 DEF OrderInv, NewIsEmpty, LastAuthIsKept
  <2>9. LastAuthIsKept' /\ ChecksComeFirst' /\ SavesComeFirst' /\ SavedIsInMemory' /\ LastSeedIsTyped'
    BY <1>1, <2>7, <2>8
    DEF LastAuthIsKept, ChecksComeFirst, SavesComeFirst, SavedIsInMemory, LastSeedIsTyped,
       Saving
  <2>10. StepIsComing' /\ CheckerIsComing'
    BY <2>2 DEF StepIsComing, CheckerIsComing, Cleared
  <2>11. SetupsKnow'
    BY <2>3, <2>4 DEF SetupsKnow, Waiter, Idle, NewCall
  <2>12. QED
    BY <2>5, <2>9, <2>10, <2>11 DEF OrderInv
<1>5. CASE SetupPasswordStep(w)
  <2>1. /\ calls[w].pc = "setup-write" /\ disk' = [disk EXCEPT !.step = "password"]
        /\ Await(w, "setup-step") /\ disk.accounts = None
    BY <1>5 DEF SetupPasswordStep, Resumed, OrderInv, NewIsEmpty
  <2>2. /\ disk' \in Disk /\ disk'.checker = disk.checker /\ disk'.seed = disk.seed
        /\ disk'.accounts = disk.accounts
    BY <2>1 DEF LockerInv, LockerTypeOK, Disk
  <2>3. /\ OnlyCall(w) /\ Shifted(calls'[w]) /\ calls'[w].pc = "setup-step"
        /\ calls'[w].op = "setupPassword" /\ calls'[w].password = calls[w].password
    BY <1>1, <1>3, <2>1, <2>2, AwaitMoves DEF Pcs
  <2>4. disk.checker # None
    BY <2>1, BusyHasChecker
  <2>5. PasswordsAreTyped' /\ NewIsEmpty' /\ ResetsHaveAccounts'
    BY <1>3, <2>2, <2>3, <2>4
    DEF OrderInv, PasswordsAreTyped, NewIsEmpty, ResetsHaveAccounts, OnlyCall, PastCheck
  <2>6. LastAuthIsKept'
    BY <1>1, <1>2, <2>1, <2>2, <2>3, ShiftAuth DEF OrderInv
  <2>7. ChecksComeFirst'
    BY <1>1, <1>2, <2>1, <2>2, <2>3, ShiftChecks DEF OrderInv
  <2>8. SavesComeFirst'
    BY <1>1, <1>2, <2>1, <2>2, <2>3, ShiftSaves DEF OrderInv
  <2>9. SavedIsInMemory'
    BY <1>1, <1>2, <2>1, <2>2, <2>3, ShiftSaved DEF OrderInv
  <2>10. StepIsComing'
    BY <2>1, <2>2 DEF StepIsComing
  <2>11. LastSeedIsTyped'
    BY <1>1, <1>2, <2>1, <2>2, <2>3, ShiftSeed DEF OrderInv
  <2>12. \A v \in Windows : calls'[v].op = "resetPassword" /\ calls'[v].pc \in PastCheck =>
                               calls[v].op = "resetPassword" /\ calls[v].pc \in PastCheck
    BY <2>3 DEF OnlyCall
  <2>13. CheckerIsComing'
    BY <1>1, <1>2, <2>1, <2>2, <2>3, <2>12, ShiftChecker DEF OrderInv
  <2>14. SetupsKnow'
    BY <2>2, <2>3, ShiftSetups DEF OrderInv, PasswordIsUp
  <2>15. QED
    BY <2>5, <2>6, <2>7, <2>8, <2>9, <2>10, <2>11, <2>13, <2>14 DEF OrderInv
<1>6. QED
  BY <1>4, <1>5

LEMMA ResetPasswordKeepsOrder ==
  ASSUME LockerInv, OrderInv, NEW w \in Windows, ResetPasswordSeed(w) \/ ResetPasswordChecker(w)
  PROVE  OrderInv'
<1>1. /\ Turn(w) /\ unlocked' = unlocked /\ interrupted' = interrupted
      /\ calls[w].pc \in {"reset-check", "reset-seed"}
  BY DEF ResetPasswordSeed, ResetPasswordChecker, Resumed, LeaveHistory
<1>2. 1 \in Places /\ Waiter(1) = calls[w] /\ replies[1].disk = Got
  BY <1>1, HeadFacts
<1>3. calls[w].op = "resetPassword" /\ calls[w] \in Call /\ calls[w].password # None
  BY <1>1 DEF LockerInv, LockerTypeOK, OrderInv, ResetsHaveAccounts, PasswordsAreTyped
<1>4. disk.checker # None
  BY <1>1, BusyHasChecker
<1>5. CASE ResetPasswordSeed(w)
  <2>1. /\ calls[w].pc = "reset-check" /\ Await(w, "reset-seed") /\ secrets' = secrets
        /\ disk' = [disk EXCEPT !.seed = [mnemonic |-> calls[w].mnemonic,
                                          password |-> calls[w].password]]
        /\ Got.accounts = calls[w].mnemonic
    BY <1>5 DEF ResetPasswordSeed, Resumed
  <2>2. Got.accounts # None /\ disk.accounts = Got.accounts
    BY <1>1, <2>1, GotFacts DEF LockerInv, PcFollowsOp
  <2>3. /\ disk' \in Disk /\ disk'.checker = disk.checker /\ disk'.accounts = disk.accounts
        /\ disk'.step = disk.step /\ disk'.seed.password = calls[w].password
    BY <1>3, <2>1 DEF LockerInv, LockerTypeOK, Disk, Call
  <2>4. /\ OnlyCall(w) /\ Shifted(calls'[w]) /\ calls'[w].pc = "reset-seed"
        /\ calls'[w].op = "resetPassword" /\ calls'[w].password = calls[w].password
    BY <1>1, <1>3, <2>1, <2>3, AwaitMoves DEF Pcs
  <2>5. PasswordsAreTyped' /\ NewIsEmpty' /\ ResetsHaveAccounts'
    BY <1>3, <1>4, <2>2, <2>3, <2>4
    DEF OrderInv, PasswordsAreTyped, NewIsEmpty, ResetsHaveAccounts, OnlyCall, PastCheck
  <2>6. LastAuthIsKept' /\ ChecksComeFirst'
    BY <2>2, <2>3 DEF LastAuthIsKept, ChecksComeFirst
  <2>7. SavesComeFirst'
    BY <1>1, <1>2, <2>1, <2>2, <2>4, ShiftSaves DEF OrderInv
  <2>8. SavedIsInMemory'
    BY <1>1, <1>2, <2>1, <2>3, <2>4, ShiftSaved DEF OrderInv
  <2>9. StepIsComing'
    BY <1>1, <1>2, <2>1, <2>3, <2>4, ShiftStep DEF OrderInv, Saving
  <2>10. LastSeedIsTyped'
    BY <1>1, <1>2, <2>1, <2>3, <2>4, ShiftSeed DEF OrderInv
  <2>11. CheckerIsComing'
    <3>1. Len(replies) \in Places' /\ Waiter(Len(replies))' = calls'[w]
      BY <2>4 DEF Shifted, Places, Idle, NewCall
    <3>2. Len(replies') = Len(replies)
      BY <2>4 DEF Shifted, Idle, NewCall
    <3>3. \E i \in Places' : Waiter(i)'.pc = "reset-seed"
      BY <2>4, <3>1, <3>2
    <3>4. QED
      BY <3>3 DEF CheckerIsComing
  <2>12. SetupsKnow'
    BY <2>3, <2>4, ShiftSetups DEF OrderInv, PasswordIsUp
  <2>13. QED
    BY <2>5, <2>6, <2>7, <2>8, <2>9, <2>10, <2>11, <2>12 DEF OrderInv
<1>6. CASE ResetPasswordChecker(w)
  <2>1. /\ calls[w].pc = "reset-seed" /\ Await(w, "status")
        /\ secrets' = [secrets EXCEPT !.password = calls[w].password]
        /\ disk' = [disk EXCEPT !.checker = calls[w].password]
    BY <1>6 DEF ResetPasswordChecker, Resumed
  <2>2. disk.accounts # None
    BY <1>3, <2>1 DEF OrderInv, ResetsHaveAccounts
  <2>3. /\ disk' \in Disk /\ disk'.checker = calls[w].password /\ disk'.accounts = disk.accounts
        /\ disk'.step = disk.step /\ disk'.seed = disk.seed
    BY <1>3, <2>1 DEF LockerInv, LockerTypeOK, Disk, Call
  <2>4. /\ OnlyCall(w) /\ Shifted(calls'[w]) /\ calls'[w].pc = "status"
        /\ calls'[w].op = "resetPassword" /\ calls'[w].password = calls[w].password
    BY <1>1, <1>3, <2>1, <2>3, AwaitMoves DEF Pcs
  <2>5. secrets'.mnemonic = secrets.mnemonic
    BY <2>1 DEF LockerInv, LockerTypeOK
  <2>6. PasswordsAreTyped' /\ NewIsEmpty' /\ ResetsHaveAccounts'
    BY <1>3, <1>4, <2>2, <2>3, <2>4
    DEF OrderInv, PasswordsAreTyped, NewIsEmpty, ResetsHaveAccounts, OnlyCall, PastCheck
  <2>7. LastAuthIsKept' /\ ChecksComeFirst'
    BY <2>2, <2>3 DEF LastAuthIsKept, ChecksComeFirst
  <2>8. SavesComeFirst'
    BY <1>1, <1>2, <2>1, <2>4, ShiftSaves DEF OrderInv
  <2>9. SavedIsInMemory'
    BY <1>1, <1>2, <2>3, <2>4, <2>5, ShiftSaved DEF OrderInv
  <2>10. StepIsComing'
    BY <1>1, <1>2, <2>1, <2>3, <2>4, ShiftStep DEF OrderInv, Saving
  <2>11. LastSeedIsTyped'
    BY <1>1, <1>2, <2>1, <2>3, <2>4, ShiftSeed DEF OrderInv
  <2>12. CheckerIsComing'
    <3>1. CASE \E i \in Places : i > 1 /\ Waiter(i).pc = "reset-seed"
      <4>1. PICK i \in Places : i > 1 /\ Waiter(i).pc = "reset-seed"
        BY <3>1
      <4>2. i - 1 \in 1..Len(replies) - 1 /\ (i - 1) + 1 = i /\ i - 1 \in Places'
        BY <2>4, <4>1 DEF Shifted, Places
      <4>3. Waiter(i - 1)' = Waiter(i)
        BY <2>4, <4>2 DEF Shifted
      <4>4. QED
        BY <4>1, <4>2, <4>3 DEF CheckerIsComing
    <3>2. CASE ~\E i \in Places : i > 1 /\ Waiter(i).pc = "reset-seed"
      <4>1. \A j \in 1+1..Len(replies) : j \in Places /\ j > 1
        BY <2>4 DEF Shifted, Places
      <4>2. disk.seed.password = Waiter(1).password
        BY <1>2, <2>1, <3>2, <4>1 DEF OrderInv, LastSeedIsTyped
      <4>3. QED
        BY <1>2, <2>3, <4>2 DEF CheckerIsComing
    <3>3. QED
      BY <3>1, <3>2
  <2>13. SetupsKnow'
    BY <1>3, <1>4, <2>3, <2>4, ShiftSetups DEF OrderInv, PasswordIsUp
  <2>14. QED
    BY <2>6, <2>7, <2>8, <2>9, <2>10, <2>11, <2>12, <2>13 DEF OrderInv
<1>7. QED
  BY <1>5, <1>6

LEMMA GenerateMnemonicKeepsOrder ==
  ASSUME LockerInv, OrderInv, NEW w \in Windows, NEW m \in Mnemonics, GenerateMnemonicWrite(w, m)
  PROVE  OrderInv'
<1>1. /\ Turn(w) /\ unlocked' = unlocked /\ interrupted' = interrupted
      /\ calls[w].pc = "gen-seed" /\ secrets' = [secrets EXCEPT !.mnemonic = m]
      /\ IF secrets.password = None
         THEN disk' = disk /\ Return(w)
         ELSE /\ disk' = [disk EXCEPT !.seed = [mnemonic |-> m, password |-> secrets.password]]
              /\ Await(w, "gen-write")
  BY DEF GenerateMnemonicWrite, Resumed, LeaveHistory
<1>2. 1 \in Places /\ Waiter(1) = calls[w] /\ replies[1].disk = Got
  BY <1>1, HeadFacts
<1>3. /\ calls[w].op = "generateMnemonic" /\ calls[w] \in Call /\ disk.accounts = None
      /\ secrets'.password = secrets.password /\ secrets.password \in Password
  BY <1>1 DEF LockerInv, LockerTypeOK, PcFollowsOp, GenPcs, CallsKnow
<1>4. disk.checker # None
  BY <1>1, BusyHasChecker
<1>5. \A i \in Places : Waiter(i).pc \notin {"auth", "reset-seed", "save-write", "save-select"}
  <2> SUFFICES ASSUME NEW i \in Places,
                      Waiter(i).pc \in {"auth", "reset-seed", "save-write", "save-select"}
               PROVE  FALSE
    OBVIOUS
  <2>1. PICK v \in Windows : Waiter(i) = calls[v]
    BY WaiterFacts
  <2>2. Waiter(i).pc = "auth"
    BY <1>3, <2>1 DEF LockerInv, CallsKnow, OrderInv, ResetsHaveAccounts
  <2>3. i < 1 /\ i \in Nat
    BY <1>1, <1>2, <1>3, <2>2 DEF OrderInv, ChecksComeFirst, Places
  <2>4. QED
    BY <2>3 DEF Places
<1>6. secrets.password \in {None, disk.checker}
  BY <1>3, <1>5 DEF OrderInv, LastAuthIsKept
<1>7. /\ disk' \in Disk /\ disk'.checker = disk.checker /\ disk'.accounts = disk.accounts
      /\ disk'.step = disk.step
      /\ disk'.seed = disk.seed \/ disk'.seed.password = disk.checker
  BY <1>1, <1>3, <1>6 DEF LockerInv, LockerTypeOK, Disk, Mnemonic
<1>8. PICK x : /\ OnlyCall(w) /\ Shifted(x) /\ x = calls'[w] /\ x.pc \in {"idle", "gen-write"}
               /\ x.op \in {"none", "generateMnemonic"}
  <2>1. CASE secrets.password = None
    BY <1>1, <2>1, ReturnMoves DEF Idle, NewCall
  <2>2. CASE secrets.password # None
    BY <1>1, <1>3, <1>7, <2>2, AwaitMoves DEF Pcs
  <2>3. QED
    BY <2>1, <2>2
<1>9. PasswordsAreTyped' /\ NewIsEmpty' /\ ResetsHaveAccounts'
  BY <1>3, <1>4, <1>7, <1>8
  DEF OrderInv, PasswordsAreTyped, NewIsEmpty, ResetsHaveAccounts, OnlyCall, PastCheck
<1>10. LastAuthIsKept'
  BY <1>1, <1>2, <1>3, <1>7, <1>8, ShiftAuth DEF OrderInv
<1>11. ChecksComeFirst'
  BY <1>1, <1>2, <1>7, <1>8, ShiftChecks DEF OrderInv
<1>12. SavesComeFirst'
  BY <1>1, <1>2, <1>8, ShiftSaves DEF OrderInv
<1>13. SavedIsInMemory'
  BY <1>5, <1>8, ShiftSaved DEF OrderInv, Saving
<1>14. StepIsComing'
  BY <1>3, <1>7 DEF StepIsComing
<1>15. LastSeedIsTyped'
  BY <1>5, <1>8, ShiftSeed DEF OrderInv
<1>16. CheckerIsComing'
  <2>1. CASE disk'.seed.password = disk'.checker
    BY <2>1 DEF CheckerIsComing
  <2>2. CASE disk'.seed = disk.seed
    <3>1. \A v \in Windows : calls'[v].op = "resetPassword" /\ calls'[v].pc \in PastCheck =>
                               calls[v].op = "resetPassword" /\ calls[v].pc \in PastCheck
      BY <1>8 DEF OnlyCall
    <3>2. QED
      BY <1>1, <1>2, <1>7, <1>8, <2>2, <3>1, ShiftChecker DEF OrderInv
  <2>3. QED
    BY <1>7, <2>1, <2>2
<1>17. SetupsKnow'
  BY <1>7, <1>8, ShiftSetups DEF OrderInv, PasswordIsUp
<1>18. QED
  BY <1>9, <1>10, <1>11, <1>12, <1>13, <1>14, <1>15, <1>16, <1>17 DEF OrderInv

LEMMA SaveMnemonicKeepsOrder ==
  ASSUME LockerInv, OrderInv, NEW w \in Windows, SaveMnemonicAccounts(w) \/ SaveMnemonicStep(w)
  PROVE  OrderInv'
<1>1. /\ Turn(w) /\ unlocked' = unlocked /\ interrupted' = interrupted
      /\ calls[w].pc \in {"save-accounts", "save-select"}
  BY DEF SaveMnemonicAccounts, SaveMnemonicStep, Resumed, LeaveHistory
<1>2. 1 \in Places /\ Waiter(1) = calls[w] /\ replies[1].disk = Got
  BY <1>1, HeadFacts
<1>3. calls[w].op = "saveMnemonic" /\ calls[w].op \in Onboarding /\ calls[w] \in Call
  BY <1>1 DEF LockerInv, LockerTypeOK, PcFollowsOp, SavePcs, Onboarding
<1>4. disk.checker # None /\ \A v \in Windows : calls[v].pc # "setup-write"
  BY <1>1, <1>3, BusyHasChecker
  DEF LockerInv, PcFollowsOp, SetupPcs, OneOnboardingCall, Onboarding
<1>5. Got.accounts = disk.accounts
  BY <1>1, <1>3, GotFacts
<1>6. CASE SaveMnemonicAccounts(w)
  <2>1. /\ calls[w].pc = "save-accounts"
        /\ secrets' = [secrets EXCEPT !.mnemonic = calls[w].mnemonic]
        /\ IF Got.accounts # None
           THEN disk' = disk /\ Return(w)
           ELSE /\ disk' = [disk EXCEPT !.accounts = calls[w].mnemonic]
                /\ Await(w, "save-write")
    BY <1>6 DEF SaveMnemonicAccounts, Resumed
  <2>2. /\ calls[w].mnemonic = disk.seed.mnemonic /\ calls[w].mnemonic # None
        /\ secrets'.password = secrets.password /\ secrets'.mnemonic = calls[w].mnemonic
        /\ disk.step # "mnemonic"
    BY <2>1 DEF LockerInv, LockerTypeOK, CallsKnow, OnboardingIsOpen, SavePcs
  <2>3. \A i \in Places : ~Saving(i)
    BY <1>3, <2>1, OnboardingAlone DEF Saving, SavePcs
  <2>4. /\ disk' \in Disk /\ disk'.checker = disk.checker /\ disk'.seed = disk.seed
        /\ disk'.step = disk.step /\ disk'.accounts \in {disk.accounts, calls[w].mnemonic}
        /\ disk'.accounts = None => disk.accounts = None
    BY <1>3, <1>5, <2>1, <2>2 DEF LockerInv, LockerTypeOK, Disk, Call
  <2>5. PICK x : /\ OnlyCall(w) /\ Shifted(x) /\ x = calls'[w]
                 /\ \/ disk.accounts # None /\ x.pc = "idle" /\ x.op = "none"
                    \/ disk.accounts = None /\ x.pc = "save-write" /\ x.op = "saveMnemonic"
    <3>1. CASE disk.accounts # None
      BY <1>1, <1>5, <2>1, <3>1, ReturnMoves DEF Idle, NewCall
    <3>2. CASE disk.accounts = None
      BY <1>1, <1>3, <1>5, <2>1, <2>4, <3>2, AwaitMoves DEF Pcs
    <3>3. QED
      BY <3>1, <3>2
  <2>6. disk'.accounts # None
    BY <1>5, <2>1, <2>2 DEF LockerInv, LockerTypeOK, Disk
  <2>7. PasswordsAreTyped' /\ NewIsEmpty' /\ ResetsHaveAccounts'
    BY <1>3, <1>4, <2>4, <2>5, <2>6
    DEF OrderInv, PasswordsAreTyped, NewIsEmpty, ResetsHaveAccounts, OnlyCall, PastCheck
  <2>8. LastAuthIsKept' /\ ChecksComeFirst'
    BY <2>6 DEF LastAuthIsKept, ChecksComeFirst
  <2>9. ASSUME disk.accounts = None, NEW j \in Places
        PROVE  /\ Waiter(j).pc \notin {"status", "auth", "reset-seed"}
               /\ Waiter(j).pc = "reset-check" => replies[j].disk.accounts = None
    <3>1. Waiter(j).pc # "status"
      BY <1>2, <2>1, <2>9 DEF OrderInv, ChecksComeFirst
    <3>2. Waiter(j).pc # "auth"
      BY <1>2, <2>1, <2>9 DEF OrderInv, ChecksComeFirst, Places
    <3>3. Waiter(j).pc # "reset-seed"
      BY <2>9, WaiterFacts DEF OrderInv, ResetsHaveAccounts
    <3>4. replies[j].disk.accounts = None
      BY <2>9 DEF LockerInv, RepliesAreFresh, Places
    <3>5. QED
      BY <3>1, <3>2, <3>3, <3>4
  <2>10. SavesComeFirst'
    BY <1>2, <2>1, <2>5, <2>9, ShiftSaves DEF OrderInv
  <2>11. SavedIsInMemory'
    <3>1. x.pc \in {"save-write", "save-select"} => secrets'.mnemonic = disk'.accounts
      BY <1>5, <2>1, <2>2, <2>5 DEF LockerInv, LockerTypeOK, Disk
    <3>2. QED
      BY <2>3, <2>5, <3>1, ShiftSaved DEF OrderInv
  <2>12. StepIsComing'
    BY <1>1, <1>2, <2>3, <2>4, <2>5, ShiftStep DEF OrderInv
  <2>13. LastSeedIsTyped'
    BY <2>4, <2>5, ShiftSeed DEF OrderInv
  <2>14. \A v \in Windows : calls'[v].op = "resetPassword" /\ calls'[v].pc \in PastCheck =>
                               calls[v].op = "resetPassword" /\ calls[v].pc \in PastCheck
    BY <2>5 DEF OnlyCall
  <2>15. CheckerIsComing'
    BY <1>1, <1>2, <2>1, <2>4, <2>5, <2>14, ShiftChecker DEF OrderInv
  <2>16. SetupsKnow'
    BY <2>4, <2>5, ShiftSetups DEF OrderInv, PasswordIsUp
  <2>17. QED
    BY <2>7, <2>8, <2>10, <2>11, <2>12, <2>13, <2>15, <2>16 DEF OrderInv
<1>7. CASE SaveMnemonicStep(w)
  <2>1. calls[w].pc = "save-select" /\ secrets' = secrets /\ secrets.mnemonic = Got.accounts
    BY <1>2, <1>5, <1>7 DEF SaveMnemonicStep, Resumed, OrderInv, SavedIsInMemory, Saving
  <2>2. disk' = [disk EXCEPT !.step = "mnemonic"] /\ Await(w, "save-step") /\ disk.accounts # None
    BY <1>7, <2>1 DEF SaveMnemonicStep, LockerInv, CallsKnow
  <2>3. /\ disk' \in Disk /\ disk'.checker = disk.checker /\ disk'.seed = disk.seed
        /\ disk'.step = "mnemonic" /\ disk'.accounts = disk.accounts
    BY <2>2 DEF LockerInv, LockerTypeOK, Disk
  <2>4. /\ OnlyCall(w) /\ Shifted(calls'[w]) /\ calls'[w].pc = "save-step"
        /\ calls'[w].op = "saveMnemonic"
    BY <1>1, <1>3, <2>2, <2>3, AwaitMoves DEF Pcs
  <2>5. PasswordsAreTyped' /\ NewIsEmpty' /\ ResetsHaveAccounts'
    BY <1>3, <1>4, <2>3, <2>4
    DEF OrderInv, PasswordsAreTyped, NewIsEmpty, ResetsHaveAccounts, OnlyCall, PastCheck
  <2>6. LastAuthIsKept' /\ ChecksComeFirst' /\ StepIsComing'
    BY <2>2, <2>3 DEF LastAuthIsKept, ChecksComeFirst, StepIsComing
  <2>7. SavesComeFirst'
    BY <1>2, <2>1, <2>4, ShiftSaves DEF OrderInv
  <2>8. SavedIsInMemory'
    BY <2>1, <2>3, <2>4, ShiftSaved DEF OrderInv
  <2>9. LastSeedIsTyped'
    BY <2>3, <2>4, ShiftSeed DEF OrderInv
  <2>10. \A v \in Windows : calls'[v].op = "resetPassword" /\ calls'[v].pc \in PastCheck =>
                               calls[v].op = "resetPassword" /\ calls[v].pc \in PastCheck
    BY <2>4 DEF OnlyCall
  <2>11. CheckerIsComing'
    BY <1>1, <1>2, <2>1, <2>3, <2>4, <2>10, ShiftChecker DEF OrderInv
  <2>12. SetupsKnow'
    BY <2>3, <2>4, ShiftSetups DEF OrderInv, PasswordIsUp
  <2>13. QED
    BY <2>5, <2>6, <2>7, <2>8, <2>9, <2>11, <2>12 DEF OrderInv
<1>8. QED
  BY <1>6, <1>7

\* The steps that neither write nor change the secrets.
LEMMA ReturnKeepsOrder ==
  ASSUME LockerInv, OrderInv, NEW w \in Windows, Turn(w), Return(w),
         UNCHANGED <<disk, secrets>>, unlocked' = unlocked, LeaveHistory,
         calls[w].pc \notin {"idle", "auth", "reset-seed", "save-write", "save-select"}
  PROVE  OrderInv'
<1>1. OnlyCall(w) /\ Shifted(Idle) /\ calls'[w] = Idle
  BY ReturnMoves
<1>2. Idle.pc = "idle" /\ Idle.op = "none" /\ calls[w].op # "none" /\ unlocked' \in BOOLEAN
  BY PcOfOnboarding DEF Idle, NewCall, LockerInv, LockerTypeOK
<1>3. QED
  BY <1>1, <1>2, QuietKeepsOrder

LEMMA AwaitKeepsOrder ==
  ASSUME LockerInv, OrderInv, NEW w \in Windows, NEW pc \in Pcs, Turn(w), Await(w, pc),
         UNCHANGED <<disk, unlocked, secrets>>, LeaveHistory, calls[w].op \in Onboarding,
         \/ calls[w].pc = "setup-step" /\ pc = "status"
         \/ calls[w].pc = "gen-accounts" /\ pc = "gen-seed"
         \/ calls[w].pc = "save-write" /\ pc = "save-select"
  PROVE  OrderInv'
<1>1. disk' \in Disk /\ unlocked' \in BOOLEAN
  BY DEF LockerInv, LockerTypeOK
<1>2. /\ OnlyCall(w) /\ Shifted(calls'[w]) /\ calls'[w].pc = pc /\ calls'[w].op = calls[w].op
      /\ calls'[w].password = calls[w].password
  BY <1>1, AwaitMoves
<1>3. calls[w].op \notin {"none", "resetPassword"}
  BY DEF Onboarding
<1>4. UNCHANGED <<disk, secrets>> /\ unlocked' = unlocked
  OBVIOUS
<1>5. QED
  BY <1>1, <1>2, <1>3, <1>4, QuietKeepsOrder

LEMMA OtherStepsKeepOrder ==
  ASSUME LockerInv, OrderInv, NEW w \in Windows,
         \/ UnlockSucceeds(w) \/ LockNotified(w) \/ SetupPasswordUnlock(w)
         \/ SetupPasswordRefused(w) \/ ResetPasswordRefused(w) \/ GenerateMnemonicRefused(w) \/ GenerateMnemonicLookup(w)
         \/ GenerateMnemonicAgain(w) \/ GenerateMnemonicDone(w) \/ SaveMnemonicRefused(w)
         \/ SaveMnemonicRead(w) \/ SaveMnemonicSelect(w) \/ SaveMnemonicDone(w)
  PROVE  OrderInv'
<1>1. calls[w] \in Call /\ calls \in [Windows -> Call] /\ (calls[w].pc # "idle" => calls[w].op # "none")
  BY PcOfOnboarding DEF LockerInv, LockerTypeOK
<1>2. /\ calls[w].pc \in SetupPcs => calls[w].op = "setupPassword"
      /\ calls[w].pc \in GenPcs => calls[w].op = "generateMnemonic"
      /\ calls[w].pc \in SavePcs => calls[w].op = "saveMnemonic"
  BY DEF LockerInv, PcFollowsOp
<1>3. CASE UnlockSucceeds(w)
  <2>1. /\ Turn(w) /\ IsAuthentic(w) /\ unlocked' /\ disk' = disk /\ secrets' = secrets
        /\ LeaveHistory /\ calls[w].pc = "auth" /\ calls' = [calls EXCEPT ![w].pc = "unlocked"]
        /\ replies' \in {Tail(replies), Append(Tail(replies), Reply(Background))}
    BY <1>3 DEF UnlockSucceeds, Resumed
  <2>2. /\ OnlyCall(w) /\ calls'[w].pc = "unlocked" /\ calls'[w].op = calls[w].op
        /\ calls'[w].password = calls[w].password
    BY <1>1, <2>1 DEF OnlyCall, Call, Pcs
  <2>3. disk' \in Disk /\ unlocked' \in BOOLEAN
    BY <1>3 DEF UnlockSucceeds, LockerInv, LockerTypeOK
  <2>4. Shifted(Idle)
    BY <2>1, <2>2, <2>3, ReturnShifts, RequestShifts
  <2>5. Idle.pc = "idle"
    BY DEF Idle, NewCall
  <2>6. UNCHANGED <<disk, secrets>>
    BY <2>1
  <2>7. QED
    BY <1>1, <2>1, <2>2, <2>3, <2>4, <2>5, <2>6, QuietKeepsOrder DEF PastCheck
<1>4. CASE LockNotified(w)
  <2>1. /\ Turn(w) /\ unlocked' = unlocked /\ disk' = disk /\ secrets' = secrets
        /\ LeaveHistory /\ calls[w].pc = "notify" /\ calls' = [calls EXCEPT ![w].pc = "locked"]
        /\ replies' = Tail(replies)
    BY <1>4 DEF LockNotified, Resumed
  <2>2. /\ OnlyCall(w) /\ calls'[w].pc = "locked" /\ calls'[w].op = calls[w].op
        /\ calls'[w].password = calls[w].password
    BY <1>1, <2>1 DEF OnlyCall, Call, Pcs
  <2>3. Shifted(Idle) /\ Idle.pc = "idle" /\ unlocked' \in BOOLEAN
    BY <2>1, <2>2, ReturnShifts DEF Idle, NewCall, LockerInv, LockerTypeOK
  <2>4. calls[w].op # "resetPassword"
    BY <2>1 DEF OrderInv, ResetsHaveAccounts, PastCheck
  <2>5. UNCHANGED <<disk, secrets>>
    BY <2>1
  <2>6. QED
    BY <1>1, <2>1, <2>2, <2>3, <2>4, <2>5, QuietKeepsOrder
<1>5. CASE SaveMnemonicRead(w)
  <2>1. /\ Turn(w) /\ unlocked' = unlocked /\ disk' = disk /\ secrets' = secrets
        /\ LeaveHistory /\ calls[w].pc = "save-seed"
        /\ calls' = [calls EXCEPT ![w].pc = "save-accounts", ![w].mnemonic = Got.seed.mnemonic]
        /\ replies' = Append(Tail(replies), Reply(w))
    BY <1>5 DEF SaveMnemonicRead, Resumed
  <2>2. PICK call \in Call :
          call = [calls[w] EXCEPT !.pc = "save-accounts", !.mnemonic = Got.seed.mnemonic]
    BY <1>1, <2>1, GotFacts DEF Call, Pcs, Disk
  <2>3. /\ call.pc = "save-accounts" /\ call.op = calls[w].op
        /\ call.password = calls[w].password
    BY <1>1, <2>2 DEF Call
  <2>4. calls' = [calls EXCEPT ![w] = call]
    BY <1>1, <2>1, <2>2 DEF Call
  <2>5. OnlyCall(w) /\ calls'[w] = call /\ calls[w].op = "saveMnemonic"
    BY <1>1, <1>2, <2>1, <2>4 DEF OnlyCall, SavePcs
  <2>6. Shifted(call) /\ unlocked' \in BOOLEAN
    BY <2>1, <2>5, AwaitShifts DEF LockerInv, LockerTypeOK
  <2>7. UNCHANGED <<disk, secrets>>
    BY <2>1
  <2>8. QED
    BY <2>1, <2>3, <2>5, <2>6, <2>7, QuietKeepsOrder
<1>6. CASE SetupPasswordUnlock(w)
  BY <1>2, <1>6, AwaitKeepsOrder DEF SetupPasswordUnlock, Resumed, Pcs, SetupPcs, Onboarding
<1>7. CASE GenerateMnemonicLookup(w)
  BY <1>2, <1>7, AwaitKeepsOrder DEF GenerateMnemonicLookup, Resumed, Pcs, GenPcs, Onboarding
<1>8. CASE SaveMnemonicSelect(w)
  BY <1>2, <1>8, AwaitKeepsOrder DEF SaveMnemonicSelect, Resumed, Pcs, SavePcs, Onboarding
<1>9. CASE ResetPasswordRefused(w)
  BY <1>9, ReturnKeepsOrder DEF ResetPasswordRefused, Resumed
<1>10. CASE GenerateMnemonicRefused(w)
  BY <1>10, ReturnKeepsOrder DEF GenerateMnemonicRefused, Resumed
<1>11. CASE GenerateMnemonicAgain(w)
  BY <1>11, ReturnKeepsOrder DEF GenerateMnemonicAgain, Resumed
<1>12. CASE GenerateMnemonicDone(w)
  BY <1>12, ReturnKeepsOrder DEF GenerateMnemonicDone, Resumed
<1>13. CASE SaveMnemonicRefused(w)
  BY <1>13, ReturnKeepsOrder DEF SaveMnemonicRefused, Resumed
<1>14. CASE SaveMnemonicDone(w)
  BY <1>14, ReturnKeepsOrder DEF SaveMnemonicDone, Resumed
<1>15. CASE SetupPasswordRefused(w)
  BY <1>15, ReturnKeepsOrder DEF SetupPasswordRefused, Resumed
<1>16. QED
  BY <1>3, <1>4, <1>5, <1>6, <1>7, <1>8, <1>9, <1>10, <1>11, <1>12, <1>13, <1>14, <1>15

LEMMA StepsKeepOrder ==
  ASSUME LockerInv, OrderInv, NEW w \in Windows, LockerStep(w)
  PROVE  OrderInv'
  BY UnlockKeepsOrder, SetupPasswordKeepsOrder, ResetPasswordKeepsOrder,
     GenerateMnemonicKeepsOrder, SaveMnemonicKeepsOrder, OtherStepsKeepOrder DEF LockerStep

\* Nobody waits for the mnemonic that unlock has asked for.
LEMMA MnemonicLoadedKeepsOrder ==
  ASSUME LockerInv, OrderInv, MnemonicLoaded
  PROVE  OrderInv'
<1>1. /\ Turn(Background) /\ replies' = Tail(replies) /\ disk' = disk /\ calls' = calls
      /\ unlocked' = unlocked /\ interrupted' = interrupted
      /\ secrets' \in {secrets, [secrets EXCEPT !.mnemonic = Got.seed.mnemonic]}
  BY DEF MnemonicLoaded, LeaveHistory
<1>2. /\ replies # <<>> /\ Len(replies) \in Nat \ {0} /\ replies[1].to = Background
      /\ Got = replies[1].disk /\ replies \in Seq(Replies)
  BY <1>1, TurnFacts DEF LockerInv, LockerTypeOK, Replies
<1>3. Got.seed.mnemonic = disk.accounts
  BY <1>2 DEF LockerInv, RepliesAreFresh
<1>4. secrets'.password = secrets.password /\ secrets'.mnemonic \in {secrets.mnemonic, disk.accounts}
  BY <1>1, <1>3 DEF LockerInv, LockerTypeOK
<1>5. Idle.pc = "idle" /\ Idle.op = "none"
  BY DEF Idle, NewCall
<1>6. Waiter(1).pc = "idle"
  BY <1>2, <1>5, ConstantsAssumption DEF Waiter
<1>7. Shifted(Idle)
  <2>1. /\ Len(replies') = Len(replies) - 1
        /\ \A i \in 1..Len(replies) - 1 : replies'[i] = replies[i + 1]
    BY <1>1, <1>2, TailFacts
  <2>2. Len(replies') # Len(replies)
    BY <1>2, <2>1, LessByOne, Zenon
  <2>3. QED
    BY <1>1, <1>2, <2>1, <2>2 DEF Shifted, Waiter
<1>8. PasswordsAreTyped' /\ NewIsEmpty' /\ ResetsHaveAccounts'
  BY <1>1 DEF OrderInv, PasswordsAreTyped, NewIsEmpty, ResetsHaveAccounts
<1>9. LastAuthIsKept'
  BY <1>1, <1>4, <1>5, <1>6, <1>7, ShiftAuth DEF OrderInv
<1>10. ChecksComeFirst'
  BY <1>1, <1>5, <1>7, ShiftChecks DEF OrderInv
<1>11. SavesComeFirst'
  BY <1>5, <1>7, ShiftSaves DEF OrderInv
<1>12. SavedIsInMemory'
  <2>1. \A i \in Places : Saving(i) => secrets'.mnemonic = secrets.mnemonic
    BY <1>4 DEF OrderInv, SavedIsInMemory
  <2>2. QED
    BY <1>1, <1>5, <1>7, <2>1, ShiftSaved DEF OrderInv
<1>13. StepIsComing'
  BY <1>1, <1>5, <1>6, <1>7, ShiftStep DEF OrderInv, Saving
<1>14. LastSeedIsTyped'
  BY <1>1, <1>5, <1>7, ShiftSeed DEF OrderInv
<1>15. CheckerIsComing'
  BY <1>1, <1>6, <1>7, ShiftChecker DEF OrderInv
<1>16. SetupsKnow'
  BY <1>1, <1>5, <1>7, ShiftSetups DEF OrderInv
<1>17. QED
  BY <1>8, <1>9, <1>10, <1>11, <1>12, <1>13, <1>14, <1>15, <1>16 DEF OrderInv

\* An answered call waits for no reply; a reset that is answered has written both items.
LEMMA AnswerKeepsOrder ==
  ASSUME LockerInv, OrderInv, NEW w \in Windows, Answer(w)
  PROVE  OrderInv'
<1>1. /\ replies' = replies /\ disk' = disk /\ secrets' = secrets /\ unlocked' = unlocked
      /\ calls[w].pc \in {"unlocked", "locked"} /\ calls'[w] = Idle /\ OnlyCall(w)
  BY IdleType DEF Answer, OnlyCall, LockerInv, LockerTypeOK
<1>2. Idle.pc = "idle" /\ Idle.op = "none"
  BY DEF Idle, NewCall
<1>3. \A i \in 1..Len(replies) : replies[i].to # w
  BY <1>1, IdleGetsNone DEF LockerInv, Resting
<1>4. Places' = Places /\ \A i \in Places : Waiter(i)' = Waiter(i) /\ (Saving(i)' <=> Saving(i))
  BY <1>1, <1>3 DEF Places, Waiter, OnlyCall, Saving
<1>5. disk.checker # None
  BY <1>1, BusyHasChecker
<1>6. PasswordsAreTyped' /\ NewIsEmpty' /\ ResetsHaveAccounts'
  BY <1>1, <1>2, <1>5
  DEF OrderInv, PasswordsAreTyped, NewIsEmpty, ResetsHaveAccounts, OnlyCall, PastCheck
<1>7. \A i \in Places : \A j \in i+1..Len(replies) : Waiter(j)' = Waiter(j)
  BY <1>4 DEF Places
<1>8. LastAuthIsKept'
  BY <1>1, <1>4, <1>7 DEF OrderInv, LastAuthIsKept
<1>9. ChecksComeFirst'
  BY <1>1, <1>4 DEF OrderInv, ChecksComeFirst
<1>10. SavesComeFirst'
  BY <1>1, <1>4 DEF OrderInv, SavesComeFirst
<1>11. SavedIsInMemory'
  BY <1>1, <1>4 DEF OrderInv, SavedIsInMemory
<1>12. "saveMnemonic" \in interrupted => "saveMnemonic" \in interrupted'
  BY DEF Answer
<1>13. StepIsComing'
  BY <1>1, <1>4, <1>12 DEF OrderInv, StepIsComing
<1>14. LastSeedIsTyped'
  BY <1>1, <1>4, <1>7 DEF OrderInv, LastSeedIsTyped
<1>15. CheckerIsComing'
  <2>1. CASE calls[w].op = "resetPassword"
    <3>1. calls[w].pc \in PastCheck
      BY <1>1, <2>1 DEF OrderInv, ResetsHaveAccounts
    <3>2. QED
      BY <1>1, <1>4, <2>1, <3>1 DEF OrderInv, CheckerIsComing
  <2>2. CASE calls[w].op # "resetPassword"
    <3>1. interrupted' = interrupted
      BY <2>2 DEF Answer
    <3>2. QED
      BY <1>1, <1>2, <1>4, <3>1 DEF OrderInv, CheckerIsComing, OnlyCall
  <2>3. QED
    BY <2>1, <2>2
<1>16. SetupsKnow'
  BY <1>1, <1>4 DEF OrderInv, SetupsKnow
<1>17. QED
  BY <1>6, <1>8, <1>9, <1>10, <1>11, <1>13, <1>14, <1>15, <1>16 DEF OrderInv

\* A restart between two writes is remembered.
LEMMA RestartKeepsOrder ==
  ASSUME LockerInv, OrderInv, Restart
  PROVE  OrderInv'
<1>1. /\ replies' = <<>> /\ disk' = disk /\ secrets' = Cleared /\ ~unlocked'
      /\ calls' = [v \in Windows |-> Idle]
      /\ interrupted' = interrupted \cup ({calls[v].op : v \in Windows} \ {"none"})
  BY DEF Restart
<1>2. Idle.pc = "idle" /\ Idle.op = "none"
  BY DEF Idle, NewCall
<1>3. Len(replies') = 0 /\ Places' = {}
  BY <1>1 DEF Places
<1>4. PasswordsAreTyped' /\ NewIsEmpty' /\ ResetsHaveAccounts'
  BY <1>1, <1>2 DEF OrderInv, PasswordsAreTyped, NewIsEmpty, ResetsHaveAccounts
<1>5. LastAuthIsKept' /\ ChecksComeFirst' /\ SavesComeFirst' /\ SavedIsInMemory' /\ LastSeedIsTyped'
  BY <1>1, <1>3
  DEF LastAuthIsKept, ChecksComeFirst, SavesComeFirst, SavedIsInMemory, LastSeedIsTyped, Cleared
<1>6. StepIsComing'
  <2>1. ASSUME NEW i \in Places, Saving(i)
        PROVE  "saveMnemonic" \in interrupted'
    <3>1. PICK v \in Windows : Waiter(i) = calls[v]
      BY <2>1, WaiterFacts DEF Saving
    <3>2. calls[v].op = "saveMnemonic"
      BY <2>1, <3>1 DEF Saving, LockerInv, PcFollowsOp, SavePcs
    <3>3. QED
      BY <1>1, <3>2
  <2>2. QED
    BY <1>1, <2>1 DEF OrderInv, StepIsComing
<1>7. CheckerIsComing'
  <2>1. ASSUME NEW i \in Places, Waiter(i).pc = "reset-seed"
        PROVE  "resetPassword" \in interrupted'
    <3>1. PICK v \in Windows : Waiter(i) = calls[v]
      BY <2>1, WaiterFacts
    <3>2. calls[v].op = "resetPassword"
      BY <2>1, <3>1 DEF OrderInv, ResetsHaveAccounts
    <3>3. QED
      BY <1>1, <3>2
  <2>2. \A v \in Windows : calls'[v].op # "resetPassword"
    BY <1>1, <1>2
  <2>3. QED
    BY <1>1, <2>1, <2>2 DEF OrderInv, CheckerIsComing
<1>8. SetupsKnow'
  BY <1>3 DEF SetupsKnow
<1>9. QED
  BY <1>4, <1>5, <1>6, <1>7, <1>8 DEF OrderInv

-----------------------------------------------------------------------------
(* The theorems *)

LEMMA InitHasOrder == LockerInit => OrderInv
<1> SUFFICES ASSUME LockerInit
             PROVE  OrderInv
  OBVIOUS
<1>1. /\ replies = <<>> /\ Len(replies) = 0 /\ secrets = Cleared /\ ~unlocked
      /\ calls = [v \in Windows |-> Idle] /\ disk.seed = Cleared /\ disk.accounts = None
      /\ disk.step = "new"
  BY DEF LockerInit
<1>2. Idle.pc = "idle" /\ Idle.op = "none" /\ Places = {}
  BY <1>1 DEF Idle, NewCall, Places
<1>3. PasswordsAreTyped /\ NewIsEmpty /\ ResetsHaveAccounts
  BY <1>1, <1>2 DEF PasswordsAreTyped, NewIsEmpty, ResetsHaveAccounts
<1>4. LastAuthIsKept /\ ChecksComeFirst /\ SavesComeFirst /\ SavedIsInMemory /\ LastSeedIsTyped
  BY <1>1, <1>2
  DEF LastAuthIsKept, ChecksComeFirst, SavesComeFirst, SavedIsInMemory, LastSeedIsTyped, Cleared
<1>5. StepIsComing /\ CheckerIsComing
  BY <1>1 DEF StepIsComing, CheckerIsComing
<1>6. SetupsKnow
  BY <1>2 DEF SetupsKnow
<1>7. QED
  BY <1>3, <1>4, <1>5, <1>6 DEF OrderInv

LEMMA NextKeepsOrder == LockerInv /\ OrderInv /\ [LockerNext]_lockerVars => OrderInv'
<1> SUFFICES ASSUME LockerInv, OrderInv, [LockerNext]_lockerVars
             PROVE  OrderInv'
  OBVIOUS
<1>1. CASE LockerNext
  BY <1>1, CallsKeepOrder, StepsKeepOrder, AnswerKeepsOrder, MnemonicLoadedKeepsOrder,
     RestartKeepsOrder DEF LockerNext
<1>2. CASE UNCHANGED lockerVars
  BY <1>2 DEF lockerVars, OrderInv, PasswordsAreTyped, NewIsEmpty, ResetsHaveAccounts,
     PastCheck, LastAuthIsKept, ChecksComeFirst, SetupsKnow, PasswordIsUp, SavesComeFirst,
     SavedIsInMemory, StepIsComing, LastSeedIsTyped, CheckerIsComing, Saving, Places, Waiter
<1>3. QED
  BY <1>1, <1>2

\* Until two calls of the onboarding overlap, and whatever else the windows ask for at the
\* same time, the order of the replies keeps the two writes of a reset, and the two of the
\* end of the onboarding, from being mixed with those of another call.
THEOREM OrderIsKept == LockerSpec => [](overlapped \/ (LockerInv /\ OrderInv))
<1>1. /\ overlapped \/ (LockerInv /\ OrderInv)
      /\ [LockerNext]_lockerVars
      => (overlapped \/ (LockerInv /\ OrderInv))'
  BY NextKeepsInv, NextKeepsOrder, OverlapsStay
<1>2. QED
  BY <1>1, InitHasInv, InitHasOrder, PTL DEF LockerSpec

\* The password that opens the lock is the one the stored mnemonic is encrypted under,
\* however many resets run at once, but for a reset that is going on or was cut short;
\* proved for a wallet whose onboarding calls have not overlapped.
THEOREM PasswordsStayPaired == LockerSpec => [](overlapped \/ PasswordPairAgrees)
<1>1. OrderInv => PasswordPairAgrees
  <2> SUFFICES ASSUME OrderInv, ~InFlight("resetPassword"), "resetPassword" \notin interrupted
               PROVE  disk.seed = Cleared \/ disk.seed.password = disk.checker
    BY DEF PasswordPairAgrees
  <2>1. \A i \in Places : Waiter(i).pc # "reset-seed"
    BY WaiterFacts DEF OrderInv, ResetsHaveAccounts, InFlight
  <2>2. QED
    BY <2>1 DEF OrderInv, CheckerIsComing
<1>2. QED
  BY <1>1, OrderIsKept, PTL

\* The onboarding is recorded as finished when the accounts are stored, and only then, but
\* for a saveMnemonic that is going on, was cut short, or overlapped with another call.
THEOREM StepsFollowAccounts == LockerSpec => []StepFollowsAccounts
<1>1. LockerInv /\ OrderInv => StepShowsAccounts
  <2> SUFFICES ASSUME LockerInv, OrderInv,
                      ~InFlight("saveMnemonic"), "saveMnemonic" \notin interrupted
               PROVE  disk.accounts # None <=> disk.step = "mnemonic"
    BY DEF StepShowsAccounts
  <2>1. ASSUME NEW i \in Places, Saving(i)
        PROVE  FALSE
    <3>1. PICK v \in Windows : Waiter(i) = calls[v]
      BY <2>1, WaiterFacts DEF Saving
    <3>2. calls[v].op = "saveMnemonic"
      BY <2>1, <3>1 DEF Saving, LockerInv, PcFollowsOp, SavePcs
    <3>3. QED
      BY <3>2 DEF InFlight
  <2>2. QED
    BY <2>1 DEF OrderInv, StepIsComing, LockerInv, FinishedHasAccounts
<1>2. overlapped \/ (LockerInv /\ OrderInv) => StepFollowsAccounts
  BY <1>1 DEF StepFollowsAccounts
<1>3. QED
  BY <1>2, OrderIsKept, PTL

-----------------------------------------------------------------------------
(* One window: no handler resumes between the two steps of another. *)

\* The queue holds the reply of the window and before it at most that of the mnemonic.
QueueIsFresh ==
  \A i \in Places : replies[i].disk = disk /\ (i > 1 => replies[i].to \in Windows)

\* An open wallet holds the password of its lock, also while it is unlocked again.
PasswordIsKept ==
  /\ unlocked => secrets.password = disk.checker
  /\ \A w \in Windows :
       /\ calls[w].pc = "auth" => /\ secrets.password = calls[w].password
                                  /\ calls[w].generated <=> disk.step = "mnemonic"
       /\ unlocked /\ calls[w].pc \in {"status", "auth"} => calls[w].password = disk.checker
       /\ calls[w].pc \in {"setup-check", "setup-write", "setup-step"} => ~unlocked

\* No reset was cut short, or one that repairs it is over.
Repaired(w) ==
  "resetPassword" \notin interrupted \/ (calls[w].op = "resetPassword" /\ calls[w].pc = "unlocked")

\* An open wallet holds its mnemonic, or has asked for it and can decrypt it.
MnemonicIsKept ==
  \A w \in Windows :
    unlocked /\ disk.step = "mnemonic" /\ Repaired(w) /\ calls[w].pc \notin {"status", "auth"} =>
      \/ secrets.mnemonic = disk.seed.mnemonic
      \/ /\ replies # <<>> /\ Head(replies).to = Background
         /\ disk.seed.password = disk.checker

KeysInv == QueueIsFresh /\ PasswordIsKept /\ MnemonicIsKept

LEMMA SecondPlace == \A n \in Nat \ {0} : n # 1 => 2 \in 1..n /\ 2 \in 2..n
  OBVIOUS

LEMMA OneReplaced ==
  ASSUME NEW S, NEW q \in Seq(S), Len(q) = 1, NEW e \in S
  PROVE  /\ Append(Tail(q), e) \in Seq(S) /\ Append(Tail(q), e) # <<>>
         /\ Len(Append(Tail(q), e)) = 1
         /\ Append(Tail(q), e)[1] = e /\ Head(Append(Tail(q), e)) = e
<1> DEFINE t == Tail(q)
<1>1. q # <<>> /\ t \in Seq(S) /\ Len(t) = 0
  OBVIOUS
<1> HIDE DEF t
<1>2. /\ Append(t, e) \in Seq(S) /\ Len(Append(t, e)) = Len(t) + 1
      /\ Append(t, e)[Len(t) + 1] = e
  BY <1>1, AppendFacts
<1>3. Len(t) + 1 = 1
  BY <1>1
<1>4. Len(Append(t, e)) = 1 /\ Append(t, e)[1] = e
  BY <1>2, <1>3
<1>5. Append(t, e) # <<>>
  <2>1. Len(<<>>) # 1
    OBVIOUS
  <2>2. QED
    BY <1>4, <2>1, Zenon
<1>6. Head(Append(t, e)) = e
  BY <1>2, <1>4, <1>5, TailFacts
<1>7. QED
  BY <1>2, <1>4, <1>5, <1>6 DEF t

\* The window has its turn when nothing else is in the queue.
LEMMA WindowTurn ==
  ASSUME LockerInv, KeysInv, NEW w \in Windows, Windows = {w}, Turn(w)
  PROVE  /\ Len(replies) = 1 /\ Got = disk /\ Head(replies).to # Background
         /\ Places = {1} /\ Waiter(1) = calls[w]
<1>1. /\ Len(replies) \in Nat \ {0} /\ 1 \in Places /\ replies[1].disk = Got
      /\ \A i \in 2..Len(replies) : replies[i].to # w
      /\ Waiter(1) = calls[w]
  BY HeadFacts
<1>2. Len(replies) = 1
  <2> SUFFICES ASSUME Len(replies) # 1
               PROVE  FALSE
    OBVIOUS
  <2>1. 2 \in Places /\ 2 \in 2..Len(replies)
    BY <1>1, SecondPlace DEF Places
  <2>2. QED
    BY <1>1, <2>1 DEF KeysInv, QueueIsFresh
<1>3. Got = disk
  BY <1>1 DEF KeysInv, QueueIsFresh
<1>4. QED
  BY <1>1, <1>2, <1>3, ConstantsAssumption DEF Turn, Places

LEMMA StepsKeepQueue ==
  ASSUME LockerInv, KeysInv, NEW w \in Windows, Windows = {w}, Turn(w), disk' \in Disk,
         \/ replies' = Tail(replies) /\ disk' = disk
         \/ replies' = Append(Tail(replies), Reply(w))
         \/ replies' = Append(Tail(replies), Reply(Background))
  PROVE  QueueIsFresh'
<1>1. Len(replies) = 1 /\ replies # <<>> /\ replies \in Seq(Replies)
  BY WindowTurn, HeadFacts
<1>2. CASE replies' = Tail(replies) /\ disk' = disk
  BY <1>1, <1>2, TailFacts DEF QueueIsFresh, Places
<1>3. ASSUME NEW to \in Windows \cup {Background}, replies' = Append(Tail(replies), Reply(to))
      PROVE  QueueIsFresh'
  <2>1. Reply(to) = [to |-> to, disk |-> disk'] /\ Reply(to) \in Replies
    BY DEF Reply, Replies
  <2>2. Len(replies') = 1 /\ replies'[1] = Reply(to)
    BY <1>1, <1>3, <2>1, OneReplaced
  <2>3. QED
    BY <2>1, <2>2 DEF QueueIsFresh, Places
<1>4. QED
  BY <1>2, <1>3

\* What an open wallet holds while no password is checked.
LEMMA HeldAtTurn ==
  ASSUME LockerInv, KeysInv, NEW w \in Windows, Windows = {w}, Turn(w),
         unlocked, disk.step = "mnemonic", Repaired(w), calls[w].pc \notin {"status", "auth"}
  PROVE  secrets.mnemonic = disk.seed.mnemonic
  BY WindowTurn DEF KeysInv, MnemonicIsKept

\* A handler that changes nothing, or nothing while the wallet is open.
LEMMA SteadyKeepsKeys ==
  ASSUME LockerInv, OrderInv, KeysInv, NEW w \in Windows, Windows = {w}, Turn(w), OnlyCall(w),
         QueueIsFresh', unlocked' = unlocked, interrupted' = interrupted,
         calls'[w].pc \notin {"auth", "unlocked"},
         calls[w].pc \notin {"status", "auth", "reset-seed"},
         calls'[w].pc \in {"setup-check", "setup-write", "setup-step", "status"} =>
            calls[w].pc \in {"setup-check", "setup-write", "setup-step"},
         unlocked => /\ disk'.checker = disk.checker /\ secrets'.password = secrets.password
                     /\ disk'.step = "mnemonic" => \/ secrets'.mnemonic = disk'.seed.mnemonic
                                                   \/ /\ disk.step = "mnemonic"
                                                      /\ secrets'.mnemonic = secrets.mnemonic
                                                      /\ disk'.seed.mnemonic = disk.seed.mnemonic
  PROVE  KeysInv'
<1>1. PasswordIsKept'
  BY DEF KeysInv, PasswordIsKept, OnlyCall
<1>2. MnemonicIsKept'
  <2> SUFFICES ASSUME unlocked, disk'.step = "mnemonic", Repaired(w)'
               PROVE  secrets'.mnemonic = disk'.seed.mnemonic
    BY DEF MnemonicIsKept
  <2>1. Repaired(w)
    BY DEF Repaired
  <2>2. QED
    BY <2>1, HeldAtTurn
<1>3. QED
  BY <1>1, <1>2 DEF KeysInv

LEMMA UnlockKeepsKeys ==
  ASSUME LockerInv, OrderInv, KeysInv, NEW w \in Windows, Windows = {w},
         UnlockStatus(w) \/ UnlockSucceeds(w) \/ UnlockFails(w)
  PROVE  KeysInv'
<1>1. /\ Turn(w) /\ disk' = disk /\ interrupted' = interrupted /\ disk' \in Disk
  BY DEF UnlockStatus, UnlockSucceeds, UnlockFails, Resumed, LeaveHistory, LockerInv,
     LockerTypeOK
<1>2. /\ Len(replies) = 1 /\ Got = disk /\ replies # <<>> /\ replies \in Seq(Replies)
      /\ Places = {1} /\ Waiter(1) = calls[w]
  BY <1>1, WindowTurn, HeadFacts
<1>3. CASE UnlockStatus(w)
  <2>1. /\ calls[w].pc = "status" /\ unlocked' = unlocked
        /\ secrets' = [secrets EXCEPT !.password = calls[w].password]
        /\ calls' = [calls EXCEPT ![w].pc = "auth", ![w].generated = Got.step = "mnemonic"]
        /\ replies' = Append(Tail(replies), Reply(w))
    BY <1>3 DEF UnlockStatus, Resumed
  <2>2. QueueIsFresh'
    BY <1>1, <2>1, StepsKeepQueue
  <2>3. calls[w] \in Call /\ calls \in [Windows -> Call]
    BY PcOfOnboarding DEF LockerInv, LockerTypeOK
  <2>4. /\ calls'[w].pc = "auth" /\ calls'[w].generated = (disk.step = "mnemonic")
        /\ calls'[w].password = calls[w].password
    BY <1>2, <2>1, <2>3 DEF Call
  <2>5. secrets'.password = calls[w].password
    BY <2>1 DEF LockerInv, LockerTypeOK
  <2>6. PasswordIsKept'
    BY <1>1, <2>1, <2>4, <2>5 DEF KeysInv, PasswordIsKept
  <2>7. MnemonicIsKept'
    BY <2>4 DEF MnemonicIsKept
  <2>8. QED
    BY <2>2, <2>6, <2>7 DEF KeysInv
<1>4. CASE UnlockSucceeds(w)
  <2>1. /\ calls[w].pc = "auth" /\ calls[w].password = disk.checker /\ unlocked'
        /\ secrets' = secrets /\ calls' = [calls EXCEPT ![w].pc = "unlocked"]
        /\ replies' = IF calls[w].generated THEN Append(Tail(replies), Reply(Background))
                                            ELSE Tail(replies)
    BY <1>2, <1>4 DEF UnlockSucceeds, Resumed, IsAuthentic
  <2>2. QueueIsFresh'
    BY <1>1, <2>1, StepsKeepQueue
  <2>3. calls'[w].pc = "unlocked" /\ calls'[w].op = calls[w].op
    BY <2>1, PcOfOnboarding DEF LockerInv, LockerTypeOK, Call
  <2>4. PasswordIsKept'
    BY <1>1, <2>1, <2>3 DEF KeysInv, PasswordIsKept
  <2>5. MnemonicIsKept'
    <3> SUFFICES ASSUME disk.step = "mnemonic", Repaired(w)'
                 PROVE  /\ replies' # <<>> /\ Head(replies').to = Background
                        /\ disk.seed.password = disk.checker
      BY <1>1 DEF MnemonicIsKept
    <3>1. replies' = Append(Tail(replies), Reply(Background))
      BY <2>1 DEF KeysInv, PasswordIsKept
    <3>2. Reply(Background) = [to |-> Background, disk |-> disk'] /\ Reply(Background) \in Replies
      BY <1>1 DEF Reply, Replies
    <3>3. replies' # <<>> /\ Head(replies') = Reply(Background)
      BY <1>2, <3>1, <3>2, OneReplaced
    <3>4. replies' # <<>> /\ Head(replies').to = Background
      BY <3>2, <3>3
    <3>5. disk.seed # Cleared
      BY DEF LockerInv, FinishedHasAccounts, OneSeed, Cleared
    <3>6. \A i \in Places : Waiter(i).pc # "reset-seed"
      BY <1>2, <2>1
    <3>7. "resetPassword" \in interrupted => calls[w].op = "resetPassword" /\ calls[w].pc \in PastCheck
      BY <1>1, <2>1, <2>3 DEF Repaired, PastCheck
    <3>8. QED
      BY <3>4, <3>5, <3>6, <3>7 DEF OrderInv, CheckerIsComing
  <2>6. QED
    BY <2>2, <2>4, <2>5 DEF KeysInv
<1>5. CASE UnlockFails(w)
  <2>1. calls[w].pc = "auth" /\ calls[w].password # disk.checker /\ unlocked' = unlocked /\ Return(w)
    BY <1>2, <1>5 DEF UnlockFails, Resumed, IsAuthentic
  <2>2. ~unlocked
    BY <2>1 DEF KeysInv, PasswordIsKept
  <2>3. calls'[w] = Idle
    BY <1>1, <2>1, ReturnMoves
  <2>4. QueueIsFresh'
    BY <1>1, <2>1, StepsKeepQueue DEF Return
  <2>5. PasswordIsKept' /\ MnemonicIsKept'
    BY <2>1, <2>2, <2>3 DEF PasswordIsKept, MnemonicIsKept, Idle, NewCall
  <2>6. QED
    BY <2>4, <2>5 DEF KeysInv
<1>6. QED
  BY <1>3, <1>4, <1>5

\* How a handler that is resumed leaves the queue.
LEMMA TurnKeepsQueue ==
  ASSUME LockerInv, KeysInv, NEW w \in Windows, Windows = {w}, Turn(w), disk' \in Disk,
         \/ Return(w) /\ disk' = disk
         \/ \E pc \in Pcs : Await(w, pc)
  PROVE  QueueIsFresh'
  BY StepsKeepQueue DEF Return, Await

LEMMA ReturnKeepsKeys ==
  ASSUME LockerInv, OrderInv, KeysInv, NEW w \in Windows, Windows = {w}, Turn(w), Return(w),
         UNCHANGED <<disk, unlocked, secrets>>, LeaveHistory,
         calls[w].pc \notin {"status", "auth", "reset-seed"}
  PROVE  KeysInv'
<1>1. OnlyCall(w) /\ calls'[w].pc = "idle"
  BY ReturnMoves DEF Idle, NewCall
<1>2. disk' = disk /\ secrets' = secrets /\ unlocked' = unlocked /\ interrupted' = interrupted
  BY DEF LeaveHistory
<1>3. QueueIsFresh'
  BY <1>2, TurnKeepsQueue DEF LockerInv, LockerTypeOK
<1>4. QED
  BY <1>1, <1>2, <1>3, SteadyKeepsKeys

\* The handlers of an onboarding that is not over: there is no mnemonic to keep.
LEMMA AwaitKeepsKeys ==
  ASSUME LockerInv, OrderInv, KeysInv, NEW w \in Windows, Windows = {w}, NEW pc \in Pcs,
         Turn(w), Await(w, pc), unlocked' = unlocked, LeaveHistory, disk' \in Disk,
         pc \notin {"auth", "unlocked"},
         calls[w].pc \notin {"status", "auth", "reset-seed"},
         pc \in {"setup-check", "setup-write", "setup-step", "status"} =>
            calls[w].pc \in {"setup-check", "setup-write", "setup-step"},
         unlocked => /\ disk'.checker = disk.checker /\ secrets'.password = secrets.password
                     /\ disk'.step = "mnemonic" => \/ secrets'.mnemonic = disk'.seed.mnemonic
                                                   \/ /\ disk.step = "mnemonic"
                                                      /\ secrets'.mnemonic = secrets.mnemonic
                                                      /\ disk'.seed.mnemonic = disk.seed.mnemonic
  PROVE  KeysInv'
<1>1. OnlyCall(w) /\ calls'[w].pc = pc
  BY AwaitMoves
<1>2. QueueIsFresh' /\ interrupted' = interrupted
  BY TurnKeepsQueue DEF LeaveHistory
<1>3. QED
  BY <1>1, <1>2, SteadyKeepsKeys

LEMMA OtherStepsKeepKeys ==
  ASSUME LockerInv, OrderInv, KeysInv, NEW w \in Windows, Windows = {w}, LockerStep(w),
         ~(UnlockStatus(w) \/ UnlockSucceeds(w) \/ UnlockFails(w))
  PROVE  KeysInv'
<1>1. /\ calls[w] \in Call /\ calls \in [Windows -> Call] /\ disk \in Disk
      /\ secrets \in [password: Password, mnemonic: Mnemonic]
  BY DEF LockerInv, LockerTypeOK
<1>2. calls[w].pc \in {"gen-accounts", "gen-seed", "gen-write", "save-seed", "save-accounts",
                       "save-write", "save-select"} => disk.step # "mnemonic"
  BY DEF LockerInv, OnboardingIsOpen, GenPcs, SavePcs
<1>3. calls[w].pc \in {"setup-check", "setup-write", "setup-step"} => ~unlocked
  BY DEF KeysInv, PasswordIsKept
<1>4. CASE LockNotified(w)
  <2>1. /\ Turn(w) /\ unlocked' = unlocked /\ disk' = disk /\ secrets' = secrets
        /\ interrupted' = interrupted /\ calls[w].pc = "notify" /\ replies' = Tail(replies)
        /\ calls' = [calls EXCEPT ![w].pc = "locked"]
    BY <1>4 DEF LockNotified, Resumed, LeaveHistory
  <2>2. OnlyCall(w) /\ calls'[w].pc = "locked"
    BY <1>1, <2>1 DEF OnlyCall, Call, Pcs
  <2>3. QueueIsFresh'
    BY <1>1, <2>1, StepsKeepQueue
  <2>4. QED
    BY <2>1, <2>2, <2>3, SteadyKeepsKeys
<1>5. CASE SetupPasswordWrite(w)
  <2>1. /\ Turn(w) /\ Await(w, "setup-write") /\ unlocked' = unlocked /\ LeaveHistory
        /\ calls[w].pc = "setup-check" /\ disk' = [disk EXCEPT !.checker = calls[w].password]
    BY <1>5 DEF SetupPasswordWrite, Resumed
  <2>2. disk' \in Disk
    BY <1>1, <2>1 DEF Disk, Call
  <2>3. QED
    BY <1>3, <2>1, <2>2, AwaitKeepsKeys DEF Pcs
<1>6. CASE SetupPasswordStep(w)
  <2>1. /\ Turn(w) /\ Await(w, "setup-step") /\ unlocked' = unlocked /\ LeaveHistory
        /\ calls[w].pc = "setup-write" /\ disk' = [disk EXCEPT !.step = "password"]
    BY <1>6 DEF SetupPasswordStep, Resumed
  <2>2. disk' \in Disk
    BY <1>1, <2>1 DEF Disk
  <2>3. QED
    BY <1>3, <2>1, <2>2, AwaitKeepsKeys DEF Pcs
<1>7. CASE SetupPasswordUnlock(w)
  <2>1. /\ Turn(w) /\ Await(w, "status") /\ unlocked' = unlocked /\ LeaveHistory
        /\ calls[w].pc = "setup-step" /\ disk' = disk
    BY <1>7 DEF SetupPasswordUnlock, Resumed
  <2>2. QED
    BY <1>1, <1>3, <2>1, AwaitKeepsKeys DEF Pcs
<1>8. CASE ResetPasswordSeed(w)
  <2>1. /\ Turn(w) /\ Await(w, "reset-seed") /\ unlocked' = unlocked /\ LeaveHistory
        /\ calls[w].pc = "reset-check" /\ secrets' = secrets
        /\ disk' = [disk EXCEPT !.seed = [mnemonic |-> calls[w].mnemonic,
                                          password |-> calls[w].password]]
        /\ Got.accounts = calls[w].mnemonic
    BY <1>8 DEF ResetPasswordSeed, Resumed
  <2>2. calls[w].mnemonic = disk.seed.mnemonic
    BY <2>1, GotFacts DEF LockerInv, PcFollowsOp, OneSeed
  <2>3. /\ disk' \in Disk /\ disk'.checker = disk.checker /\ disk'.step = disk.step
        /\ disk'.seed.mnemonic = disk.seed.mnemonic
    BY <1>1, <2>1, <2>2 DEF Disk, Call
  <2>4. QED
    BY <2>1, <2>3, AwaitKeepsKeys DEF Pcs
<1>9. CASE ResetPasswordChecker(w)
  <2>1. /\ Turn(w) /\ Await(w, "status") /\ unlocked' = unlocked
        /\ disk' = [disk EXCEPT !.checker = calls[w].password]
        /\ secrets' = [secrets EXCEPT !.password = calls[w].password]
    BY <1>9 DEF ResetPasswordChecker, Resumed
  <2>2. /\ disk' \in Disk /\ disk'.checker = calls[w].password
        /\ secrets'.password = calls[w].password
    BY <1>1, <2>1 DEF Disk, Call
  <2>3. calls'[w].pc = "status" /\ calls'[w].password = calls[w].password
    BY <2>1, <2>2, AwaitMoves DEF Pcs
  <2>4. QueueIsFresh'
    BY <2>1, <2>2, TurnKeepsQueue DEF Pcs
  <2>5. PasswordIsKept' /\ MnemonicIsKept'
    BY <2>2, <2>3 DEF PasswordIsKept, MnemonicIsKept
  <2>6. QED
    BY <2>4, <2>5 DEF KeysInv
<1>10. CASE GenerateMnemonicLookup(w)
  <2>1. /\ Turn(w) /\ Await(w, "gen-seed") /\ unlocked' = unlocked /\ LeaveHistory
        /\ calls[w].pc = "gen-accounts" /\ disk' = disk /\ secrets' = secrets
    BY <1>10 DEF GenerateMnemonicLookup, Resumed
  <2>2. QED
    BY <1>1, <1>2, <2>1, AwaitKeepsKeys DEF Pcs
<1>11. ASSUME NEW m \in Mnemonics, GenerateMnemonicWrite(w, m)
       PROVE  KeysInv'
  <2>1. /\ Turn(w) /\ unlocked' = unlocked /\ LeaveHistory /\ calls[w].pc = "gen-seed"
        /\ secrets' = [secrets EXCEPT !.mnemonic = m]
        /\ IF secrets.password = None
           THEN disk' = disk /\ Return(w)
           ELSE /\ disk' = [disk EXCEPT !.seed = [mnemonic |-> m, password |-> secrets.password]]
                /\ Await(w, "gen-write")
    BY <1>11 DEF GenerateMnemonicWrite, Resumed
  <2>2. /\ disk' \in Disk /\ disk'.checker = disk.checker /\ disk'.step = disk.step
        /\ secrets'.password = secrets.password
    BY <1>1, <2>1 DEF Disk, Mnemonic
  <2>3. CASE secrets.password # None
    BY <1>2, <2>1, <2>2, <2>3, AwaitKeepsKeys DEF Pcs
  <2>4. CASE secrets.password = None
    <3>1. OnlyCall(w) /\ calls'[w].pc = "idle"
      BY <2>1, <2>4, ReturnMoves DEF Idle, NewCall
    <3>2. QueueIsFresh' /\ interrupted' = interrupted
      BY <1>1, <2>1, <2>4, TurnKeepsQueue DEF LeaveHistory
    <3>3. QED
      BY <1>2, <2>1, <2>2, <3>1, <3>2, SteadyKeepsKeys
  <2>5. QED
    BY <2>3, <2>4
<1>12. CASE SaveMnemonicRead(w)
  <2>1. /\ Turn(w) /\ unlocked' = unlocked /\ disk' = disk /\ secrets' = secrets
        /\ interrupted' = interrupted /\ calls[w].pc = "save-seed"
        /\ calls' = [calls EXCEPT ![w].pc = "save-accounts", ![w].mnemonic = Got.seed.mnemonic]
        /\ replies' = Append(Tail(replies), Reply(w))
    BY <1>12 DEF SaveMnemonicRead, Resumed, LeaveHistory
  <2>2. OnlyCall(w) /\ calls'[w].pc = "save-accounts"
    <3>1. PICK call \in Call :
            call = [calls[w] EXCEPT !.pc = "save-accounts", !.mnemonic = Got.seed.mnemonic]
      BY <1>1, <2>1, GotFacts DEF Call, Pcs, Disk
    <3>2. call.pc = "save-accounts" /\ calls' = [calls EXCEPT ![w] = call]
      BY <1>1, <2>1, <3>1 DEF Call
    <3>3. QED
      BY <1>1, <3>2 DEF OnlyCall
  <2>3. QueueIsFresh'
    BY <1>1, <2>1, StepsKeepQueue
  <2>4. QED
    BY <1>2, <2>1, <2>2, <2>3, SteadyKeepsKeys
<1>13. CASE SaveMnemonicAccounts(w)
  <2>1. /\ Turn(w) /\ unlocked' = unlocked /\ LeaveHistory /\ calls[w].pc = "save-accounts"
        /\ secrets' = [secrets EXCEPT !.mnemonic = calls[w].mnemonic]
        /\ IF Got.accounts # None
           THEN disk' = disk /\ Return(w)
           ELSE /\ disk' = [disk EXCEPT !.accounts = calls[w].mnemonic]
                /\ Await(w, "save-write")
    BY <1>13 DEF SaveMnemonicAccounts, Resumed
  <2>2. /\ disk' \in Disk /\ disk'.checker = disk.checker /\ disk'.step = disk.step
        /\ secrets'.password = secrets.password
    BY <1>1, <2>1 DEF Disk, Call
  <2>3. CASE Got.accounts = None
    BY <1>2, <2>1, <2>2, <2>3, AwaitKeepsKeys DEF Pcs
  <2>4. CASE Got.accounts # None
    <3>1. OnlyCall(w) /\ calls'[w].pc = "idle"
      BY <2>1, <2>4, ReturnMoves DEF Idle, NewCall
    <3>2. QueueIsFresh' /\ interrupted' = interrupted
      BY <1>1, <2>1, <2>4, TurnKeepsQueue DEF LeaveHistory
    <3>3. QED
      BY <1>2, <2>1, <2>2, <3>1, <3>2, SteadyKeepsKeys
  <2>5. QED
    BY <2>3, <2>4
<1>14. CASE SaveMnemonicSelect(w)
  <2>1. /\ Turn(w) /\ Await(w, "save-select") /\ unlocked' = unlocked /\ LeaveHistory
        /\ calls[w].pc = "save-write" /\ disk' = disk /\ secrets' = secrets
    BY <1>14 DEF SaveMnemonicSelect, Resumed
  <2>2. QED
    BY <1>1, <1>2, <2>1, AwaitKeepsKeys DEF Pcs
<1>15. CASE SaveMnemonicStep(w)
  <2>1. /\ Turn(w) /\ unlocked' = unlocked /\ LeaveHistory /\ calls[w].pc = "save-select"
        /\ secrets' = secrets
        /\ IF secrets.mnemonic # Got.accounts
           THEN disk' = disk /\ Return(w)
           ELSE disk' = [disk EXCEPT !.step = "mnemonic"] /\ Await(w, "save-step")
    BY <1>15 DEF SaveMnemonicStep, Resumed
  <2>2. /\ disk' \in Disk /\ disk'.checker = disk.checker /\ disk'.seed = disk.seed
    BY <1>1, <2>1 DEF Disk
  <2>3. CASE secrets.mnemonic = Got.accounts
    <3>1. secrets.mnemonic = disk.seed.mnemonic
      BY <2>1, <2>3, WindowTurn DEF LockerInv, CallsKnow, OneSeed
    <3>2. QED
      BY <2>1, <2>2, <2>3, <3>1, AwaitKeepsKeys DEF Pcs
  <2>4. CASE secrets.mnemonic # Got.accounts
    BY <2>1, <2>4, ReturnKeepsKeys
  <2>5. QED
    BY <2>3, <2>4
<1>16. CASE ResetPasswordRefused(w)
  BY <1>16, ReturnKeepsKeys DEF ResetPasswordRefused, Resumed
<1>17. CASE GenerateMnemonicRefused(w)
  BY <1>17, ReturnKeepsKeys DEF GenerateMnemonicRefused, Resumed
<1>18. CASE GenerateMnemonicAgain(w)
  BY <1>18, ReturnKeepsKeys DEF GenerateMnemonicAgain, Resumed
<1>19. CASE GenerateMnemonicDone(w)
  BY <1>19, ReturnKeepsKeys DEF GenerateMnemonicDone, Resumed
<1>20. CASE SaveMnemonicRefused(w)
  BY <1>20, ReturnKeepsKeys DEF SaveMnemonicRefused, Resumed
<1>21. CASE SaveMnemonicDone(w)
  BY <1>21, ReturnKeepsKeys DEF SaveMnemonicDone, Resumed
<1>22. CASE SetupPasswordRefused(w)
  BY <1>22, ReturnKeepsKeys DEF SetupPasswordRefused, Resumed
<1>23. QED
  BY <1>4, <1>5, <1>6, <1>7, <1>8, <1>9, <1>10, <1>11, <1>12, <1>13, <1>14, <1>15, <1>16, <1>17,
     <1>18, <1>19, <1>20, <1>21, <1>22 DEF LockerStep

\* A call of the window joins at most the reply with the mnemonic.
LEMMA BeginKeepsKeys ==
  ASSUME LockerInv, OrderInv, KeysInv, NEW w \in Windows, Windows = {w},
         NEW call \in Call, Begin(w, call), disk' = disk, interrupted' = interrupted,
         call.pc \in {"notify", "save-seed", "status", "setup-check", "reset-check", "gen-accounts"},
         IF call.pc = "notify" THEN ~unlocked' ELSE unlocked' = unlocked /\ secrets' = secrets,
         call.pc \in {"status", "setup-check"} => ~unlocked
  PROVE  KeysInv'
<1>1. disk' = disk /\ interrupted' = interrupted
  OBVIOUS
<1>2. Joined(call) /\ OnlyCall(w) /\ calls[w] = Idle /\ calls'[w] = call
  BY BeginJoins
<1>3. replies' = Append(replies, Reply(w)) /\ Reply(w) = [to |-> w, disk |-> disk']
  BY DEF Begin, Reply
<1>4. replies \in Seq(Replies) /\ Reply(w) \in Replies
  BY <1>1, <1>3 DEF LockerInv, LockerTypeOK, Replies
<1>5. QueueIsFresh'
  <2>1. /\ Len(replies') = Len(replies) + 1 /\ replies'[Len(replies) + 1] = Reply(w)
    BY <1>3, <1>4, AppendFacts
  <2>2. ASSUME NEW i \in Places'
        PROVE  replies'[i].disk = disk /\ (i > 1 => replies'[i].to \in Windows)
    <3>1. CASE i \in Places /\ replies'[i] = replies[i]
      BY <3>1 DEF KeysInv, QueueIsFresh
    <3>2. CASE i = Len(replies) + 1
      BY <1>1, <1>3, <2>1, <3>2
    <3>3. QED
      BY <1>2, <3>1, <3>2, JoinedPlace
  <2>3. QED
    BY <1>1, <2>2 DEF QueueIsFresh
<1>6. PasswordIsKept'
  BY <1>1, <1>2 DEF KeysInv, PasswordIsKept
<1>7. MnemonicIsKept'
  <2> SUFFICES ASSUME unlocked', disk.step = "mnemonic", Repaired(w)', call.pc # "status"
               PROVE  \/ secrets'.mnemonic = disk.seed.mnemonic
                      \/ /\ replies' # <<>> /\ Head(replies').to = Background
                         /\ disk.seed.password = disk.checker
    BY <1>1, <1>2 DEF MnemonicIsKept
  <2>1. unlocked /\ secrets' = secrets
    OBVIOUS
  <2>2. Repaired(w) /\ calls[w].pc = "idle"
    BY <1>1, <1>2 DEF Repaired, Idle, NewCall
  <2>3. replies # <<>> => replies' # <<>> /\ Head(replies') = Head(replies)
    <3> SUFFICES ASSUME replies # <<>>
                 PROVE  replies' # <<>> /\ Head(replies') = Head(replies)
      OBVIOUS
    <3>1. replies' \in Seq(Replies) /\ Len(replies') > 0 /\ replies'[1] = replies[1]
      BY <1>3, <1>4, AppendFacts, TailFacts
    <3>2. QED
      BY <1>4, <3>1, TailFacts
  <2>4. QED
    BY <2>1, <2>2, <2>3 DEF KeysInv, MnemonicIsKept
<1>8. QED
  BY <1>5, <1>6, <1>7 DEF KeysInv

LEMMA CallsKeepKeys ==
  ASSUME LockerInv, OrderInv, KeysInv, NEW w \in Windows, Windows = {w}, LockerCall(w)
  PROVE  KeysInv'
<1> USE DEF Ops, Onboarding, Pcs
<1>1. CASE LockCall(w)
  <2>1. NewCall("lock", "notify", None, None) \in Call
    BY NewCallType DEF Password, Mnemonic
  <2>2. QED
    BY <1>1, <2>1, BeginKeepsKeys DEF LockCall, LeaveHistory, NewCall
<1>2. CASE SaveMnemonicCall(w)
  <2>1. NewCall("saveMnemonic", "save-seed", None, None) \in Call
    BY NewCallType DEF Password, Mnemonic
  <2>2. QED
    BY <1>2, <2>1, BeginKeepsKeys DEF SaveMnemonicCall, BeginOnboarding, NewCall
<1>3. ASSUME NEW p \in Passwords, UnlockCall(w, p)
      PROVE  KeysInv'
  <2>1. NewCall("unlock", "status", p, None) \in Call
    BY NewCallType DEF Password, Mnemonic
  <2>2. QED
    BY <1>3, <2>1, BeginKeepsKeys DEF UnlockCall, LeaveHistory, NewCall
<1>4. ASSUME NEW p \in Passwords, SetupPasswordCall(w, p)
      PROVE  KeysInv'
  <2>1. NewCall("setupPassword", "setup-check", p, None) \in Call
    BY NewCallType DEF Password, Mnemonic
  <2>2. QED
    BY <1>4, <2>1, BeginKeepsKeys
    DEF SetupPasswordCall, OnboardingForm, BeginOnboarding, NewCall
<1>5. ASSUME NEW p \in Passwords, NEW m \in Mnemonics, ResetPasswordCall(w, m, p)
      PROVE  KeysInv'
  <2>1. NewCall("resetPassword", "reset-check", p, m) \in Call
    BY NewCallType DEF Password, Mnemonic
  <2>2. QED
    BY <1>5, <2>1, BeginKeepsKeys DEF ResetPasswordCall, LeaveHistory, NewCall
<1>6. ASSUME NEW m \in Mnemonic, GenerateMnemonicCall(w, m)
      PROVE  KeysInv'
  <2>1. NewCall("generateMnemonic", "gen-accounts", None, m) \in Call
    BY NewCallType DEF Password
  <2>2. QED
    BY <1>6, <2>1, BeginKeepsKeys DEF GenerateMnemonicCall, BeginOnboarding, NewCall
<1>7. QED
  BY <1>1, <1>2, <1>3, <1>4, <1>5, <1>6 DEF LockerCall

\* The mnemonic is loaded with the password of an open wallet, which decrypts it.
LEMMA MnemonicLoadedKeepsKeys ==
  ASSUME LockerInv, OrderInv, KeysInv, MnemonicLoaded
  PROVE  KeysInv'
<1>1. /\ Turn(Background) /\ replies' = Tail(replies) /\ disk' = disk /\ calls' = calls
      /\ unlocked' = unlocked /\ interrupted' = interrupted
      /\ secrets' = IF secrets.password # None /\ secrets.password = Got.seed.password
                    THEN [secrets EXCEPT !.mnemonic = Got.seed.mnemonic]
                    ELSE secrets
  BY DEF MnemonicLoaded, LeaveHistory
<1>2. /\ replies # <<>> /\ Len(replies) \in Nat \ {0} /\ replies[1].to = Background
      /\ Got = replies[1].disk /\ replies \in Seq(Replies)
  BY <1>1, TurnFacts DEF LockerInv, LockerTypeOK, Replies
<1>3. Got = disk
  BY <1>2 DEF KeysInv, QueueIsFresh, Places
<1>4. /\ Len(replies') = Len(replies) - 1
      /\ \A i \in 1..Len(replies) - 1 : replies'[i] = replies[i + 1]
  BY <1>1, <1>2, TailFacts
<1>5. QueueIsFresh'
  <2>1. ASSUME NEW i \in Places'
        PROVE  replies'[i].disk = disk /\ replies'[i].to \in Windows
    <3>1. i + 1 \in Places /\ i + 1 > 1 /\ replies'[i] = replies[i + 1]
      BY <1>2, <1>4 DEF Places
    <3>2. QED
      BY <3>1 DEF KeysInv, QueueIsFresh
  <2>2. QED
    BY <1>1, <2>1 DEF QueueIsFresh
<1>6. /\ secrets'.password = secrets.password
      /\ secrets'.mnemonic = IF secrets.password # None /\ secrets.password = disk.seed.password
                             THEN disk.seed.mnemonic ELSE secrets.mnemonic
  BY <1>1, <1>3 DEF LockerInv, LockerTypeOK
<1>7. PasswordIsKept'
  BY <1>1, <1>6 DEF KeysInv, PasswordIsKept
<1>8. MnemonicIsKept'
  <2> SUFFICES ASSUME NEW w \in Windows, unlocked, disk.step = "mnemonic", Repaired(w),
                      calls[w].pc \notin {"status", "auth"}
               PROVE  secrets'.mnemonic = disk.seed.mnemonic
    BY <1>1 DEF MnemonicIsKept, Repaired
  <2>1. secrets.password = disk.checker /\ disk.checker # None
    BY DEF KeysInv, PasswordIsKept, OrderInv, NewIsEmpty
  <2>2. secrets.mnemonic = disk.seed.mnemonic \/ disk.seed.password = disk.checker
    BY DEF KeysInv, MnemonicIsKept
  <2>3. QED
    BY <1>6, <2>1, <2>2
<1>9. QED
  BY <1>5, <1>7, <1>8 DEF KeysInv

LEMMA AnswerKeepsKeys ==
  ASSUME LockerInv, OrderInv, KeysInv, NEW w \in Windows, Windows = {w}, Answer(w)
  PROVE  KeysInv'
<1>1. /\ replies' = replies /\ disk' = disk /\ secrets' = secrets /\ unlocked' = unlocked
      /\ calls[w].pc \in {"unlocked", "locked"} /\ calls'[w] = Idle
      /\ interrupted' = IF calls[w].op = "resetPassword" THEN interrupted \ {"resetPassword"}
                                                         ELSE interrupted
  BY DEF Answer, LockerInv, LockerTypeOK
<1>2. QueueIsFresh'
  BY <1>1 DEF KeysInv, QueueIsFresh, Places
<1>3. PasswordIsKept'
  BY <1>1 DEF KeysInv, PasswordIsKept, Idle, NewCall
<1>4. Repaired(w)' => Repaired(w)
  BY <1>1 DEF Repaired, Idle, NewCall, OrderInv, ResetsHaveAccounts, PastCheck
<1>5. MnemonicIsKept'
  BY <1>1, <1>4 DEF KeysInv, MnemonicIsKept
<1>6. QED
  BY <1>2, <1>3, <1>5 DEF KeysInv

LEMMA NextKeepsKeys ==
  ASSUME NEW w \in Windows, Windows = {w}
  PROVE  LockerInv /\ OrderInv /\ KeysInv /\ [LockerNext]_lockerVars => KeysInv'
<1> SUFFICES ASSUME LockerInv, OrderInv, KeysInv, [LockerNext]_lockerVars
             PROVE  KeysInv'
  OBVIOUS
<1>1. CASE Restart
  BY <1>1 DEF Restart, KeysInv, QueueIsFresh, PasswordIsKept, MnemonicIsKept, Places, Idle,
     NewCall
<1>2. CASE LockerStep(w)
  BY <1>2, UnlockKeepsKeys, OtherStepsKeepKeys
<1>3. CASE UNCHANGED lockerVars
  BY <1>3 DEF lockerVars, KeysInv, QueueIsFresh, PasswordIsKept, MnemonicIsKept, Repaired,
     Places
<1>4. QED
  BY <1>1, <1>2, <1>3, CallsKeepKeys, MnemonicLoadedKeepsKeys, AnswerKeepsKeys DEF LockerNext

\* A window that waits for an answer asks for nothing else.
LEMMA AloneOverlapsNothing ==
  ASSUME NEW w \in Windows, Windows = {w}, ~overlapped, [LockerNext]_lockerVars
  PROVE  ~overlapped'
<1>1. ASSUME NEW call, BeginOnboarding(w, call)
      PROVE  ~overlapped'
  <2>1. calls[w] = Idle /\ overlapped' = (overlapped \/ ~NoOnboardingCall)
    BY <1>1, Zenon DEF BeginOnboarding, Begin
  <2>2. Idle.op = "none" /\ "none" \notin Onboarding
    BY DEF Idle, NewCall, Onboarding
  <2>3. NoOnboardingCall
    BY <2>1, <2>2, Zenon DEF NoOnboardingCall
  <2>4. QED
    BY <2>1, <2>3, Zenon
<1>2. CASE LockerCall(w)
  BY <1>1, <1>2 DEF LockerCall, LockCall, SaveMnemonicCall, UnlockCall, SetupPasswordCall,
                    ResetPasswordCall, GenerateMnemonicCall, LeaveHistory
<1>3. CASE LockerStep(w)
  BY <1>3 DEF LeaveHistory, LockerStep, UnlockStatus, UnlockSucceeds, UnlockFails,
              LockNotified, SetupPasswordRefused, SetupPasswordWrite, SetupPasswordStep,
              SetupPasswordUnlock, ResetPasswordRefused, ResetPasswordSeed,
              ResetPasswordChecker, GenerateMnemonicRefused, GenerateMnemonicLookup,
              GenerateMnemonicAgain, GenerateMnemonicDone, GenerateMnemonicWrite,
              SaveMnemonicRefused, SaveMnemonicRead, SaveMnemonicAccounts,
              SaveMnemonicSelect, SaveMnemonicStep, SaveMnemonicDone
<1>4. QED
  BY <1>2, <1>3 DEF LockerNext, Answer, MnemonicLoaded, Restart, LeaveHistory, lockerVars

\* When a wallet with one window is open and nothing is going on, it holds the very
\* secrets its stores are encrypted under, unless a reset was cut short.  Two windows
\* could unlock it at the same time: the one whose password is wrong clears the secrets.
THEOREM OneWindowKeepsItsKeys ==
  ASSUME NEW w \in Windows, Windows = {w}
  PROVE  LockerSpec => []OpenHasItsKeys
<1>1. LockerInit => KeysInv /\ ~overlapped
  BY DEF LockerInit, KeysInv, QueueIsFresh, PasswordIsKept, MnemonicIsKept, Places, Idle,
     NewCall
<1>2. KeysInv => OpenHasItsKeys
  <2> SUFFICES ASSUME KeysInv, Quiet, unlocked, "resetPassword" \notin interrupted
               PROVE  /\ secrets.password = disk.checker
                      /\ disk.step = "mnemonic" => secrets.mnemonic = disk.seed.mnemonic
    BY DEF OpenHasItsKeys
  <2>1. calls[w].pc = "idle" /\ replies = <<>>
    BY DEF Quiet, Idle, NewCall
  <2>2. QED
    BY <2>1 DEF KeysInv, PasswordIsKept, MnemonicIsKept, Repaired
<1>3. LockerInv /\ OrderInv /\ KeysInv /\ [LockerNext]_lockerVars => KeysInv'
  BY NextKeepsKeys
<1>4. ~overlapped /\ [LockerNext]_lockerVars => ~overlapped'
  BY AloneOverlapsNothing
<1>5. QED
  BY <1>1, <1>2, <1>3, <1>4, OrderIsKept, PTL DEF LockerSpec
=============================================================================
