--------------------------- MODULE RequestsProofs ---------------------------
(***************************************************************************)
(* Proofs about Requests, for every set of tabs and any number of windows, *)
(* requests and restarts.  An answer reaches the handler of the request    *)
(* that the user saw because ids are unique in a worker's life, and        *)
(* because nobody listens before the popups have heard of its queue.       *)
(***************************************************************************)
EXTENDS Requests, TLAPS, FiniteSetTheorems

\* Where a handler goes on fits what it waits for ...
Fits(task) ==
  /\ task.pc # "idle" => task.kind \in Kinds
  /\ task.pc \in {"open", "focus"} => task.then \in {"woken", "approve", "prove", "grant"}
  /\ task.pc \in {"push", "wait"} => task.then \in {"approve", "prove"}
  /\ task.pc = "close" => task.then \in {"connect", "add", "grant", "page", "fail"}
  /\ task.pc = "save" => task.then = "page"
  /\ task.pc = "sleep" => task.then = "woken"
  /\ task.pc = "run" /\ task.then \in {"approve", "prove"} => task.window \in Window

\* ... and the popup's own task does nothing but close it.
UiFits(task) ==
  /\ task.pc \in {"idle", "save", "close", "run"}
  /\ task.pc \in {"close", "run"} => task.then \in {"grant", "fail"}

TasksFit == (\A t \in Tabs : Fits(tasks[t])) /\ UiFits(tasks[Ui])

\* Handlers whose request is in the queue, or was, and those that may still queue one.
Listening == {t \in Tabs : tasks[t].pc \in {"push", "wait"}}
Asking == {t \in Tabs : /\ tasks[t].pc \notin {"idle", "push", "wait"}
                        /\ tasks[t].then \in {"woken", "connect", "approve", "prove"}}

\* A handler queues one request each time it is asked.
NonceIsBounded == IsFiniteSet(Asking) /\ nonce + Cardinality(Asking) <= asked

\* An id has one request, and one handler.
IdsAreUnique ==
  /\ \A r \in pending : r.id < nonce
  /\ \A t \in Listening : tasks[t].id < nonce
  /\ \A t, u \in Listening : tasks[t].id = tasks[u].id => t = u
  /\ \A r \in pending : tasks[r.tab].window = r.window

\* What the popups show when a handler waits is the queue of this worker.
ViewIsCurrent ==
  (\E t \in Tabs : At(t, "wait")) =>
    \A r \in view : /\ r.id < nonce
                    /\ \A t \in Listening : tasks[t].id = r.id => t = r.tab

\* Whoever goes on to approve the site was told so by the user.
AcceptedByUser ==
  /\ told # {} => agreed
  /\ \A t \in Tabs : tasks[t].then = "add" => agreed

OneSleeper == sleeper["lock"] = sleeper["maps"] => sleeper["lock"] = None

RequestsInv ==
  /\ RequestsTypeOK
  /\ TasksFit
  /\ NonceIsBounded
  /\ IdsAreUnique
  /\ ViewIsCurrent
  /\ AcceptedByUser
  /\ OneSleeper
  /\ Consent
  /\ HandlersAreAlive
  /\ WaitersAreQueued
  /\ CachedIsReal
  /\ CallbacksWake

-----------------------------------------------------------------------------
(* One handler takes a step, and is neither listening nor asleep.  *)

\* The handlers of t and of nobody else.
Only(t) == tasks' \in [Actors -> Task] /\ \A u \in Actors \ {t} : tasks'[u] = tasks[u]

LEMMA NoTaskTyped == NoTask \in Task
<1>1. 0 \in 0..MaxRequests
  BY RequestsAssumption
<1>2. QED
  BY <1>1 DEF NoTask, Task

PopupsTyped ==
  /\ windows \subseteq Window /\ removed \subseteq Window /\ opened \in 0..MaxWindows
  /\ cached \in Window \cup {None}

\* Who listens still finds the request in the queue, when the queue stays.
LEMMA WaitersAreKept ==
  ASSUME RequestsInv, Listening' \subseteq Listening, pending' = pending,
         \A t \in Listening' : /\ tasks'[t].id = tasks[t].id
                               /\ tasks'[t].window = tasks[t].window
                               /\ t \in unheard => t \in unheard'
  PROVE  WaitersAreQueued'
<1>1. SUFFICES ASSUME NEW t \in Listening'
               PROVE  t \in unheard' \/ \E r \in pending' : /\ r.tab = t /\ r.id = tasks'[t].id
                                                            /\ r.window = tasks'[t].window
  BY DEF WaitersAreQueued, Listening
<1>2. t \in unheard \/ \E r \in pending : /\ r.tab = t /\ r.id = tasks[t].id
                                          /\ r.window = tasks[t].window
  BY DEF RequestsInv, WaitersAreQueued, Listening
<1>3. QED
  BY <1>2

LEMMA AskingShrinks ==
  ASSUME RequestsInv, Asking' \subseteq Asking, UNCHANGED <<nonce, asked>>
  PROVE  NonceIsBounded'
<1>1. IsFiniteSet(Asking') /\ Cardinality(Asking') <= Cardinality(Asking)
  BY FS_Subset DEF RequestsInv, NonceIsBounded
<1>2. /\ Cardinality(Asking) \in Nat /\ Cardinality(Asking') \in Nat /\ nonce \in Nat
      /\ asked \in Nat
  BY <1>1, FS_CardinalityType DEF RequestsInv, NonceIsBounded, RequestsTypeOK
<1>3. QED
  BY <1>1, <1>2 DEF RequestsInv, NonceIsBounded

\* A handler that does not listen changes nothing of the queue.
LEMMA QueueIsKept ==
  ASSUME RequestsInv, NEW t \in Actors, Only(t), tasks[t].pc \notin {"push", "wait"},
         tasks'[t].pc \notin {"push", "wait"}, UNCHANGED queueVars,
         \A u \in unheard : u # t => u \in unheard'
  PROVE  IdsAreUnique' /\ HandlersAreAlive' /\ WaitersAreQueued' /\ ViewIsCurrent'
<1>1. Tabs \subseteq Actors
  BY DEF Actors
<1>2. Listening' = Listening /\ t \notin Listening /\ \A u \in Listening : tasks'[u] = tasks[u]
  BY <1>1 DEF Listening, Only
<1>3. \A r \in pending : r.tab \in Listening
  BY DEF RequestsInv, RequestsTypeOK, Pending, HandlersAreAlive, Listening
<1>4. IdsAreUnique' /\ HandlersAreAlive'
  BY <1>2, <1>3 DEF RequestsInv, IdsAreUnique, HandlersAreAlive, queueVars, Listening
<1>5. ViewIsCurrent'
  BY <1>1, <1>2 DEF RequestsInv, ViewIsCurrent, queueVars, At, Only
<1>6. WaitersAreQueued'
  <2>1. pending' = pending
    BY DEF queueVars
  <2>2. QED
    BY <1>2, <2>1, WaitersAreKept
<1>7. QED
  BY <1>4, <1>5, <1>6

\* What such a step may do: nothing of what the other handlers, the queue and the lock rely on.
Quietly(t) ==
  /\ Only(t)
  /\ tasks[t].pc \notin {"push", "wait", "sleep"}
  /\ tasks'[t].pc \notin {"push", "wait", "sleep"}
  /\ t \in Tabs => Fits(tasks'[t])
  /\ t = Ui => UiFits(tasks'[t])
  /\ t \in Asking' => t \in Asking
  /\ tasks'[t].then = "answered" => tasks[t].then = "answered"
  /\ t \in Tabs /\ tasks'[t].then = "add" => tasks[t].then \in {"answered", "add"}
  /\ PopupsTyped' /\ CachedIsReal'
  /\ approved' \in {"no", "ask", "skip"} /\ (approved' # "no" => agreed)
  /\ UNCHANGED <<queueVars, lockVars, historyVars, restarts>>

LEMMA StepKeeps ==
  ASSUME RequestsInv, NEW t \in Actors, Quietly(t)
  PROVE  RequestsInv'
<1>0. /\ tasks[t].pc \notin {"push", "wait", "sleep"}
      /\ tasks'[t].pc \notin {"push", "wait", "sleep"}
      /\ UNCHANGED <<queueVars, lockVars, historyVars, restarts>> /\ Only(t) /\ CachedIsReal'
  BY DEF Quietly
<1>1. Tabs \subseteq Actors /\ Ui \in Actors /\ Ui \notin Tabs
  BY RequestsAssumption DEF Actors
<1>2. RequestsTypeOK'
  BY <1>0 DEF Quietly, RequestsInv, RequestsTypeOK, PopupsTyped, Only, queueVars, lockVars,
     historyVars
<1>3. TasksFit'
  BY <1>0, <1>1 DEF Quietly, RequestsInv, TasksFit, Only
<1>4. Asking' \subseteq Asking
  BY <1>0, <1>1 DEF Quietly, Asking, Only
<1>5. NonceIsBounded'
  BY <1>0, <1>4, AskingShrinks DEF queueVars, historyVars
<1>6. IdsAreUnique' /\ HandlersAreAlive' /\ WaitersAreQueued' /\ ViewIsCurrent'
  BY <1>0, QueueIsKept DEF historyVars
<1>7. AcceptedByUser'
  BY <1>0, <1>1 DEF Quietly, RequestsInv, AcceptedByUser, Consent, historyVars, Only
<1>8. Consent'
  BY <1>0, <1>1 DEF Quietly, RequestsInv, Consent, historyVars, Only
<1>9. OneSleeper' /\ CallbacksWake'
  BY <1>0, <1>1 DEF RequestsInv, OneSleeper, CallbacksWake, RequestsTypeOK, lockVars, At,
     Only, Locks
<1>10. QED
  BY <1>0, <1>2, <1>3, <1>5, <1>6, <1>7, <1>8, <1>9 DEF RequestsInv

LEMMA PopupOpenedKeeps ==
  ASSUME RequestsInv, NEW t \in Tabs, PopupOpened(t)
  PROVE  RequestsInv'
<1>1. t \in Actors /\ tasks[t] \in Task
  BY DEF RequestsInv, RequestsTypeOK, Actors
<1>2. opened' \in Window /\ opened' \in 0..MaxWindows
  BY RequestsAssumption DEF PopupOpened, RequestsInv, RequestsTypeOK, Window
<1>3. (t \in Tabs => Fits(tasks[t])) /\ (t = Ui => UiFits(tasks[t]))
  BY DEF RequestsInv, TasksFit
<1>4. tasks[t].pc \notin {"push", "wait", "sleep", "idle"}
  BY <1>1, <1>2 DEF PopupOpened, At, Runs
<1>5. Only(t)
  BY <1>1, <1>2 DEF PopupOpened, Only, Task, RequestsInv, RequestsTypeOK, IfRequest, Window
<1>6. /\ tasks'[t].pc = "run" /\ tasks'[t].then = tasks[t].then
      /\ tasks'[t].then \in {"approve", "prove"} => tasks'[t].window \in Window
  BY <1>1, <1>2, <1>3 DEF PopupOpened, Fits, At, Runs, Task, RequestsInv, RequestsTypeOK,
     IfRequest, Window
<1>7. PopupsTyped' /\ CachedIsReal'
  BY <1>1, <1>2 DEF PopupOpened, browserVars, RequestsInv, RequestsTypeOK, PopupsTyped,
     CachedIsReal
<1>8. tasks'[t].pc # "idle" => tasks'[t].kind = tasks[t].kind
  BY <1>1, <1>2 DEF PopupOpened, At, Runs, Task, RequestsInv, RequestsTypeOK, IfRequest,
     Window
<1>9. (t \in Tabs => Fits(tasks'[t])) /\ (t = Ui => UiFits(tasks'[t]))
  BY <1>1, <1>3, <1>4, <1>8, <1>6, <1>2, RequestsAssumption DEF PopupOpened, Fits, UiFits, At,
     Runs
<1>10. t \in Asking' => t \in Asking
  BY <1>1, <1>3, <1>4, <1>6, <1>2 DEF PopupOpened, Asking, Fits, At, Runs
<1>11. /\ tasks[t].pc \notin {"push", "wait", "sleep"}
       /\ tasks'[t].pc \notin {"push", "wait", "sleep"}
  BY <1>4, <1>6
<1>12. /\ tasks'[t].then = "answered" => tasks[t].then = "answered"
       /\ t \in Tabs /\ tasks'[t].then = "add" => tasks[t].then \in {"answered", "add"}
  BY <1>1, <1>6, <1>2 DEF PopupOpened, Runs, At
<1>13. approved' \in {"no", "ask", "skip"} /\ (approved' # "no" => agreed)
  BY <1>1 DEF PopupOpened, RequestsInv, RequestsTypeOK, Consent, AcceptedByUser, Runs
<1>14. UNCHANGED <<queueVars, lockVars, historyVars, restarts>>
  BY DEF PopupOpened, queueVars, lockVars, historyVars
<1>15. Quietly(t)
  BY <1>11, <1>5, <1>7, <1>9, <1>10, <1>12, <1>13, <1>14 DEF Quietly
<1>16. QED
  BY <1>1, <1>15, StepKeeps

LEMMA PopupFocusedKeeps ==
  ASSUME RequestsInv, NEW t \in Tabs, PopupFocused(t)
  PROVE  RequestsInv'
<1>1. t \in Actors /\ tasks[t] \in Task
  BY DEF RequestsInv, RequestsTypeOK, Actors
<1>2. (t \in Tabs => Fits(tasks[t])) /\ (t = Ui => UiFits(tasks[t]))
  BY DEF RequestsInv, TasksFit
<1>3. tasks[t].pc \notin {"push", "wait", "sleep", "idle"}
  BY <1>1 DEF PopupFocused, At, Runs
<1>4. Only(t)
  BY <1>1 DEF PopupFocused, Only, Task, RequestsInv, RequestsTypeOK, IfRequest
<1>5. /\ tasks'[t].pc = "run" /\ tasks'[t].then \in {tasks[t].then, "fail"}
      /\ tasks'[t].then \in {"approve", "prove"} => tasks'[t].window \in Window
  BY <1>1, <1>2 DEF PopupFocused, Fits, At, Runs, Task, RequestsInv, RequestsTypeOK, IfRequest
<1>6. PopupsTyped' /\ CachedIsReal'
  BY <1>1 DEF PopupFocused, browserVars, RequestsInv, RequestsTypeOK, PopupsTyped,
     CachedIsReal, At, Runs
<1>7. tasks'[t].pc # "idle" => tasks'[t].kind = tasks[t].kind
  BY <1>1 DEF PopupFocused, At, Runs, Task, RequestsInv, RequestsTypeOK, IfRequest
<1>8. (t \in Tabs => Fits(tasks'[t])) /\ (t = Ui => UiFits(tasks'[t]))
  BY <1>1, <1>2, <1>3, <1>7, <1>5, RequestsAssumption DEF PopupFocused, Fits, UiFits, At, Runs
<1>9. t \in Asking' => t \in Asking
  BY <1>1, <1>2, <1>3, <1>5 DEF PopupFocused, Asking, Fits, At, Runs
<1>10. /\ tasks[t].pc \notin {"push", "wait", "sleep"}
       /\ tasks'[t].pc \notin {"push", "wait", "sleep"}
  BY <1>3, <1>5
<1>11. /\ tasks'[t].then = "answered" => tasks[t].then = "answered"
       /\ t \in Tabs /\ tasks'[t].then = "add" => tasks[t].then \in {"answered", "add"}
  BY <1>1, <1>5 DEF PopupFocused, Runs, At
<1>12. approved' \in {"no", "ask", "skip"} /\ (approved' # "no" => agreed)
  BY <1>1 DEF PopupFocused, RequestsInv, RequestsTypeOK, Consent, AcceptedByUser, Runs
<1>13. UNCHANGED <<queueVars, lockVars, historyVars, restarts>>
  BY DEF PopupFocused, queueVars, lockVars, historyVars
<1>14. Quietly(t)
  BY <1>10, <1>4, <1>6, <1>8, <1>9, <1>11, <1>12, <1>13 DEF Quietly
<1>15. QED
  BY <1>1, <1>14, StepKeeps

\* Removing the cached popup: it is on the screen, or the worker will hear of it.
LEMMA ClosePopupMoves ==
  ASSUME RequestsInv, NEW t \in Actors, NEW then \in {"connect", "add", "grant", "page"},
         ClosePopup(t, then), UNCHANGED <<opened, cached>>
  PROVE  /\ Only(t) /\ tasks'[t].pc \in {"run", "close"}
         /\ \/ tasks'[t].then = then
            \/ tasks'[t].then = "fail" /\ tasks'[t].pc = "close"
         /\ tasks'[t].kind = tasks[t].kind
         /\ PopupsTyped' /\ CachedIsReal'
<1>1. tasks[t] \in Task
  BY DEF RequestsInv, RequestsTypeOK
<1>2. CASE cached = None
  BY <1>1, <1>2 DEF ClosePopup, Goto, Only, Task, PopupsTyped, RequestsInv, RequestsTypeOK,
     CachedIsReal
<1>3. CASE cached # None
  <2>1. PopupsTyped' /\ CachedIsReal'
    BY <1>3 DEF ClosePopup, PopupsTyped, RequestsInv, RequestsTypeOK, CachedIsReal
  <2>2. Goto(t, "close", IF cached \in windows THEN then ELSE "fail")
    BY <1>3 DEF ClosePopup
  <2>3. QED
    BY <1>1, <2>1, <2>2 DEF Goto, Only, Task, RequestsInv, RequestsTypeOK
<1>4. QED
  BY <1>2, <1>3

LEMMA OpenPopupMoves ==
  ASSUME RequestsInv, NEW t \in Actors, NEW then \in {"approve", "grant"}, OpenPopup(t, then)
  PROVE  /\ Only(t) /\ tasks'[t].pc \in {"open", "focus"} /\ tasks'[t].then = then
         /\ tasks'[t].kind = tasks[t].kind
<1>1. tasks[t] \in Task /\ cached \in Window \cup {None}
  BY DEF RequestsInv, RequestsTypeOK
<1>2. QED
  BY <1>1 DEF OpenPopup, Only, Task, RequestsInv, RequestsTypeOK

LEMMA PopupClosedKeeps ==
  ASSUME RequestsInv, NEW t \in Actors, PopupClosed(t)
  PROVE  RequestsInv'
<1>1. t \in Actors /\ tasks[t] \in Task
  BY DEF RequestsInv, RequestsTypeOK, Actors
<1>2. (t \in Tabs => Fits(tasks[t])) /\ (t = Ui => UiFits(tasks[t]))
  BY DEF RequestsInv, TasksFit
<1>3. tasks[t].pc \notin {"push", "wait", "sleep", "idle"}
  BY <1>1 DEF PopupClosed, At, Runs
<1>4. Only(t)
  BY <1>1 DEF PopupClosed, Only, Task, RequestsInv, RequestsTypeOK, Goto
<1>5. tasks'[t].pc = "run" /\ tasks'[t].then = tasks[t].then
  BY <1>1, <1>2 DEF PopupClosed, Fits, At, Runs, Task, RequestsInv, RequestsTypeOK, Goto
<1>6. PopupsTyped' /\ CachedIsReal'
  BY <1>1 DEF PopupClosed, browserVars, RequestsInv, RequestsTypeOK, PopupsTyped,
     CachedIsReal, At, Runs
<1>7. tasks'[t].pc # "idle" => tasks'[t].kind = tasks[t].kind
  BY <1>1 DEF PopupClosed, At, Runs, Task, RequestsInv, RequestsTypeOK, Goto
<1>8. (t \in Tabs => Fits(tasks'[t])) /\ (t = Ui => UiFits(tasks'[t]))
  BY <1>1, <1>2, <1>3, <1>7, <1>5, RequestsAssumption DEF PopupClosed, Fits, UiFits, At, Runs
<1>9. t \in Asking' => t \in Asking
  BY <1>1, <1>2, <1>3, <1>5 DEF PopupClosed, Asking, Fits, At, Runs
<1>10. /\ tasks[t].pc \notin {"push", "wait", "sleep"}
       /\ tasks'[t].pc \notin {"push", "wait", "sleep"}
  BY <1>3, <1>5
<1>11. /\ tasks'[t].then = "answered" => tasks[t].then = "answered"
       /\ t \in Tabs /\ tasks'[t].then = "add" => tasks[t].then \in {"answered", "add"}
  BY <1>1, <1>5 DEF PopupClosed, Runs, At
<1>12. approved' \in {"no", "ask", "skip"} /\ (approved' # "no" => agreed)
  BY <1>1 DEF PopupClosed, RequestsInv, RequestsTypeOK, Consent, AcceptedByUser, Runs
<1>13. UNCHANGED <<queueVars, lockVars, historyVars, restarts>>
  BY DEF PopupClosed, queueVars, lockVars, historyVars
<1>14. Quietly(t)
  BY <1>10, <1>4, <1>6, <1>8, <1>9, <1>11, <1>12, <1>13 DEF Quietly
<1>15. QED
  BY <1>1, <1>14, StepKeeps

LEMMA LookUpKeeps ==
  ASSUME RequestsInv, NEW t \in Tabs, LookUp(t)
  PROVE  RequestsInv'
<1>1. t \in Actors /\ tasks[t] \in Task
  BY DEF RequestsInv, RequestsTypeOK, Actors
<1>2. (t \in Tabs => Fits(tasks[t])) /\ (t = Ui => UiFits(tasks[t]))
  BY DEF RequestsInv, TasksFit
<1>3. tasks[t].pc \notin {"push", "wait", "sleep", "idle"}
  BY <1>1 DEF LookUp, At, Runs
<1>4. Only(t)
  BY <1>1, OpenPopupMoves DEF LookUp, Only, Task, RequestsInv, RequestsTypeOK, Goto
<1>5. \/ tasks'[t].pc \in {"open", "focus"} /\ tasks'[t].then = "approve"
      \/ tasks'[t].pc = "run" /\ tasks'[t].then = "page"
  BY <1>1, OpenPopupMoves, <1>2 DEF LookUp, Fits, At, Runs, Task, RequestsInv, RequestsTypeOK,
     Goto
<1>6. PopupsTyped' /\ CachedIsReal'
  BY <1>1, OpenPopupMoves DEF LookUp, browserVars, RequestsInv, RequestsTypeOK, PopupsTyped,
     CachedIsReal
<1>7. tasks'[t].pc # "idle" => tasks'[t].kind = tasks[t].kind
  BY <1>1, OpenPopupMoves DEF LookUp, At, Runs, Task, RequestsInv, RequestsTypeOK, Goto
<1>8. (t \in Tabs => Fits(tasks'[t])) /\ (t = Ui => UiFits(tasks'[t]))
  BY <1>1, <1>2, <1>3, <1>7, <1>5, RequestsAssumption DEF LookUp, Fits, UiFits, At, Runs
<1>9. t \in Asking' => t \in Asking
  BY <1>1, <1>2, <1>3, <1>5 DEF LookUp, Asking, Fits, At, Runs
<1>10. /\ tasks[t].pc \notin {"push", "wait", "sleep"}
       /\ tasks'[t].pc \notin {"push", "wait", "sleep"}
  BY <1>3, <1>5
<1>11. /\ tasks'[t].then = "answered" => tasks[t].then = "answered"
       /\ t \in Tabs /\ tasks'[t].then = "add" => tasks[t].then \in {"answered", "add"}
  BY <1>1, <1>5 DEF LookUp, Runs, At
<1>12. approved' \in {"no", "ask", "skip"} /\ (approved' # "no" => agreed)
  BY <1>1 DEF LookUp, RequestsInv, RequestsTypeOK, Consent, AcceptedByUser, Runs
<1>13. UNCHANGED <<queueVars, lockVars, historyVars, restarts>>
  BY DEF LookUp, queueVars, lockVars, historyVars
<1>14. Quietly(t)
  BY <1>10, <1>4, <1>6, <1>8, <1>9, <1>11, <1>12, <1>13 DEF Quietly
<1>15. QED
  BY <1>1, <1>14, StepKeeps

LEMMA ConnectRequestKeeps ==
  ASSUME RequestsInv, NEW t \in Tabs, ConnectRequest(t)
  PROVE  RequestsInv'
<1>1. t \in Actors /\ tasks[t] \in Task
  BY DEF RequestsInv, RequestsTypeOK, Actors
<1>2. (t \in Tabs => Fits(tasks[t])) /\ (t = Ui => UiFits(tasks[t]))
  BY DEF RequestsInv, TasksFit
<1>3. tasks[t].pc \notin {"push", "wait", "sleep", "idle"}
  BY <1>1 DEF ConnectRequest, At, Runs
<1>4. Only(t)
  BY <1>1, OpenPopupMoves DEF ConnectRequest, Only, Task, RequestsInv, RequestsTypeOK, Goto
<1>5. \/ tasks'[t].pc \in {"open", "focus"} /\ tasks'[t].then = "grant"
      \/ tasks'[t].pc = "run" /\ tasks'[t].then = "grant"
  BY <1>1, OpenPopupMoves, <1>2 DEF ConnectRequest, Fits, At, Runs, Task, RequestsInv,
     RequestsTypeOK, Goto
<1>6. PopupsTyped' /\ CachedIsReal'
  BY <1>1, OpenPopupMoves DEF ConnectRequest, browserVars, RequestsInv, RequestsTypeOK,
     PopupsTyped, CachedIsReal
<1>7. tasks'[t].pc # "idle" => tasks'[t].kind = tasks[t].kind
  BY <1>1, OpenPopupMoves DEF ConnectRequest, At, Runs, Task, RequestsInv, RequestsTypeOK,
     Goto
<1>8. (t \in Tabs => Fits(tasks'[t])) /\ (t = Ui => UiFits(tasks'[t]))
  BY <1>1, <1>2, <1>3, <1>7, <1>5, RequestsAssumption DEF ConnectRequest, Fits, UiFits, At,
     Runs
<1>9. t \in Asking' => t \in Asking
  BY <1>1, <1>2, <1>3, <1>5 DEF ConnectRequest, Asking, Fits, At, Runs
<1>10. /\ tasks[t].pc \notin {"push", "wait", "sleep"}
       /\ tasks'[t].pc \notin {"push", "wait", "sleep"}
  BY <1>3, <1>5
<1>11. /\ tasks'[t].then = "answered" => tasks[t].then = "answered"
       /\ t \in Tabs /\ tasks'[t].then = "add" => tasks[t].then \in {"answered", "add"}
  BY <1>1, <1>5 DEF ConnectRequest, Runs, At
<1>12. approved' \in {"no", "ask", "skip"} /\ (approved' # "no" => agreed)
  BY <1>1 DEF ConnectRequest, RequestsInv, RequestsTypeOK, Consent, AcceptedByUser, Runs
<1>13. UNCHANGED <<queueVars, lockVars, historyVars, restarts>>
  BY DEF ConnectRequest, queueVars, lockVars, historyVars
<1>14. Quietly(t)
  BY <1>10, <1>4, <1>6, <1>8, <1>9, <1>11, <1>12, <1>13 DEF Quietly
<1>15. QED
  BY <1>1, <1>14, StepKeeps

LEMMA AnsweredKeeps ==
  ASSUME RequestsInv, NEW t \in Tabs, Answered(t)
  PROVE  RequestsInv'
<1>1. t \in Actors /\ tasks[t] \in Task
  BY DEF RequestsInv, RequestsTypeOK, Actors
<1>2. (t \in Tabs => Fits(tasks[t])) /\ (t = Ui => UiFits(tasks[t]))
  BY DEF RequestsInv, TasksFit
<1>3. tasks[t].pc \notin {"push", "wait", "sleep", "idle"}
  BY <1>1 DEF Answered, At, Runs
<1>4. Only(t)
  BY <1>1, ClosePopupMoves DEF Answered, Only, Task, RequestsInv, RequestsTypeOK
<1>5. /\ tasks'[t].pc \in {"run", "close"}
      /\ \/ tasks'[t].then = IF tasks[t].kind = "connect" THEN "add" ELSE "grant"
         \/ tasks'[t].then = "fail" /\ tasks'[t].pc = "close"
  BY <1>1, ClosePopupMoves, <1>2 DEF Answered, Fits, At, Runs, Task, RequestsInv,
     RequestsTypeOK
<1>6. PopupsTyped' /\ CachedIsReal'
  BY <1>1, ClosePopupMoves DEF Answered, RequestsInv
<1>7. tasks'[t].pc # "idle" => tasks'[t].kind = tasks[t].kind
  BY <1>1, ClosePopupMoves DEF Answered, At, Runs, Task, RequestsInv, RequestsTypeOK
<1>8. (t \in Tabs => Fits(tasks'[t])) /\ (t = Ui => UiFits(tasks'[t]))
  BY <1>1, <1>2, <1>3, <1>7, <1>5, RequestsAssumption DEF Answered, Fits, UiFits, At, Runs
<1>9. t \in Asking' => t \in Asking
  BY <1>1, <1>2, <1>3, <1>5 DEF Answered, Asking, Fits, At, Runs
<1>10. /\ tasks[t].pc \notin {"push", "wait", "sleep"}
       /\ tasks'[t].pc \notin {"push", "wait", "sleep"}
  BY <1>3, <1>5
<1>11. /\ tasks'[t].then = "answered" => tasks[t].then = "answered"
       /\ t \in Tabs /\ tasks'[t].then = "add" => tasks[t].then \in {"answered", "add"}
  BY <1>1, <1>5 DEF Answered, Runs, At
<1>12. approved' \in {"no", "ask", "skip"} /\ (approved' # "no" => agreed)
  BY <1>1 DEF Answered, RequestsInv, RequestsTypeOK, Consent, AcceptedByUser, Runs
<1>13. UNCHANGED <<queueVars, lockVars, historyVars, restarts>>
  BY DEF Answered, queueVars, lockVars, historyVars
<1>14. Quietly(t)
  BY <1>10, <1>4, <1>6, <1>8, <1>9, <1>11, <1>12, <1>13 DEF Quietly
<1>15. QED
  BY <1>1, <1>14, StepKeeps

LEMMA HostAddedKeeps ==
  ASSUME RequestsInv, NEW t \in Tabs, HostAdded(t)
  PROVE  RequestsInv'
<1>1. t \in Actors /\ tasks[t] \in Task
  BY DEF RequestsInv, RequestsTypeOK, Actors
<1>2. tasks[t].then = "page"
  BY DEF HostAdded, At, RequestsInv, TasksFit, Fits
<1>3. (t \in Tabs => Fits(tasks[t])) /\ (t = Ui => UiFits(tasks[t]))
  BY DEF RequestsInv, TasksFit
<1>4. tasks[t].pc \notin {"push", "wait", "sleep", "idle"}
  BY <1>1, <1>2 DEF HostAdded, At, Runs
<1>5. Only(t)
  BY <1>1, <1>2, ClosePopupMoves DEF HostAdded, Only, Task, RequestsInv, RequestsTypeOK
<1>6. /\ tasks'[t].pc \in {"run", "close"}
      /\ tasks'[t].then = "page" \/ (tasks'[t].then = "fail" /\ tasks'[t].pc = "close")
  BY <1>1, <1>2, ClosePopupMoves, <1>3 DEF HostAdded, Fits, At, Runs, Task, RequestsInv,
     RequestsTypeOK
<1>7. PopupsTyped' /\ CachedIsReal'
  BY <1>1, <1>2, ClosePopupMoves DEF HostAdded, RequestsInv
<1>8. tasks'[t].pc # "idle" => tasks'[t].kind = tasks[t].kind
  BY <1>1, <1>2, ClosePopupMoves DEF HostAdded, At, Runs, Task, RequestsInv, RequestsTypeOK
<1>9. (t \in Tabs => Fits(tasks'[t])) /\ (t = Ui => UiFits(tasks'[t]))
  BY <1>1, <1>3, <1>4, <1>8, <1>6, <1>2, RequestsAssumption DEF HostAdded, Fits, UiFits, At,
     Runs
<1>10. t \in Asking' => t \in Asking
  BY <1>1, <1>3, <1>4, <1>6, <1>2 DEF HostAdded, Asking, Fits, At, Runs
<1>11. /\ tasks[t].pc \notin {"push", "wait", "sleep"}
       /\ tasks'[t].pc \notin {"push", "wait", "sleep"}
  BY <1>4, <1>6
<1>12. /\ tasks'[t].then = "answered" => tasks[t].then = "answered"
       /\ t \in Tabs /\ tasks'[t].then = "add" => tasks[t].then \in {"answered", "add"}
  BY <1>1, <1>6, <1>2 DEF HostAdded, Runs, At
<1>13. approved' \in {"no", "ask", "skip"} /\ (approved' # "no" => agreed)
  BY <1>1 DEF HostAdded, RequestsInv, RequestsTypeOK, Consent, AcceptedByUser, Runs
<1>14. UNCHANGED <<queueVars, lockVars, historyVars, restarts>>
  BY DEF HostAdded, queueVars, lockVars, historyVars
<1>15. Quietly(t)
  BY <1>11, <1>5, <1>7, <1>9, <1>10, <1>12, <1>13, <1>14 DEF Quietly
<1>16. QED
  BY <1>1, <1>15, StepKeeps

LEMMA AddHostKeeps ==
  ASSUME RequestsInv, NEW t \in Tabs, AddHost(t)
  PROVE  RequestsInv'
<1>1. t \in Actors /\ tasks[t] \in Task
  BY DEF RequestsInv, RequestsTypeOK, Actors
<1>2. (t \in Tabs => Fits(tasks[t])) /\ (t = Ui => UiFits(tasks[t]))
  BY DEF RequestsInv, TasksFit
<1>3. tasks[t].pc \notin {"push", "wait", "sleep", "idle"}
  BY <1>1 DEF AddHost, At, Runs
<1>4. Only(t)
  BY <1>1 DEF AddHost, Only, Task, RequestsInv, RequestsTypeOK, Goto
<1>5. tasks'[t].pc \in {"run", "save"} /\ tasks'[t].then = "page"
  BY <1>1, <1>2 DEF AddHost, Fits, At, Runs, Task, RequestsInv, RequestsTypeOK, Goto
<1>6. PopupsTyped' /\ CachedIsReal'
  BY <1>1 DEF AddHost, browserVars, RequestsInv, RequestsTypeOK, PopupsTyped, CachedIsReal
<1>7. tasks'[t].pc # "idle" => tasks'[t].kind = tasks[t].kind
  BY <1>1 DEF AddHost, At, Runs, Task, RequestsInv, RequestsTypeOK, Goto
<1>8. (t \in Tabs => Fits(tasks'[t])) /\ (t = Ui => UiFits(tasks'[t]))
  BY <1>1, <1>2, <1>3, <1>7, <1>5, RequestsAssumption DEF AddHost, Fits, UiFits, At, Runs
<1>9. t \in Asking' => t \in Asking
  BY <1>1, <1>2, <1>3, <1>5 DEF AddHost, Asking, Fits, At, Runs
<1>10. /\ tasks[t].pc \notin {"push", "wait", "sleep"}
       /\ tasks'[t].pc \notin {"push", "wait", "sleep"}
  BY <1>3, <1>5
<1>11. /\ tasks'[t].then = "answered" => tasks[t].then = "answered"
       /\ t \in Tabs /\ tasks'[t].then = "add" => tasks[t].then \in {"answered", "add"}
  BY <1>1, <1>5 DEF AddHost, Runs, At
<1>12. approved' \in {"no", "ask", "skip"} /\ (approved' # "no" => agreed)
  BY <1>1 DEF AddHost, RequestsInv, RequestsTypeOK, Consent, AcceptedByUser, Runs
<1>13. UNCHANGED <<queueVars, lockVars, historyVars, restarts>>
  BY DEF AddHost, queueVars, lockVars, historyVars
<1>14. Quietly(t)
  BY <1>10, <1>4, <1>6, <1>8, <1>9, <1>11, <1>12, <1>13 DEF Quietly
<1>15. QED
  BY <1>1, <1>14, StepKeeps

LEMMA ReplyKeeps ==
  ASSUME RequestsInv, NEW t \in Actors, Reply(t)
  PROVE  RequestsInv'
<1>1. t \in Actors /\ tasks[t] \in Task
  BY DEF RequestsInv, RequestsTypeOK, Actors
<1>2. NoTask \in Task
  BY NoTaskTyped
<1>3. (t \in Tabs => Fits(tasks[t])) /\ (t = Ui => UiFits(tasks[t]))
  BY DEF RequestsInv, TasksFit
<1>4. tasks[t].pc \notin {"push", "wait", "sleep", "idle"}
  BY <1>1, <1>2 DEF Reply, At, Runs
<1>5. Only(t)
  BY <1>1, <1>2 DEF Reply, Only, Task, RequestsInv, RequestsTypeOK, NoTask
<1>6. tasks'[t].pc = "idle" /\ tasks'[t].then = "none"
  BY <1>1, <1>2, <1>3 DEF Reply, Fits, At, Runs, Task, RequestsInv, RequestsTypeOK, NoTask
<1>7. PopupsTyped' /\ CachedIsReal'
  BY <1>1, <1>2 DEF Reply, browserVars, RequestsInv, RequestsTypeOK, PopupsTyped, CachedIsReal
<1>8. tasks'[t].pc # "idle" => tasks'[t].kind = tasks[t].kind
  BY <1>1, <1>2 DEF Reply, At, Runs, Task, RequestsInv, RequestsTypeOK, NoTask
<1>9. (t \in Tabs => Fits(tasks'[t])) /\ (t = Ui => UiFits(tasks'[t]))
  BY <1>1, <1>3, <1>4, <1>8, <1>6, <1>2, RequestsAssumption DEF Reply, Fits, UiFits, At, Runs
<1>10. t \in Asking' => t \in Asking
  BY <1>1, <1>3, <1>4, <1>6, <1>2 DEF Reply, Asking, Fits, At, Runs
<1>11. /\ tasks[t].pc \notin {"push", "wait", "sleep"}
       /\ tasks'[t].pc \notin {"push", "wait", "sleep"}
  BY <1>4, <1>6
<1>12. /\ tasks'[t].then = "answered" => tasks[t].then = "answered"
       /\ t \in Tabs /\ tasks'[t].then = "add" => tasks[t].then \in {"answered", "add"}
  BY <1>1, <1>6, <1>2 DEF Reply, Runs, At
<1>13. approved' \in {"no", "ask", "skip"} /\ (approved' # "no" => agreed)
  BY <1>1 DEF Reply, RequestsInv, RequestsTypeOK, Consent, AcceptedByUser, Runs
<1>14. UNCHANGED <<queueVars, lockVars, historyVars, restarts>>
  BY DEF Reply, queueVars, lockVars, historyVars
<1>15. Quietly(t)
  BY <1>11, <1>5, <1>7, <1>9, <1>10, <1>12, <1>13, <1>14 DEF Quietly
<1>16. QED
  BY <1>1, <1>15, StepKeeps

LEMMA UiClosePopupKeeps ==
  ASSUME RequestsInv, UiClosePopup
  PROVE  RequestsInv'
<1>1. Ui \in Actors /\ Ui \notin Tabs /\ tasks[Ui] \in Task /\ tasks[Ui].pc = "save"
  BY RequestsAssumption DEF UiClosePopup, At, Actors, RequestsInv, RequestsTypeOK
<1>2. /\ Only(Ui) /\ tasks'[Ui].pc \in {"run", "close"} /\ tasks'[Ui].then \in {"grant", "fail"}
      /\ PopupsTyped' /\ CachedIsReal'
  <2>1. CASE windows = {}
    <3>1. Goto(Ui, "run", "grant")
      BY <2>1 DEF UiClosePopup
    <3>2. PopupsTyped' /\ CachedIsReal'
      BY <2>1 DEF UiClosePopup, PopupsTyped, CachedIsReal, RequestsInv, RequestsTypeOK
    <3>3. QED
      BY <1>1, <3>1, <3>2 DEF Goto, Only, Task, RequestsInv, RequestsTypeOK
  <2>2. CASE windows # {}
    <3>1. ClosePopup(Ui, "grant") /\ UNCHANGED <<opened, cached>>
      BY <2>2 DEF UiClosePopup
    <3>2. QED
      BY <1>1, <3>1, ClosePopupMoves
  <2>3. QED
    BY <2>1, <2>2
<1>3. approved' \in {"no", "ask", "skip"} /\ (approved' # "no" => agreed)
  BY DEF UiClosePopup, RequestsInv, RequestsTypeOK, Consent
<1>4. UNCHANGED <<queueVars, lockVars, historyVars, restarts>>
  BY DEF UiClosePopup, queueVars, lockVars, historyVars
<1>5. UiFits(tasks'[Ui])
  BY <1>2 DEF UiFits
<1>6. Quietly(Ui)
  BY <1>1, <1>2, <1>3, <1>4, <1>5 DEF Quietly, Asking
<1>7. QED
  BY <1>1, <1>6, StepKeeps

LEMMA AwaitUnlockKeeps ==
  ASSUME RequestsInv, NEW t \in Tabs, AwaitUnlock(t)
  PROVE  RequestsInv'
<1>1. /\ t \in Actors /\ t # Ui /\ t # None /\ Tabs \subseteq Actors
      /\ tasks[t] \in Task /\ tasks[t].pc = "run" /\ tasks[t].then = "woken" /\ Fits(tasks[t])
  BY RequestsAssumption
     DEF AwaitUnlock, Runs, Actors, RequestsInv, RequestsTypeOK, TasksFit
<1>2. CASE unlocked["lock"] /\ unlocked["maps"] /\ ClosePopup(t, "connect") /\ UNCHANGED sleeper
  <2>1. UNCHANGED <<opened, cached>>
    BY DEF AwaitUnlock
  <2>2. /\ Only(t) /\ tasks'[t].pc \in {"run", "close"}
        /\ tasks'[t].then = "connect" \/ (tasks'[t].then = "fail" /\ tasks'[t].pc = "close")
        /\ tasks'[t].kind = tasks[t].kind
        /\ PopupsTyped' /\ CachedIsReal'
    BY <1>1, <1>2, <2>1, ClosePopupMoves
  <2>3. UNCHANGED <<queueVars, lockVars, historyVars, restarts>>
    BY <1>2 DEF AwaitUnlock, queueVars, lockVars, historyVars
  <2>4. approved' \in {"no", "ask", "skip"} /\ (approved' # "no" => agreed)
    BY DEF AwaitUnlock, RequestsInv, RequestsTypeOK, Consent
  <2>5. Fits(tasks'[t])
    BY <1>1, <2>2 DEF Fits
  <2>6. Quietly(t)
    BY <1>1, <2>2, <2>3, <2>4, <2>5 DEF Quietly, Asking
  <2>7. QED
    BY <1>1, <2>6, StepKeeps
<1>3. ASSUME NEW l \in Locks, ~unlocked[l], sleeper' = [sleeper EXCEPT ![l] = t],
             Goto(t, "sleep", "woken"), UNCHANGED <<windows, removed>>
      PROVE  RequestsInv'
  <2>1. /\ Only(t) /\ tasks'[t].pc = "sleep" /\ tasks'[t].then = "woken"
        /\ tasks'[t].kind = tasks[t].kind
    BY <1>1, <1>3 DEF Goto, Only, Task, RequestsInv, RequestsTypeOK
  <2>2. UNCHANGED <<browserVars, cached, queueVars, unlocked, chain, approved, historyVars,
                    restarts>>
    BY <1>3 DEF AwaitUnlock, browserVars
  <2>3. RequestsTypeOK'
    BY <1>1, <1>3, <2>1, <2>2
       DEF Only, RequestsInv, RequestsTypeOK, browserVars, queueVars, historyVars
  <2>4. Fits(tasks'[t])
    BY <1>1, <2>1 DEF Fits
  <2>5. TasksFit'
    BY <1>1, <2>1, <2>4, RequestsAssumption DEF RequestsInv, TasksFit, Only, Actors
  <2>6. Asking' = Asking
    BY <1>1, <2>1 DEF Asking, Only
  <2>7. NonceIsBounded'
    BY <2>2, <2>6, AskingShrinks DEF queueVars, historyVars
  <2>8. UNCHANGED queueVars
    BY <2>2
  <2>9. IdsAreUnique' /\ HandlersAreAlive' /\ WaitersAreQueued' /\ ViewIsCurrent'
    BY <1>1, <2>1, <2>2, <2>8, QueueIsKept DEF historyVars
  <2>10. AcceptedByUser' /\ Consent' /\ CachedIsReal'
    BY <1>1, <2>1, <2>2
       DEF RequestsInv, AcceptedByUser, Consent, CachedIsReal, browserVars, historyVars, Only
  <2>11. \A m \in Locks : sleeper[m] # t
    BY <1>1 DEF RequestsInv, CallbacksWake, At
  <2>12. CallbacksWake'
    <3>1. sleeper \in [Locks -> Tabs \cup {None}]
      BY DEF RequestsInv, RequestsTypeOK
    <3>2. sleeper'[l] = t /\ \A m \in Locks \ {l} : sleeper'[m] = sleeper[m]
      BY <1>3, <3>1
    <3>3. ASSUME NEW m \in Locks
          PROVE  /\ sleeper'[m] # None => tasks'[sleeper'[m]].pc = "sleep"
                 /\ unlocked'[m] => sleeper'[m] = None
      <4>1. unlocked' = unlocked
        BY <2>2
      <4>2. CASE m = l
        BY <1>3, <2>1, <3>2, <4>1, <4>2
      <4>3. CASE m # l
        <5>1. sleeper'[m] = sleeper[m]
          BY <3>2, <4>3
        <5>2. sleeper[m] # None => sleeper[m] \in Actors \ {t} /\ tasks[sleeper[m]].pc = "sleep"
          BY <1>1, <2>11, <3>1 DEF RequestsInv, CallbacksWake, At
        <5>3. unlocked[m] => sleeper[m] = None
          BY DEF RequestsInv, CallbacksWake
        <5>4. QED
          BY <2>1, <4>1, <5>1, <5>2, <5>3 DEF Only
      <4>4. QED
        BY <4>2, <4>3
    <3>4. QED
      BY <3>3 DEF CallbacksWake, At
  <2>13. OneSleeper'
    <3>1. CASE l = "lock"
      BY <1>1, <1>3, <2>11, <3>1 DEF OneSleeper, Locks, RequestsInv, RequestsTypeOK
    <3>2. CASE l = "maps"
      BY <1>1, <1>3, <2>11, <3>2 DEF OneSleeper, Locks, RequestsInv, RequestsTypeOK
    <3>3. QED
      BY <3>1, <3>2 DEF Locks
  <2>14. QED
    BY <2>3, <2>5, <2>7, <2>9, <2>10, <2>12, <2>13 DEF RequestsInv
<1>4. QED
  BY <1>2, <1>3 DEF AwaitUnlock

-----------------------------------------------------------------------------
(* A request is asked, queued and listened for. *)

\* A handler that was idle asks.
Asks(t) ==
  /\ tasks[t].pc = "idle" /\ tasks'[t].pc \in {"run", "open", "focus"}
  /\ tasks'[t].then \in {"woken", "connect", "prove", "grant"}
  /\ Only(t) /\ Fits(tasks'[t])
  /\ told' = told \ {t} /\ unheard' = unheard \ {t}
  /\ asked' = asked + 1 /\ asked' \in 0..MaxRequests
  /\ UNCHANGED <<browserVars, cached, queueVars, lockVars, approved, agreed, restarts>>

LEMMA OneMoreAsks ==
  ASSUME RequestsInv, NEW t \in Tabs, t \notin Asking, Asking' \subseteq Asking \cup {t},
         nonce' = nonce, asked' = asked + 1
  PROVE  NonceIsBounded'
<1>1. /\ IsFiniteSet(Asking) /\ nonce \in Nat /\ asked \in Nat
      /\ nonce + Cardinality(Asking) <= asked
  BY DEF RequestsInv, NonceIsBounded, RequestsTypeOK
<1>2. IsFiniteSet(Asking \cup {t})
  BY <1>1, FS_AddElement
<1>3. Cardinality(Asking \cup {t}) = Cardinality(Asking) + 1
  BY <1>1, FS_AddElement
<1>4. IsFiniteSet(Asking') /\ Cardinality(Asking') <= Cardinality(Asking \cup {t})
  BY <1>2, FS_Subset
<1>5. Cardinality(Asking) \in Nat /\ Cardinality(Asking') \in Nat
  BY <1>1, <1>4, FS_CardinalityType
<1>6. nonce' + Cardinality(Asking') <= asked'
  BY <1>1, <1>3, <1>4, <1>5
<1>7. QED
  BY <1>4, <1>6 DEF NonceIsBounded

LEMMA AsksKeeps ==
  ASSUME RequestsInv, NEW t \in Tabs, Asks(t)
  PROVE  RequestsInv'
<1>1. /\ t \in Actors /\ Tabs \subseteq Actors /\ t # Ui /\ t # None /\ Ui \in Actors
      /\ tasks[t].pc = "idle" /\ tasks'[t].pc \in {"run", "open", "focus"}
      /\ tasks'[t].then \in {"woken", "connect", "prove", "grant"}
      /\ Only(t) /\ Fits(tasks'[t])
  BY RequestsAssumption DEF Asks, Actors
<1>2. /\ told' = told \ {t} /\ unheard' = unheard \ {t}
      /\ asked' = asked + 1 /\ asked' \in 0..MaxRequests
      /\ UNCHANGED <<browserVars, cached, queueVars, lockVars, approved, agreed, restarts>>
  BY DEF Asks
<1>3. RequestsTypeOK'
  BY <1>1, <1>2 DEF Only, RequestsInv, RequestsTypeOK, browserVars, queueVars, lockVars
<1>4. TasksFit'
  BY <1>1 DEF RequestsInv, TasksFit, Only
<1>5. t \notin Asking /\ Asking' \subseteq Asking \cup {t}
  BY <1>1 DEF Asking, Only
<1>6. nonce' = nonce /\ UNCHANGED queueVars
  BY <1>2 DEF queueVars
<1>7. NonceIsBounded'
  BY <1>2, <1>5, <1>6, OneMoreAsks
<1>8. IdsAreUnique' /\ HandlersAreAlive' /\ WaitersAreQueued' /\ ViewIsCurrent'
  BY <1>1, <1>2, <1>6, QueueIsKept
<1>9. AcceptedByUser' /\ Consent' /\ CachedIsReal'
  BY <1>1, <1>2 DEF RequestsInv, AcceptedByUser, Consent, CachedIsReal, browserVars, Only
<1>10. OneSleeper' /\ CallbacksWake'
  BY <1>1, <1>2 DEF RequestsInv, OneSleeper, CallbacksWake, RequestsTypeOK, lockVars, At,
     Only, Locks
<1>11. QED
  BY <1>3, <1>4, <1>7, <1>8, <1>9, <1>10 DEF RequestsInv

LEMMA ConnectKeeps ==
  ASSUME RequestsInv, NEW t \in Tabs, Connect(t)
  PROVE  RequestsInv'
<1>1. /\ t \in Actors /\ tasks \in [Actors -> Task] /\ cached \in Window \cup {None}
      /\ NoTask \in Task
  BY NoTaskTyped DEF RequestsInv, RequestsTypeOK, Actors
<1>2. /\ Only(t) /\ tasks'[t].pc \in {"run", "open", "focus"} /\ tasks'[t].kind = "connect"
      /\ \/ tasks'[t].pc = "run" /\ tasks'[t].then = "connect"
         \/ tasks'[t].pc \in {"open", "focus"} /\ tasks'[t].then = "woken"
  <2>1. CASE unlocked["lock"]
    <3> DEFINE task == [AskedNow(t, "connect") EXCEPT !.then = "connect"]
    <3>1. task \in Task /\ task.pc = "run" /\ task.then = "connect" /\ task.kind = "connect"
      BY <1>1 DEF AskedNow, NoTask, Task, Kinds
    <3>2. tasks' = [tasks EXCEPT ![t] = task]
      BY <2>1 DEF Connect
    <3> HIDE DEF task
    <3>3. QED
      BY <1>1, <3>1, <3>2 DEF Only
  <2>2. CASE ~unlocked["lock"]
    <3> DEFINE task == [AskedNow(t, "connect") EXCEPT
                          !.pc = IF cached = None THEN "open" ELSE "focus",
                          !.then = "woken", !.window = cached]
    <3>1. /\ task \in Task /\ task.pc \in {"open", "focus"} /\ task.then = "woken"
          /\ task.kind = "connect"
      BY <1>1 DEF AskedNow, NoTask, Task, Kinds
    <3>2. tasks' = [tasks EXCEPT ![t] = task]
      BY <2>2 DEF Connect
    <3> HIDE DEF task
    <3>3. QED
      BY <1>1, <3>1, <3>2 DEF Only
  <2>3. QED
    BY <2>1, <2>2
<1>3. Fits(tasks'[t])
  BY <1>2 DEF Fits, Kinds
<1>4. asked' \in 0..MaxRequests
  BY RequestsAssumption DEF Connect, RequestsInv, RequestsTypeOK
<1>5. Asks(t)
  BY <1>2, <1>3, <1>4 DEF Connect, Asks, At
<1>6. QED
  BY <1>5, AsksKeeps

LEMMA PrepareKeeps ==
  ASSUME RequestsInv, NEW t \in Tabs, NEW kind \in Kinds, Prepare(t, kind)
  PROVE  RequestsInv'
<1>1. /\ t \in Actors /\ tasks \in [Actors -> Task] /\ cached \in Window \cup {None}
      /\ NoTask \in Task
  BY NoTaskTyped DEF RequestsInv, RequestsTypeOK, Actors
<1>2. /\ Only(t) /\ tasks'[t].pc \in {"run", "open", "focus"} /\ tasks'[t].kind = kind
      /\ \/ tasks'[t].pc = "run" /\ tasks'[t].then = "grant"
         \/ tasks'[t].pc \in {"open", "focus"} /\ tasks'[t].then = "prove"
  <2> DEFINE task == [AskedNow(t, kind) EXCEPT !.then = IF approved = "skip" THEN "grant" ELSE "prove",
                        !.pc = IF approved = "skip" THEN "run"
                               ELSE IF cached = None THEN "open" ELSE "focus",
                        !.window = IF approved = "skip" THEN None ELSE cached]
  <2>1. /\ task \in Task /\ task.kind = kind
        /\ \/ task.pc = "run" /\ task.then = "grant"
           \/ task.pc \in {"open", "focus"} /\ task.then = "prove"
    <3>1. CASE approved = "skip"
      BY <1>1, <3>1 DEF AskedNow, NoTask, Task
    <3>2. CASE approved # "skip"
      BY <1>1, <3>2 DEF AskedNow, NoTask, Task
    <3>3. QED
      BY <3>1, <3>2
  <2>2. tasks' = [tasks EXCEPT ![t] = task]
    BY DEF Prepare
  <2> HIDE DEF task
  <2>3. QED
    BY <1>1, <2>1, <2>2 DEF Only
<1>3. Fits(tasks'[t])
  BY <1>2 DEF Fits
<1>4. asked' \in 0..MaxRequests
  BY RequestsAssumption DEF Prepare, RequestsInv, RequestsTypeOK
<1>5. Asks(t)
  BY <1>2, <1>3, <1>4 DEF Prepare, Asks, At
<1>6. QED
  BY <1>5, AsksKeeps

LEMMA OneFewerAsks ==
  ASSUME RequestsInv, NEW t \in Asking, Asking' \subseteq Asking \ {t},
         nonce' = nonce + 1, asked' = asked
  PROVE  NonceIsBounded' /\ nonce' \in 0..MaxRequests
<1>1. IsFiniteSet(Asking) /\ nonce \in Nat /\ asked \in 0..MaxRequests
      /\ nonce + Cardinality(Asking) <= asked
  BY DEF RequestsInv, NonceIsBounded, RequestsTypeOK
<1>2. IsFiniteSet(Asking \ {t})
  BY <1>1, FS_RemoveElement
<1>3. Cardinality(Asking \ {t}) = Cardinality(Asking) - 1
  BY <1>1, FS_RemoveElement
<1>4. IsFiniteSet(Asking') /\ Cardinality(Asking') <= Cardinality(Asking \ {t})
  BY <1>2, FS_Subset
<1>5. Cardinality(Asking) \in Nat /\ Cardinality(Asking') \in Nat
  BY <1>1, <1>4, FS_CardinalityType
<1>6. nonce' + Cardinality(Asking') <= asked' /\ nonce' \in 0..MaxRequests
  BY <1>1, <1>3, <1>4, <1>5, RequestsAssumption
<1>7. QED
  BY <1>4, <1>6 DEF NonceIsBounded

LEMMA AddToQueueKeeps ==
  ASSUME RequestsInv, NEW t \in Tabs, AddToQueue(t)
  PROVE  RequestsInv'
<1>1. /\ t \in Actors /\ Tabs \subseteq Actors /\ t # Ui /\ t # None /\ Ui \in Actors
      /\ tasks \in [Actors -> Task] /\ tasks[t] \in Task /\ tasks[t].pc = "run"
      /\ tasks[t].then \in {"approve", "prove"} /\ Fits(tasks[t]) /\ nonce \in 0..MaxRequests
  BY RequestsAssumption DEF AddToQueue, Actors, RequestsInv, RequestsTypeOK, TasksFit
<1>2. /\ pending' = pending \cup {NewRequest(t)} /\ nonce' = nonce + 1 /\ asked' = asked
      /\ UNCHANGED <<browserVars, cached, view, lockVars, approved, historyVars, restarts>>
  BY DEF AddToQueue, historyVars
<1>3. /\ Only(t) /\ tasks'[t].pc = "push" /\ tasks'[t].then = tasks[t].then
      /\ tasks'[t].id = nonce
      /\ tasks'[t].window = tasks[t].window /\ tasks'[t].kind = tasks[t].kind
  BY <1>1 DEF AddToQueue, Only, Task
<1>4. NewRequest(t) \in Pending
  BY <1>1 DEF NewRequest, Pending, Fits
<1>5. t \in Asking /\ Asking' \subseteq Asking \ {t}
  BY <1>1, <1>3 DEF Asking, Only
<1>6. NonceIsBounded' /\ nonce' \in 0..MaxRequests
  BY <1>2, <1>5, OneFewerAsks
<1>7. RequestsTypeOK'
  BY <1>2, <1>3, <1>4, <1>6
     DEF Only, RequestsInv, RequestsTypeOK, browserVars, lockVars, historyVars
<1>8. Fits(tasks'[t])
  BY <1>1, <1>3 DEF Fits
<1>9. TasksFit'
  BY <1>1, <1>3, <1>8 DEF RequestsInv, TasksFit, Only
<1>10. /\ Listening' = Listening \cup {t} /\ t \notin Listening
       /\ \A u \in Listening : tasks'[u] = tasks[u] /\ tasks[u].id \in Nat
  BY <1>1, <1>3 DEF Listening, Only, Task
<1>11. \A r \in pending : r.tab \in Listening /\ r.id \in Nat
  BY DEF RequestsInv, RequestsTypeOK, Pending, HandlersAreAlive, Listening
<1>12. /\ NewRequest(t).id = nonce /\ NewRequest(t).tab = t
       /\ NewRequest(t).window = tasks[t].window
  BY DEF NewRequest
<1>13. \A r \in pending : r.id < nonce /\ tasks[r.tab].window = r.window
  BY DEF RequestsInv, IdsAreUnique
<1>14. /\ \A u \in Listening : tasks[u].id < nonce
       /\ \A u, v \in Listening : tasks[u].id = tasks[v].id => u = v
  BY DEF RequestsInv, IdsAreUnique
<1>15. IdsAreUnique'
  <2>1. \A r \in pending' : r.id < nonce'
    BY <1>1, <1>2, <1>11, <1>12, <1>13
  <2>2. \A u \in Listening' : tasks'[u].id < nonce'
    BY <1>1, <1>2, <1>3, <1>10, <1>14
  <2>3. \A u, v \in Listening' : tasks'[u].id = tasks'[v].id => u = v
    BY <1>1, <1>3, <1>10, <1>14
  <2>4. \A r \in pending' : tasks'[r.tab].window = r.window
    BY <1>2, <1>3, <1>10, <1>11, <1>12, <1>13
  <2>5. QED
    BY <2>1, <2>2, <2>3, <2>4 DEF IdsAreUnique
<1>16. HandlersAreAlive'
  BY <1>2, <1>3, <1>10, <1>11, <1>12 DEF RequestsInv, HandlersAreAlive
<1>17. ViewIsCurrent'
  <2>1. SUFFICES ASSUME NEW u \in Tabs, tasks'[u].pc = "wait", NEW r \in view
                 PROVE  r.id < nonce' /\ \A v \in Listening' : tasks'[v].id = r.id => v = r.tab
    BY <1>2 DEF ViewIsCurrent, At
  <2>2. tasks[u].pc = "wait"
    BY <1>1, <1>3, <2>1 DEF Only
  <2>3. r.id < nonce /\ \A v \in Listening : tasks[v].id = r.id => v = r.tab
    BY <2>1, <2>2 DEF RequestsInv, ViewIsCurrent, At
  <2>4. r.id \in Nat
    BY DEF RequestsInv, RequestsTypeOK, Pending
  <2>5. QED
    BY <1>1, <1>2, <1>3, <1>10, <2>3, <2>4
<1>18. AcceptedByUser' /\ Consent' /\ CachedIsReal'
  BY <1>1, <1>2, <1>3
     DEF RequestsInv, AcceptedByUser, Consent, CachedIsReal, browserVars, historyVars, Only
<1>19. OneSleeper' /\ CallbacksWake'
  BY <1>1, <1>2, <1>3
     DEF RequestsInv, OneSleeper, CallbacksWake, RequestsTypeOK, lockVars, At, Only, Locks
<1>20. WaitersAreQueued'
  <2>1. SUFFICES ASSUME NEW u \in Listening'
                 PROVE  u \in unheard' \/ \E r \in pending' : /\ r.tab = u /\ r.id = tasks'[u].id
                                                              /\ r.window = tasks'[u].window
    BY DEF WaitersAreQueued, Listening
  <2>2. CASE u = t
    BY <1>2, <1>3, <1>12, <2>2
  <2>3. CASE u # t
    <3>1. u \in Listening /\ tasks'[u] = tasks[u] /\ unheard' = unheard
      BY <1>2, <1>10, <2>3 DEF historyVars
    <3>2. u \in unheard \/ \E r \in pending : /\ r.tab = u /\ r.id = tasks[u].id
                                              /\ r.window = tasks[u].window
      BY <3>1 DEF RequestsInv, WaitersAreQueued, Listening
    <3>3. QED
      BY <1>2, <3>1, <3>2
  <2>4. QED
    BY <2>2, <2>3
<1>21. QED
  BY <1>6, <1>7, <1>9, <1>15, <1>16, <1>17, <1>18, <1>19, <1>20 DEF RequestsInv

\* A popup that has just heard of the queue shows what is in it.
LEMMA NewViewIsCurrent ==
  ASSUME pending' \subseteq Pending, IdsAreUnique', HandlersAreAlive', view' = pending'
  PROVE  ViewIsCurrent'
<1>1. \A r \in pending' : r.tab \in Listening' /\ tasks'[r.tab].id = r.id /\ r.id < nonce'
  BY DEF Pending, HandlersAreAlive, IdsAreUnique, Listening
<1>2. \A t, u \in Listening' : tasks'[t].id = tasks'[u].id => t = u
  BY DEF IdsAreUnique
<1>3. QED
  BY <1>1, <1>2 DEF ViewIsCurrent

LEMMA ListenKeeps ==
  ASSUME RequestsInv, NEW t \in Tabs, Listen(t)
  PROVE  RequestsInv'
<1>1. /\ t \in Actors /\ Tabs \subseteq Actors /\ t # Ui /\ t # None /\ Ui \in Actors
      /\ tasks \in [Actors -> Task] /\ tasks[t] \in Task /\ tasks[t].pc = "push"
      /\ tasks[t].then \in {"approve", "prove"} /\ Fits(tasks[t]) /\ pending \subseteq Pending
  BY RequestsAssumption DEF Listen, At, Actors, RequestsInv, RequestsTypeOK, TasksFit, Fits
<1>2. /\ view' = pending /\ pending' = pending /\ nonce' = nonce /\ asked' = asked
      /\ UNCHANGED <<browserVars, cached, lockVars, approved, historyVars, restarts>>
  BY DEF Listen, historyVars
<1>3. /\ Only(t) /\ tasks'[t].pc = "wait" /\ tasks'[t].then = tasks[t].then
      /\ tasks'[t].id = tasks[t].id /\ tasks'[t].window = tasks[t].window
      /\ tasks'[t].kind = tasks[t].kind
  BY <1>1 DEF Listen, Goto, Only, Task
<1>4. RequestsTypeOK'
  BY <1>1, <1>2, <1>3 DEF Only, RequestsInv, RequestsTypeOK, browserVars, lockVars, historyVars
<1>5. Fits(tasks'[t])
  BY <1>1, <1>3 DEF Fits
<1>6. TasksFit'
  BY <1>1, <1>3, <1>5 DEF RequestsInv, TasksFit, Only
<1>7. Asking' = Asking
  BY <1>1, <1>3 DEF Asking, Only
<1>8. NonceIsBounded'
  BY <1>2, <1>7, AskingShrinks
<1>9. /\ Listening' = Listening
      /\ \A u \in Listening : tasks'[u].id = tasks[u].id /\ tasks'[u].window = tasks[u].window
  BY <1>1, <1>3 DEF Listening, Only
<1>10. \A r \in pending : r.tab \in Listening
  BY DEF RequestsInv, RequestsTypeOK, Pending, HandlersAreAlive, Listening
<1>11. IdsAreUnique'
  BY <1>2, <1>9, <1>10 DEF RequestsInv, IdsAreUnique
<1>12. HandlersAreAlive'
  BY <1>2, <1>9, <1>10 DEF RequestsInv, HandlersAreAlive, Listening
<1>13. ViewIsCurrent'
  BY <1>1, <1>2, <1>11, <1>12, NewViewIsCurrent
<1>14. AcceptedByUser' /\ Consent' /\ CachedIsReal'
  BY <1>1, <1>2, <1>3
     DEF RequestsInv, AcceptedByUser, Consent, CachedIsReal, browserVars, historyVars, Only
<1>15. OneSleeper' /\ CallbacksWake'
  BY <1>1, <1>2, <1>3
     DEF RequestsInv, OneSleeper, CallbacksWake, RequestsTypeOK, lockVars, At, Only, Locks
<1>16. WaitersAreQueued'
  BY <1>2, <1>9, WaitersAreKept DEF historyVars
<1>17. QED
  BY <1>4, <1>6, <1>8, <1>11, <1>12, <1>13, <1>14, <1>15, <1>16 DEF RequestsInv

-----------------------------------------------------------------------------
(* Some handlers that wait go on: the popup has answered, or is gone. *)

\* The handlers of `gone' stop listening, with another `then'; the requests that are
\* left in the queue are of other handlers, and those that leave it of handlers that stop
\* or do not hear of it.  The popup's own task may start to close it.
Answers(gone, then) ==
  /\ gone \subseteq {t \in Tabs : tasks[t].pc = "wait"}
  /\ then \in {"answered", "refused", "gone"}
  /\ tasks' \in [Actors -> Task]
  /\ \A t \in gone : /\ tasks'[t].pc = "run" /\ tasks'[t].then = then
                     /\ tasks'[t].kind = tasks[t].kind
  /\ \A t \in Tabs \ gone : tasks'[t] = tasks[t]
  /\ tasks'[Ui] = tasks[Ui] \/ tasks'[Ui].pc = "save"
  /\ pending' \subseteq pending /\ \A r \in pending' : r.tab \notin gone
  /\ unheard \subseteq unheard' /\ unheard' \subseteq Tabs
  /\ \A r \in pending \ pending' : r.tab \in gone \cup unheard'
  /\ UNCHANGED <<nonce, lockVars, approved, asked, restarts>>

LEMMA AnswersMoves ==
  ASSUME RequestsInv, NEW gone, NEW then, Answers(gone, then)
  PROVE  /\ TasksFit' /\ NonceIsBounded' /\ IdsAreUnique' /\ HandlersAreAlive' /\ WaitersAreQueued'
         /\ OneSleeper' /\ CallbacksWake'
         /\ Listening' \subseteq Listening /\ \A t \in Listening' : tasks'[t] = tasks[t]
         /\ \A t \in Tabs : tasks'[t].pc = "wait" => tasks[t].pc = "wait"
<1>1. /\ Tabs \subseteq Actors /\ Ui \in Actors /\ Ui \notin Tabs /\ None \notin Tabs
      /\ gone \subseteq Tabs /\ \A t \in gone : tasks[t].pc = "wait"
  BY RequestsAssumption DEF Answers, Actors
<1>2. /\ then \in {"answered", "refused", "gone"}
      /\ \A t \in gone : tasks'[t].pc = "run" /\ tasks'[t].then = then /\ tasks'[t].kind = tasks[t].kind
      /\ \A t \in Tabs \ gone : tasks'[t] = tasks[t]
      /\ tasks'[Ui] = tasks[Ui] \/ tasks'[Ui].pc = "save"
  BY DEF Answers
<1>3. /\ pending' \subseteq pending /\ \A r \in pending' : r.tab \notin gone
      /\ nonce' = nonce /\ asked' = asked /\ UNCHANGED lockVars
  BY DEF Answers
<1>4. TasksFit'
  <2>1. ASSUME NEW t \in Tabs PROVE Fits(tasks'[t])
    <3>1. Fits(tasks[t])
      BY DEF RequestsInv, TasksFit
    <3>2. CASE t \in gone
      BY <1>1, <1>2, <3>1, <3>2 DEF Fits
    <3>3. CASE t \notin gone
      BY <1>2, <3>1, <3>3
    <3>4. QED
      BY <3>2, <3>3
  <2>2. UiFits(tasks'[Ui])
    BY <1>2 DEF RequestsInv, TasksFit, UiFits
  <2>3. QED
    BY <2>1, <2>2 DEF TasksFit
<1>5. Asking' \subseteq Asking
  BY <1>1, <1>2 DEF Asking
<1>6. NonceIsBounded'
  BY <1>3, <1>5, AskingShrinks
<1>7. Listening' \subseteq Listening /\ \A t \in Listening' : tasks'[t] = tasks[t]
  BY <1>1, <1>2 DEF Listening
<1>8. \A r \in pending' : r.tab \in Tabs /\ r.tab \in Listening /\ tasks'[r.tab] = tasks[r.tab]
  BY <1>2, <1>3 DEF RequestsInv, RequestsTypeOK, Pending, HandlersAreAlive, Listening
<1>9. HandlersAreAlive'
  BY <1>3, <1>8 DEF RequestsInv, HandlersAreAlive
<1>10. IdsAreUnique'
  BY <1>3, <1>7, <1>8 DEF RequestsInv, IdsAreUnique
<1>11. OneSleeper' /\ CallbacksWake'
  <2>1. sleeper' = sleeper /\ unlocked' = unlocked
    BY <1>3 DEF lockVars
  <2>2. ASSUME NEW l \in Locks, sleeper[l] # None
        PROVE  tasks'[sleeper[l]].pc = "sleep"
    <3>1. sleeper[l] \in Tabs /\ tasks[sleeper[l]].pc = "sleep"
      BY <2>2 DEF RequestsInv, RequestsTypeOK, CallbacksWake, At
    <3>2. QED
      BY <1>1, <1>2, <3>1
  <2>3. QED
    BY <2>1, <2>2 DEF RequestsInv, OneSleeper, CallbacksWake, At
<1>12. \A t \in Tabs : tasks'[t].pc = "wait" => tasks[t].pc = "wait"
  BY <1>1, <1>2
<1>13. WaitersAreQueued'
  <2>1. SUFFICES ASSUME NEW t \in Listening'
                 PROVE  t \in unheard' \/ \E r \in pending' : /\ r.tab = t /\ r.id = tasks'[t].id
                                                              /\ r.window = tasks'[t].window
    BY DEF WaitersAreQueued, Listening
  <2>2. t \in Listening /\ t \notin gone /\ tasks'[t] = tasks[t]
    BY <1>2, <1>7 DEF Listening
  <2>3. t \in unheard \/ \E r \in pending : /\ r.tab = t /\ r.id = tasks[t].id
                                            /\ r.window = tasks[t].window
    BY <2>2 DEF RequestsInv, WaitersAreQueued, Listening
  <2>4. /\ unheard \subseteq unheard'
        /\ \A r \in pending \ pending' : r.tab \in gone \cup unheard'
    BY DEF Answers
  <2>5. QED
    BY <2>2, <2>3, <2>4
<1>14. QED
  BY <1>4, <1>6, <1>7, <1>9, <1>10, <1>11, <1>12, <1>13

\* The task that finalizeRequest leaves to the popup.
LEMMA UiTaskTyped ==
  [NoTask EXCEPT !.pc = "save"] \in Task /\ [NoTask EXCEPT !.pc = "save"].pc = "save"
BY NoTaskTyped DEF NoTask, Task

LEMMA FinalizeMoves ==
  ASSUME RequestsInv, NEW r \in view, NEW then \in {"answered", "refused"}, Finalize(r, then),
         UNCHANGED <<nonce, lockVars, approved, asked, restarts>>
  PROVE  /\ Answers({t \in Tabs : tasks[t].pc = "wait" /\ tasks[t].id = r.id}, then)
         /\ ViewIsCurrent' /\ view' \subseteq Pending
         /\ \A t \in Tabs : /\ tasks'[t].then = "answered" => tasks[t].then = "answered" \/ t = r.tab
                            /\ tasks'[t].then = "add" => tasks[t].then = "add"
<1> DEFINE gone == {t \in Tabs : tasks[t].pc = "wait" /\ tasks[t].id = r.id}
<1>1. /\ Tabs \subseteq Actors /\ Ui \in Actors /\ Ui \notin Tabs
      /\ tasks \in [Actors -> Task] /\ pending \subseteq Pending
  BY RequestsAssumption DEF Actors, RequestsInv, RequestsTypeOK
<1>2. /\ pending' = Queued(pending, r.id) /\ view' = pending'
      /\ tasks' = [t \in Actors |->
           IF t = Ui THEN [NoTask EXCEPT !.pc = "save"]
           ELSE IF At(t, "wait") /\ tasks[t].id = r.id
           THEN [NoTask EXCEPT !.pc = "run", !.then = then, !.kind = tasks[t].kind]
           ELSE tasks[t]]
  BY DEF Finalize
<1>3. \A t \in gone : tasks[t].kind \in Kinds
  BY DEF RequestsInv, TasksFit, Fits
<1>4. tasks'[Ui] \in Task /\ tasks'[Ui].pc = "save"
  BY <1>1, <1>2, UiTaskTyped
<1>5. \A t \in Tabs \ gone : tasks'[t] = tasks[t]
  BY <1>1, <1>2 DEF At
<1>6. ASSUME NEW t \in gone
      PROVE  /\ tasks'[t] \in Task /\ tasks'[t].pc = "run" /\ tasks'[t].then = then
             /\ tasks'[t].kind = tasks[t].kind
  <2>1. tasks'[t] = [NoTask EXCEPT !.pc = "run", !.then = then, !.kind = tasks[t].kind]
    BY <1>1, <1>2 DEF At
  <2>2. QED
    BY <1>3, <2>1, NoTaskTyped DEF NoTask, Task
<1>7. tasks' \in [Actors -> Task]
  <2>1. \A t \in Actors : tasks'[t] \in Task
    BY <1>1, <1>4, <1>5, <1>6 DEF Actors
  <2>2. tasks' = [t \in Actors |-> tasks'[t]]
    BY <1>2
  <2>3. QED
    BY <2>1, <2>2
<1>8. pending' \subseteq pending /\ \A q \in pending' : q.id # r.id
  BY <1>2 DEF Queued
<1>9. \A q \in pending' : q.tab \notin gone
  BY <1>8 DEF RequestsInv, HandlersAreAlive
<1>10. gone \subseteq {t \in Tabs : tasks[t].pc = "wait"}
  OBVIOUS
<1>11. /\ unheard \subseteq unheard' /\ unheard' \subseteq Tabs
       /\ \A q \in pending \ pending' : q.tab \in gone \cup unheard'
  <2>1. unheard' = unheard \cup {t \in Tabs : tasks[t].pc = "push" /\ tasks[t].id = r.id}
    BY DEF Finalize, At
  <2>2. ASSUME NEW q \in pending \ pending'
        PROVE  q.tab \in gone \cup unheard'
    <3>1. q.id = r.id
      BY <1>2 DEF Queued
    <3>2. /\ q.tab \in Tabs /\ tasks[q.tab].id = q.id
          /\ tasks[q.tab].pc = "push" \/ tasks[q.tab].pc = "wait"
      BY <1>1 DEF RequestsInv, HandlersAreAlive, Pending
    <3>3. QED
      BY <2>1, <3>1, <3>2
  <2>3. QED
    BY <2>1, <2>2 DEF RequestsInv, RequestsTypeOK
<1>12. Answers(gone, then)
  BY <1>4, <1>5, <1>6, <1>7, <1>8, <1>9, <1>10, <1>11 DEF Answers
<1>13. ViewIsCurrent'
  BY <1>1, <1>2, <1>8, <1>12, AnswersMoves, NewViewIsCurrent
<1>14. \A t \in gone : t = r.tab
  BY DEF RequestsInv, ViewIsCurrent, Listening, At
<1>15. \A t \in Tabs : /\ tasks'[t].then = "answered" => tasks[t].then = "answered" \/ t = r.tab
                       /\ tasks'[t].then = "add" => tasks[t].then = "add"
  BY <1>5, <1>6, <1>14
<1>16. QED
  BY <1>1, <1>2, <1>8, <1>12, <1>13, <1>15

LEMMA AcceptKeeps ==
  ASSUME RequestsInv, NEW r \in view, Accept(r)
  PROVE  RequestsInv'
<1>1. /\ Finalize(r, "answered") /\ told' = told \cup {r.tab} /\ agreed' = TRUE
      /\ UNCHANGED <<browserVars, cached, nonce, lockVars, approved, asked, restarts>>
  BY DEF Accept
<1>2. \E gone : Answers(gone, "answered")
  BY <1>1, FinalizeMoves
<1>3. /\ TasksFit' /\ NonceIsBounded' /\ IdsAreUnique' /\ HandlersAreAlive' /\ WaitersAreQueued'
      /\ OneSleeper' /\ CallbacksWake'
  BY <1>2, AnswersMoves
<1>4. tasks' \in [Actors -> Task] /\ pending' \subseteq pending /\ unheard' \subseteq Tabs
  BY <1>2 DEF Answers
<1>5. /\ ViewIsCurrent' /\ view' \subseteq Pending
      /\ \A t \in Tabs : tasks'[t].then = "answered" => tasks[t].then = "answered" \/ t = r.tab
  BY <1>1, FinalizeMoves
<1>6. r.tab \in Tabs
  BY DEF RequestsInv, RequestsTypeOK, Pending
<1>7. RequestsTypeOK'
  BY <1>1, <1>4, <1>5, <1>6 DEF RequestsInv, RequestsTypeOK, browserVars, lockVars
<1>8. AcceptedByUser' /\ Consent' /\ CachedIsReal'
  BY <1>1, <1>5 DEF RequestsInv, AcceptedByUser, Consent, CachedIsReal, browserVars
<1>9. QED
  BY <1>3, <1>5, <1>7, <1>8 DEF RequestsInv

LEMMA RejectKeeps ==
  ASSUME RequestsInv, NEW r \in view, Reject(r)
  PROVE  RequestsInv'
<1>1. /\ Finalize(r, "refused")
      /\ UNCHANGED <<browserVars, cached, nonce, lockVars, approved, told, agreed, asked,
                     restarts>>
  BY DEF Reject, historyVars
<1> DEFINE gone == {t \in Tabs : tasks[t].pc = "wait" /\ tasks[t].id = r.id}
<1>2. Answers(gone, "refused")
  BY <1>1, FinalizeMoves
<1>3. /\ TasksFit' /\ NonceIsBounded' /\ IdsAreUnique' /\ HandlersAreAlive' /\ WaitersAreQueued'
      /\ OneSleeper' /\ CallbacksWake'
  BY <1>2, AnswersMoves
<1>4. tasks' \in [Actors -> Task] /\ pending' \subseteq pending /\ unheard' \subseteq Tabs
  BY <1>2 DEF Answers
<1>5. ViewIsCurrent' /\ view' \subseteq Pending
  BY <1>1, FinalizeMoves
<1>6. \A t \in Tabs : tasks'[t] = tasks[t] \/ tasks'[t].then = "refused"
  BY <1>2 DEF Answers
<1>7. RequestsTypeOK'
  BY <1>1, <1>4, <1>5 DEF RequestsInv, RequestsTypeOK, browserVars, lockVars
<1>8. AcceptedByUser' /\ Consent' /\ CachedIsReal'
  BY <1>1, <1>6 DEF RequestsInv, AcceptedByUser, Consent, CachedIsReal, browserVars
<1>9. QED
  BY <1>3, <1>5, <1>7, <1>8 DEF RequestsInv

LEMMA WindowRemovedKeeps ==
  ASSUME RequestsInv, NEW w \in Window, WindowRemoved(w)
  PROVE  RequestsInv'
<1> DEFINE gone == {t \in Tabs : tasks[t].pc = "wait" /\ tasks[t].window = w}
<1>1. /\ Tabs \subseteq Actors /\ Ui \in Actors /\ Ui \notin Tabs
      /\ tasks \in [Actors -> Task] /\ pending \subseteq Pending /\ tasks[Ui].pc # "wait"
  BY RequestsAssumption DEF Actors, RequestsInv, RequestsTypeOK, TasksFit, UiFits
<1>2. /\ removed' = removed \ {w} /\ cached' = IF cached = w THEN None ELSE cached
      /\ pending' = OfOtherWindows(pending, w)
      /\ tasks' = [t \in Actors |-> IF At(t, "wait") /\ tasks[t].window = w
                                    THEN [tasks[t] EXCEPT !.pc = "run", !.then = "gone"]
                                    ELSE tasks[t]]
  BY DEF WindowRemoved
<1>3. UNCHANGED <<windows, opened, nonce, view, lockVars, approved, told, agreed, asked,
                  restarts>>
  BY DEF WindowRemoved
<1>4. \A t \in Tabs \ gone : tasks'[t] = tasks[t]
  BY <1>1, <1>2 DEF At
<1>5. tasks'[Ui] = tasks[Ui]
  BY <1>1, <1>2 DEF At
<1>6. ASSUME NEW t \in gone
      PROVE  /\ tasks'[t] \in Task /\ tasks'[t].pc = "run" /\ tasks'[t].then = "gone"
             /\ tasks'[t].kind = tasks[t].kind
  <2>1. tasks'[t] = [tasks[t] EXCEPT !.pc = "run", !.then = "gone"] /\ tasks[t] \in Task
    BY <1>1, <1>2 DEF At
  <2>2. QED
    BY <2>1 DEF Task
<1>7. tasks' \in [Actors -> Task]
  <2>1. \A t \in Actors : tasks'[t] \in Task
    BY <1>1, <1>4, <1>5, <1>6 DEF Actors
  <2>2. tasks' = [t \in Actors |-> tasks'[t]]
    BY <1>2
  <2>3. QED
    BY <2>1, <2>2
<1>8. pending' \subseteq pending /\ \A q \in pending' : q.window # w
  BY <1>2 DEF OfOtherWindows
<1>9. \A q \in pending' : q.tab \notin gone
  BY <1>8 DEF RequestsInv, IdsAreUnique
<1>10. /\ unheard \subseteq unheard' /\ unheard' \subseteq Tabs
       /\ \A q \in pending \ pending' : q.tab \in gone \cup unheard'
  <2>1. unheard' = unheard \cup {t \in Tabs : tasks[t].pc = "push" /\ tasks[t].window = w}
    BY DEF WindowRemoved, At
  <2>2. ASSUME NEW q \in pending \ pending'
        PROVE  q.tab \in gone \cup unheard'
    <3>1. q.window = w
      BY <1>2 DEF OfOtherWindows
    <3>2. /\ q.tab \in Tabs /\ tasks[q.tab].window = q.window
          /\ tasks[q.tab].pc = "push" \/ tasks[q.tab].pc = "wait"
      BY <1>1 DEF RequestsInv, HandlersAreAlive, IdsAreUnique, Pending
    <3>3. QED
      BY <2>1, <3>1, <3>2
  <2>3. QED
    BY <2>1, <2>2 DEF RequestsInv, RequestsTypeOK
<1>11. Answers(gone, "gone")
  BY <1>3, <1>4, <1>5, <1>6, <1>7, <1>8, <1>9, <1>10 DEF Answers
<1>12. /\ TasksFit' /\ NonceIsBounded' /\ IdsAreUnique' /\ HandlersAreAlive' /\ WaitersAreQueued'
       /\ OneSleeper' /\ CallbacksWake'
       /\ Listening' \subseteq Listening /\ \A t \in Listening' : tasks'[t] = tasks[t]
       /\ \A t \in Tabs : tasks'[t].pc = "wait" => tasks[t].pc = "wait"
  BY <1>11, AnswersMoves
<1>13. ViewIsCurrent'
  BY <1>3, <1>12 DEF RequestsInv, ViewIsCurrent, At
<1>14. RequestsTypeOK'
  BY <1>2, <1>3, <1>7, <1>8, <1>10 DEF RequestsInv, RequestsTypeOK, lockVars
<1>15. AcceptedByUser' /\ Consent'
  BY <1>3, <1>4, <1>6 DEF RequestsInv, AcceptedByUser, Consent
<1>16. CachedIsReal'
  BY <1>2, <1>3 DEF RequestsInv, CachedIsReal
<1>17. QED
  BY <1>12, <1>13, <1>14, <1>15, <1>16 DEF RequestsInv

-----------------------------------------------------------------------------
(* The popups and the lock move, and no handler but those that slept. *)

\* No handler moves, and the queue stays.
Still ==
  /\ UNCHANGED <<cached, pending, nonce, tasks, told, unheard, asked>>
  /\ RequestsTypeOK' /\ CachedIsReal'
  /\ (agreed => agreed') /\ (approved' # "no" => agreed')

LEMMA StillKeeps ==
  ASSUME RequestsInv, Still
  PROVE  /\ TasksFit' /\ NonceIsBounded' /\ IdsAreUnique' /\ HandlersAreAlive' /\ WaitersAreQueued'
         /\ AcceptedByUser' /\ Consent'
         /\ view' \in {view, pending} => ViewIsCurrent'
<1>1. /\ UNCHANGED <<cached, pending, nonce, tasks, told, unheard, asked>>
      /\ (agreed => agreed') /\ (approved' # "no" => agreed')
  BY DEF Still
<1>2. Asking' = Asking /\ Listening' = Listening
  BY <1>1 DEF Asking, Listening
<1>3. NonceIsBounded'
  BY <1>1, <1>2, AskingShrinks
<1>4. TasksFit' /\ IdsAreUnique' /\ HandlersAreAlive' /\ AcceptedByUser' /\ Consent'
  BY <1>1, <1>2 DEF RequestsInv, TasksFit, IdsAreUnique, HandlersAreAlive, AcceptedByUser, Consent
<1>5. ASSUME view' \in {view, pending}
      PROVE  ViewIsCurrent'
  <2>1. CASE view' = view
    BY <1>1, <1>2, <2>1 DEF RequestsInv, ViewIsCurrent, At
  <2>2. CASE view' = pending
    BY <1>1, <1>4, <2>2, NewViewIsCurrent DEF RequestsInv, RequestsTypeOK
  <2>3. QED
    BY <1>5, <2>1, <2>2
<1>6. WaitersAreQueued'
  BY <1>1, <1>2, WaitersAreKept
<1>7. QED
  BY <1>3, <1>4, <1>5, <1>6

LEMMA PopupsKeep ==
  ASSUME RequestsInv,
         (\E r \in view : TickBox(r)) \/ FetchPending \/ (\E w \in Window : CloseWindow(w))
  PROVE  RequestsInv'
<1>1. /\ UNCHANGED <<opened, cached, pending, nonce, lockVars, tasks, told, unheard, asked,
                     restarts>>
      /\ view' \in {view, pending}
  BY DEF TickBox, FetchPending, CloseWindow, browserVars, queueVars, historyVars
<1>2. /\ windows' \subseteq windows /\ removed' \subseteq Window
      /\ windows \cup removed = windows' \cup removed'
  BY DEF TickBox, FetchPending, CloseWindow, browserVars, RequestsInv, RequestsTypeOK
<1>3. /\ approved' \in {"no", "ask", "skip"} /\ agreed' \in BOOLEAN
      /\ (agreed => agreed') /\ (approved' # "no" => agreed')
  BY DEF TickBox, SetHostPermissions, FetchPending, CloseWindow, historyVars, RequestsInv,
         RequestsTypeOK, Consent
<1>4. RequestsTypeOK'
  BY <1>1, <1>2, <1>3 DEF RequestsInv, RequestsTypeOK, lockVars
<1>5. CachedIsReal'
  BY <1>1, <1>2 DEF RequestsInv, CachedIsReal
<1>6. Still
  BY <1>1, <1>3, <1>4, <1>5 DEF Still
<1>7. OneSleeper' /\ CallbacksWake'
  BY <1>1 DEF RequestsInv, OneSleeper, CallbacksWake, lockVars, At
<1>8. QED
  BY <1>1, <1>4, <1>5, <1>6, <1>7, StillKeeps DEF RequestsInv

\* BaseService.onLock, of the lock or of the services with maps.
LEMMA LockKeeps ==
  ASSUME RequestsInv, LockLock \/ LockMaps
  PROVE  RequestsInv'
<1>1. /\ UNCHANGED <<browserVars, cached, queueVars, approved, tasks, historyVars, restarts>>
      /\ chain' \in {"none", "lock"}
  BY DEF LockLock, LockMaps
<1>2. \E l \in Locks : /\ unlocked' = [unlocked EXCEPT ![l] = FALSE]
                       /\ sleeper' = [sleeper EXCEPT ![l] = None]
  BY DEF LockLock, LockMaps, Locks
<1>3. PICK l \in Locks : /\ unlocked' = [unlocked EXCEPT ![l] = FALSE]
                         /\ sleeper' = [sleeper EXCEPT ![l] = None]
  BY <1>2
<1>4. RequestsTypeOK'
  BY <1>1, <1>3 DEF RequestsInv, RequestsTypeOK, browserVars, queueVars, historyVars
<1>5. CachedIsReal'
  BY <1>1 DEF RequestsInv, CachedIsReal, browserVars
<1>6. Still
  BY <1>1, <1>4, <1>5 DEF Still, queueVars, historyVars, RequestsInv, Consent
<1>7. OneSleeper' /\ CallbacksWake'
  BY <1>1, <1>3 DEF RequestsInv, RequestsTypeOK, OneSleeper, CallbacksWake, At, Locks
<1>8. QED
  BY <1>1, <1>4, <1>5, <1>6, <1>7, StillKeeps DEF RequestsInv, queueVars

\* Who sleeps for the lock, or for the maps, goes on when it is opened.
LEMMA WakeKeeps ==
  ASSUME RequestsInv, NEW l \in Locks, Wake(l), sleeper' = [sleeper EXCEPT ![l] = None],
         unlocked' = [unlocked EXCEPT ![l] = TRUE], chain' \in {"none", "unlock"},
         UNCHANGED <<browserVars, cached, queueVars, approved, historyVars, restarts>>
  PROVE  RequestsInv'
<1>1. Tabs \subseteq Actors /\ Ui \in Actors /\ Ui \notin Tabs /\ None \notin Tabs
  BY RequestsAssumption DEF Actors
<1>2. /\ tasks' = [t \in Actors |-> IF sleeper[l] = t THEN [tasks[t] EXCEPT !.pc = "run"]
                                                      ELSE tasks[t]]
      /\ sleeper \in [Locks -> Tabs \cup {None}] /\ unlocked \in [Locks -> BOOLEAN]
      /\ tasks \in [Actors -> Task]
  BY DEF Wake, RequestsInv, RequestsTypeOK
<1>3. \A t \in Actors \ {sleeper[l]} : tasks'[t] = tasks[t]
  BY <1>2
<1>4. ASSUME NEW t \in Actors, t = sleeper[l]
      PROVE  /\ t \in Tabs /\ tasks[t].pc = "sleep" /\ tasks[t].then = "woken"
             /\ tasks'[t] \in Task /\ tasks'[t].pc = "run" /\ tasks'[t].then = "woken"
             /\ tasks'[t].kind = tasks[t].kind /\ Fits(tasks'[t])
  <2>1. t \in Tabs \cup {None} /\ (t # None => tasks[t].pc = "sleep")
    BY <1>2, <1>4 DEF RequestsInv, CallbacksWake, At
  <2>2. CASE t = None
    BY <1>4, <2>2, RequestsAssumption DEF Actors
  <2>3. CASE t # None
    <3>1. t \in Tabs /\ tasks[t].pc = "sleep" /\ Fits(tasks[t])
      BY <2>1, <2>3 DEF RequestsInv, TasksFit
    <3>2. tasks[t].then = "woken" /\ tasks[t].kind \in Kinds
      BY <3>1 DEF Fits
    <3>3. tasks'[t] = [tasks[t] EXCEPT !.pc = "run"]
      BY <1>2, <1>4
    <3>4. /\ tasks'[t] \in Task /\ tasks'[t].pc = "run" /\ tasks'[t].then = "woken"
          /\ tasks'[t].kind = tasks[t].kind
      BY <1>2, <3>2, <3>3 DEF Task
    <3>5. QED
      BY <3>1, <3>2, <3>4 DEF Fits
  <2>4. QED
    BY <2>2, <2>3
<1>5. tasks' \in [Actors -> Task]
  <2>1. \A t \in Actors : tasks'[t] \in Task
    BY <1>2, <1>3, <1>4
  <2>2. tasks' = [t \in Actors |-> tasks'[t]]
    BY <1>2
  <2>3. QED
    BY <2>1, <2>2
<1>6. TasksFit'
  <2>1. \A t \in Tabs : Fits(tasks'[t])
    BY <1>1, <1>3, <1>4 DEF RequestsInv, TasksFit
  <2>2. UiFits(tasks'[Ui])
    BY <1>1, <1>3, <1>4 DEF RequestsInv, TasksFit
  <2>3. QED
    BY <2>1, <2>2 DEF TasksFit
<1>7. UNCHANGED <<pending, nonce, view, told, agreed, unheard, asked>>
  BY DEF queueVars, historyVars
<1>8. Asking' \subseteq Asking
  BY <1>1, <1>3, <1>4 DEF Asking
<1>9. NonceIsBounded'
  BY <1>7, <1>8, AskingShrinks
<1>10. Listening' = Listening /\ \A t \in Listening : tasks'[t] = tasks[t]
  BY <1>1, <1>3, <1>4 DEF Listening
<1>11. \A r \in pending : r.tab \in Listening
  BY DEF RequestsInv, RequestsTypeOK, Pending, HandlersAreAlive, Listening
<1>12. IdsAreUnique'
  BY <1>7, <1>10, <1>11 DEF RequestsInv, IdsAreUnique
<1>13. HandlersAreAlive'
  BY <1>7, <1>10, <1>11 DEF RequestsInv, HandlersAreAlive
<1>14. ViewIsCurrent'
  BY <1>1, <1>3, <1>4, <1>7, <1>10 DEF RequestsInv, ViewIsCurrent, At
<1>15. \A t \in Tabs : tasks'[t].then = tasks[t].then
  BY <1>1, <1>3, <1>4
<1>16. AcceptedByUser' /\ Consent' /\ CachedIsReal'
  BY <1>7, <1>15 DEF RequestsInv, AcceptedByUser, Consent, CachedIsReal, browserVars
<1>17. RequestsTypeOK'
  BY <1>2, <1>5, <1>7 DEF RequestsInv, RequestsTypeOK, browserVars
<1>18. OneSleeper'
  BY <1>2 DEF RequestsInv, OneSleeper, Locks
<1>19. CallbacksWake'
  <2>1. ASSUME NEW m \in Locks
        PROVE  /\ sleeper'[m] # None => tasks'[sleeper'[m]].pc = "sleep"
               /\ unlocked'[m] => sleeper'[m] = None
    <3>1. CASE m = l
      BY <1>2, <3>1
    <3>2. CASE m # l
      <4>1. sleeper'[m] = sleeper[m] /\ unlocked'[m] = unlocked[m]
        BY <1>2, <3>2
      <4>2. sleeper[m] # None => sleeper[m] # sleeper[l]
        BY <3>2 DEF RequestsInv, OneSleeper, Locks
      <4>3. /\ sleeper[m] # None => sleeper[m] \in Tabs /\ tasks[sleeper[m]].pc = "sleep"
            /\ unlocked[m] => sleeper[m] = None
        BY <1>2 DEF RequestsInv, CallbacksWake, At
      <4>4. QED
        BY <1>1, <1>3, <4>1, <4>2, <4>3
    <3>3. QED
      BY <3>1, <3>2
  <2>2. QED
    BY <2>1 DEF CallbacksWake, At
<1>20. WaitersAreQueued'
  BY <1>7, <1>10, WaitersAreKept
<1>21. QED
  BY <1>6, <1>9, <1>12, <1>13, <1>14, <1>16, <1>17, <1>18, <1>19, <1>20 DEF RequestsInv

LEMMA RestartWorkerKeeps ==
  ASSUME RequestsInv, RestartWorker
  PROVE  RequestsInv'
<1>1. /\ cached' = None /\ pending' = {} /\ nonce' = 0 /\ removed' = {}
      /\ unlocked' = [l \in Locks |-> FALSE] /\ chain' = "none"
      /\ sleeper' = [l \in Locks |-> None]
      /\ restarts' \in 0..MaxRestarts
      /\ UNCHANGED <<windows, opened, view, approved, told, agreed, unheard, asked>>
  BY RequestsAssumption DEF RestartWorker, historyVars, RequestsInv, RequestsTypeOK
<1>2. tasks' = [t \in Actors |-> NoTask]
  BY DEF RestartWorker
<1>3. \A t \in Actors : tasks'[t].pc = "idle" /\ tasks'[t].then = "none"
  BY <1>2 DEF NoTask
<1>4. Tabs \subseteq Actors /\ Ui \in Actors
  BY DEF Actors
<1>5. tasks' \in [Actors -> Task] /\ 0 \in 0..MaxRequests
  BY <1>2, NoTaskTyped, RequestsAssumption
<1>6. RequestsTypeOK'
  BY <1>1, <1>5 DEF RequestsInv, RequestsTypeOK
<1>7. Asking' = {} /\ Listening' = {}
  BY <1>3, <1>4 DEF Asking, Listening
<1>8. NonceIsBounded'
  <2>1. Asking' \subseteq Asking
    BY <1>7
  <2>2. IsFiniteSet(Asking') /\ Cardinality(Asking') = 0
    BY <1>7, FS_EmptySet
  <2>3. asked' \in Nat
    BY <1>1 DEF RequestsInv, RequestsTypeOK
  <2>4. QED
    BY <1>1, <2>2, <2>3 DEF NonceIsBounded
<1>9. TasksFit'
  BY <1>3, <1>4 DEF TasksFit, Fits, UiFits
<1>10. IdsAreUnique' /\ HandlersAreAlive' /\ WaitersAreQueued' /\ ViewIsCurrent'
  BY <1>1, <1>3, <1>4, <1>7
     DEF IdsAreUnique, HandlersAreAlive, WaitersAreQueued, ViewIsCurrent, At
<1>11. AcceptedByUser' /\ Consent' /\ CachedIsReal'
  BY <1>1, <1>3, <1>4 DEF RequestsInv, AcceptedByUser, Consent, CachedIsReal
<1>12. OneSleeper' /\ CallbacksWake'
  BY <1>1 DEF OneSleeper, CallbacksWake, Locks
<1>13. QED
  BY <1>6, <1>8, <1>9, <1>10, <1>11, <1>12 DEF RequestsInv

-----------------------------------------------------------------------------
(* The theorems. *)

LEMMA RequestsInitInv == RequestsInit => RequestsInv
<1> SUFFICES ASSUME RequestsInit PROVE RequestsInv
  OBVIOUS
<1>1. /\ windows = {} /\ removed = {} /\ opened = 0 /\ cached = None /\ pending = {} /\ nonce = 0
      /\ view = {} /\ unlocked = [l \in Locks |-> FALSE] /\ chain = "none"
      /\ sleeper = [l \in Locks |-> None] /\ approved = "no" /\ told = {} /\ agreed = FALSE
      /\ unheard = {} /\ asked = 0 /\ restarts = 0
  BY DEF RequestsInit
<1>2. tasks = [t \in Actors |-> NoTask] /\ Tabs \subseteq Actors /\ Ui \in Actors
  BY DEF RequestsInit, Actors
<1>3. \A t \in Actors : tasks[t].pc = "idle" /\ tasks[t].then = "none"
  BY <1>2 DEF NoTask
<1>4. /\ tasks \in [Actors -> Task] /\ 0 \in 0..MaxRequests /\ 0 \in 0..MaxWindows
      /\ 0 \in 0..MaxRestarts
  BY <1>2, NoTaskTyped, RequestsAssumption
<1>5. RequestsTypeOK
  BY <1>1, <1>4 DEF RequestsTypeOK
<1>6. Asking = {} /\ Listening = {}
  BY <1>2, <1>3 DEF Asking, Listening
<1>7. IsFiniteSet(Asking) /\ Cardinality(Asking) = 0
  BY <1>6, FS_EmptySet
<1>8. NonceIsBounded
  BY <1>1, <1>7 DEF NonceIsBounded
<1>9. TasksFit
  BY <1>2, <1>3 DEF TasksFit, Fits, UiFits
<1>10. IdsAreUnique /\ HandlersAreAlive /\ WaitersAreQueued /\ ViewIsCurrent
  BY <1>1, <1>2, <1>3, <1>6
     DEF IdsAreUnique, HandlersAreAlive, WaitersAreQueued, ViewIsCurrent
<1>11. AcceptedByUser /\ Consent /\ CachedIsReal
  BY <1>1, <1>2, <1>3 DEF AcceptedByUser, Consent, CachedIsReal
<1>12. OneSleeper /\ CallbacksWake
  BY <1>1 DEF OneSleeper, CallbacksWake, Locks
<1>13. QED
  BY <1>5, <1>8, <1>9, <1>10, <1>11, <1>12 DEF RequestsInv

LEMMA RequestsNextInv == RequestsInv /\ [RequestsNext]_requestVars => RequestsInv'
<1> SUFFICES ASSUME RequestsInv, [RequestsNext]_requestVars PROVE RequestsInv'
  OBVIOUS
<1>1. CASE UNCHANGED requestVars
  <2>1. Still /\ view' = view /\ lockVars' = lockVars
    BY <1>1 DEF requestVars, browserVars, queueVars, lockVars, historyVars, RequestsInv,
                RequestsTypeOK, CachedIsReal, Consent, Still
  <2>2. OneSleeper' /\ CallbacksWake'
    BY <2>1 DEF Still, RequestsInv, OneSleeper, CallbacksWake, lockVars, At
  <2>3. QED
    BY <2>1, <2>2, StillKeeps DEF RequestsInv, Still
<1>2. ASSUME NEW t \in Actors, RunTask(t) PROVE RequestsInv'
  BY <1>2, AwaitUnlockKeeps, LookUpKeeps, AddToQueueKeeps, AnsweredKeeps, AddHostKeeps,
     ConnectRequestKeeps, ReplyKeeps DEF RunTask
<1>3. ASSUME NEW t \in Actors, BrowserReplies(t) PROVE RequestsInv'
  BY <1>3, PopupOpenedKeeps, PopupFocusedKeeps, ListenKeeps, HostAddedKeeps, PopupClosedKeeps
     DEF BrowserReplies
<1>4. ASSUME NEW t \in Tabs, Connect(t) \/ PrepareSemaphoreProof(t) \/ PrepareRLNProof(t)
      PROVE  RequestsInv'
  <2>1. "semaphore" \in Kinds /\ "rln" \in Kinds
    BY DEF Kinds
  <2>2. QED
    BY <1>4, <2>1, ConnectKeeps, PrepareKeeps DEF PrepareSemaphoreProof, PrepareRLNProof
<1>5. ASSUME UserActs \/ FetchPending PROVE RequestsInv'
  BY <1>5, AcceptKeeps, RejectKeeps, PopupsKeep DEF UserActs
<1>6. ASSUME UnlockLock \/ UnlockMaps PROVE RequestsInv'
  <2>1. CASE UnlockLock
    BY <2>1, WakeKeeps DEF UnlockLock, Locks
  <2>2. CASE UnlockMaps
    BY <2>2, WakeKeeps DEF UnlockMaps, Locks
  <2>3. QED
    BY <1>6, <2>1, <2>2
<1>7. CASE Event
  BY <1>3, <1>4, <1>5, <1>6, <1>7, WindowRemovedKeeps, UiClosePopupKeeps, LockKeeps DEF Event
<1>8. QED
  BY <1>1, <1>2, <1>7, RestartWorkerKeeps DEF RequestsNext, Worker

\* The invariant of the requests, for every number of tabs, popups, requests and
\* restarts of the worker.
THEOREM RequestsInvHolds == RequestsSpec => []RequestsInv
<1>1. QED
  BY RequestsInitInv, RequestsNextInv, PTL DEF RequestsSpec

\* The types of the queue, the popups, the lock and the handlers.
THEOREM RequestsTypesHold == RequestsSpec => []RequestsTypeOK
<1>1. RequestsInv => RequestsTypeOK
  BY DEF RequestsInv
<1>2. QED
  BY <1>1, RequestsInvHolds, PTL

\* A handler goes on only with an acceptance of its own request, and a site is approved
\* only when the user has agreed, also when a popup outlives the worker whose requests
\* it shows (RequestManager.finalizeRequest, ApprovalService.add).
THEOREM UserConsents == RequestsSpec => []Consent
<1>1. RequestsInv => Consent
  BY DEF RequestsInv
<1>2. QED
  BY <1>1, RequestsInvHolds, PTL

\* The queue has the requests of the handlers that wait for an answer, and no other,
\* except for a request that left the queue before its handler listened (addToQueue,
\* finalizeRequest, clearRequests).
THEOREM QueueHasItsHandlers == RequestsSpec => []QueueIsAlive
<1>1. RequestsInv => QueueIsAlive
  BY DEF RequestsInv, QueueIsAlive
<1>2. QED
  BY <1>1, RequestsInvHolds, PTL

\* BrowserUtils caches no popup that is gone for good (openPopup, closePopup, cleanCache).
THEOREM CacheIsSound == RequestsSpec => []CachedIsReal
<1>1. RequestsInv => CachedIsReal
  BY DEF RequestsInv
<1>2. QED
  BY <1>1, RequestsInvHolds, PTL

\* BaseService keeps a callback only for a handler that waits, and none in an open wallet.
THEOREM CallbacksHaveSleepers == RequestsSpec => []CallbacksWake
<1>1. RequestsInv => CallbacksWake
  BY DEF RequestsInv
<1>2. QED
  BY <1>1, RequestsInvHolds, PTL

=============================================================================
