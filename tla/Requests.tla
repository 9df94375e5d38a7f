------------------------------ MODULE Requests ------------------------------
(***************************************************************************)
(* Requests of web pages and the popup that answers them: RequestManager,  *)
(* BrowserUtils, InjectorService.connect, the approval part of the proof   *)
(* requests, and the confirmation modal of the popup.                      *)
(*                                                                         *)
(* A tab runs one request at a time.  Its handler is a task of the service *)
(* worker; one action is what the worker does between two awaits.  A task  *)
(* that is resolved and not waiting for the browser is `run': it goes on   *)
(* before the worker takes the next event.  All tabs show the same site.   *)
(***************************************************************************)
EXTENDS Naturals

CONSTANTS
  Tabs,         \* tabs of one site
  Ui,           \* the call of CLOSE_POPUP by the popup itself
  None,
  MaxWindows,   \* popups opened altogether
  MaxRequests,  \* requests of the tabs altogether, a bound on the nonce
  MaxRestarts

ASSUME RequestsAssumption ==
  /\ Ui \notin Tabs /\ None \notin Tabs \cup {Ui} \cup (1..MaxWindows)
  /\ MaxWindows \in Nat /\ MaxRequests \in Nat /\ MaxRestarts \in Nat

VARIABLES
  windows,      \* popups on the screen
  removed,      \* popups that are gone, of which the worker has not heard
  opened,       \* number of popups opened so far
  cached,       \* BrowserUtils.cached
  pending,      \* RequestManager.pendingRequests, in the order of their ids
  nonce,        \* RequestManager.nonce
  view,         \* the pending requests as the popups show them
  unlocked,     \* isUnlocked of the lock and of the services with maps
  chain,        \* UNLOCK or LOCK while it runs
  sleeper,      \* unlockCB of the lock and of the services with maps
  approved,     \* what is approved of the site: "no", "ask" or "skip" (canSkipApprove)
  tasks,        \* tasks[t]: the handler of tab t, or the popup's CLOSE_POPUP
  told,         \* history: the tabs whose request the user has accepted
  agreed,       \* history: the user has accepted the site or ticked its box
  unheard,      \* history: the tabs whose request left the queue before they listened
  asked, restarts

browserVars == <<windows, removed, opened>>
queueVars == <<pending, nonce, view>>
lockVars == <<unlocked, chain, sleeper>>
historyVars == <<told, agreed, unheard, asked>>
requestVars == <<browserVars, cached, queueVars, lockVars, approved, tasks, historyVars, restarts>>

-----------------------------------------------------------------------------

Actors == Tabs \cup {Ui}
Window == 1..MaxWindows
Locks == {"lock", "maps"}

Kinds == {"connect", "semaphore", "rln"}

Pending == [id: 0..MaxRequests, window: Window, tab: Tabs, kind: Kinds]

\* `then' is what follows the await, `window' the popup of the task and `id' its request.
Task == [pc: {"idle", "run", "open", "focus", "push", "wait", "close", "save", "sleep"},
         then: {"none", "woken", "connect", "approve", "prove", "answered", "add", "grant",
                "page", "fail", "refused", "gone"},
         kind: Kinds \cup {"none"},
         window: Window \cup {None}, id: 0..MaxRequests]

NoTask == [pc |-> "idle", then |-> "none", kind |-> "none", window |-> None, id |-> 0]

RequestsTypeOK ==
  /\ windows \subseteq Window /\ removed \subseteq Window /\ opened \in 0..MaxWindows
  /\ cached \in Window \cup {None}
  /\ pending \subseteq Pending /\ nonce \in 0..MaxRequests
  /\ view \subseteq Pending
  /\ unlocked \in [Locks -> BOOLEAN] /\ chain \in {"none", "unlock", "lock"}
  /\ sleeper \in [Locks -> Tabs \cup {None}]
  /\ approved \in {"no", "ask", "skip"}
  /\ tasks \in [Actors -> Task]
  /\ told \subseteq Tabs /\ agreed \in BOOLEAN /\ unheard \subseteq Tabs
  /\ asked \in 0..MaxRequests
  /\ restarts \in 0..MaxRestarts

-----------------------------------------------------------------------------
(* What handlers do between two awaits. *)

Goto(t, pc, then) == tasks' = [tasks EXCEPT ![t].pc = pc, ![t].then = then]
At(t, pc) == tasks[t].pc = pc
Runs(t, then) == tasks[t].pc = "run" /\ tasks[t].then = then

Queued(reqs, id) == {r \in reqs : r.id # id}
OfOtherWindows(reqs, w) == {r \in reqs : r.window # w}

\* Only a request remembers its popup.
IfRequest(t, w) == IF tasks[t].then \in {"approve", "prove"} THEN w ELSE None

\* BrowserUtils.openPopup: the cached popup is focused, or a new one is asked for.
OpenPopup(t, then) ==
  tasks' = [tasks EXCEPT ![t].pc = IF cached = None THEN "open" ELSE "focus",
                         ![t].then = then, ![t].window = cached]

\* The new popup is there.  It becomes the cached one, whatever was cached meanwhile.
PopupOpened(t) ==
  /\ At(t, "open") /\ opened < MaxWindows
  /\ opened' = opened + 1
  /\ windows' = windows \cup {opened'}
  /\ cached' = opened'
  /\ tasks' = [tasks EXCEPT ![t].pc = "run", ![t].window = IfRequest(t, opened')]
  /\ UNCHANGED <<removed, queueVars, lockVars, approved, historyVars, restarts>>

\* Mutant: a request that finds nothing cached any more goes on.
PopupFocusedBlindly(t) ==
  /\ At(t, "focus")
  /\ tasks' = [tasks EXCEPT ![t].pc = "run", ![t].window = IfRequest(t, cached),
                 ![t].then = IF tasks[t].window \notin windows THEN "fail" ELSE @]
  /\ UNCHANGED <<browserVars, cached, queueVars, lockVars, approved, historyVars, restarts>>

\* openPopup returns what is cached now.  The focus fails when the popup has gone; a
\* request needs the popup's id.
PopupFocused(t) ==
  /\ At(t, "focus")
  /\ LET lost == \/ tasks[t].window \notin windows
                 \/ tasks[t].then \in {"approve", "prove"} /\ cached = None
     IN  tasks' = [tasks EXCEPT ![t].pc = "run", ![t].window = IfRequest(t, cached),
                                ![t].then = IF lost THEN "fail" ELSE @]
  /\ UNCHANGED <<browserVars, cached, queueVars, lockVars, approved, historyVars, restarts>>

\* BrowserUtils.closePopup: the browser is asked to remove the cached popup, if any.
ClosePopup(t, then) ==
  IF cached = None
  THEN Goto(t, "run", then) /\ UNCHANGED <<windows, removed>>
  ELSE /\ windows' = windows \ {cached}
       /\ removed' = removed \cup ({cached} \cap windows)
       /\ Goto(t, "close", IF cached \in windows THEN then ELSE "fail")

\* The popup is removed, and nothing is cached any more, be it another popup by now.
PopupClosed(t) ==
  /\ At(t, "close")
  /\ Goto(t, "run", tasks[t].then)
  /\ cached' = IF tasks[t].then = "fail" THEN cached ELSE None
  /\ UNCHANGED <<browserVars, queueVars, lockVars, approved, historyVars, restarts>>

-----------------------------------------------------------------------------
(* InjectorService.connect and the requests for a proof. *)

AskedNow(t, kind) == [NoTask EXCEPT !.pc = "run", !.kind = kind]

\* A locked wallet opens the popup and waits for the unlock.
Connect(t) ==
  /\ At(t, "idle") /\ asked < MaxRequests
  /\ tasks' = [tasks EXCEPT ![t] =
       IF unlocked["lock"] THEN [AskedNow(t, "connect") EXCEPT !.then = "connect"]
       ELSE [AskedNow(t, "connect") EXCEPT !.pc = IF cached = None THEN "open" ELSE "focus",
                                           !.then = "woken", !.window = cached]]
  /\ told' = told \ {t} /\ unheard' = unheard \ {t} /\ asked' = asked + 1
  /\ UNCHANGED <<browserVars, cached, queueVars, lockVars, approved, agreed, restarts>>

\* A proof for an approved and connected origin, which asks the user unless the
\* approval can be skipped.
Prepare(t, kind) ==
  /\ At(t, "idle") /\ asked < MaxRequests /\ unlocked["lock"] /\ approved # "no"
  /\ tasks' = [tasks EXCEPT ![t] =
       [AskedNow(t, kind) EXCEPT !.then = IF approved = "skip" THEN "grant" ELSE "prove",
          !.pc = IF approved = "skip" THEN "run" ELSE IF cached = None THEN "open" ELSE "focus",
          !.window = IF approved = "skip" THEN None ELSE cached]]
  /\ told' = told \ {t} /\ unheard' = unheard \ {t} /\ asked' = asked + 1
  /\ UNCHANGED <<browserVars, cached, queueVars, lockVars, approved, agreed, restarts>>

PrepareSemaphoreProof(t) == Prepare(t, "semaphore")
PrepareRLNProof(t) == Prepare(t, "rln")

\* BaseService.awaitUnlock, of the lock and then of the services with maps.  The one
\* callback of a service belongs to the last that waits.
AwaitUnlock(t) ==
  /\ Runs(t, "woken")
  /\ \/ \E l \in Locks :
          /\ ~unlocked[l] /\ (l = "maps" => unlocked["lock"])
          /\ sleeper' = [sleeper EXCEPT ![l] = t]
          /\ Goto(t, "sleep", "woken")
          /\ UNCHANGED <<windows, removed>>
     \/ /\ unlocked["lock"] /\ unlocked["maps"]
        /\ ClosePopup(t, "connect")
        /\ UNCHANGED sleeper
  /\ UNCHANGED <<opened, cached, queueVars, unlocked, chain, approved, historyVars, restarts>>

\* getConnectionData: an origin that is not approved needs a request.
LookUp(t) ==
  /\ Runs(t, "connect")
  /\ IF approved = "no" THEN OpenPopup(t, "approve") ELSE Goto(t, "run", "page")
  /\ UNCHANGED <<browserVars, cached, queueVars, lockVars, approved, historyVars, restarts>>

\* RequestManager.newRequest
NewRequest(t) == [id |-> nonce, window |-> tasks[t].window, tab |-> t, kind |-> tasks[t].kind]

\* Mutant: the nonce is not incremented.
AddToQueueAgain(t) ==
  /\ tasks[t].pc = "run" /\ tasks[t].then \in {"approve", "prove"}
  /\ pending' = pending \cup {NewRequest(t)}
  /\ tasks' = [tasks EXCEPT ![t].pc = "push", ![t].id = nonce]
  /\ UNCHANGED <<browserVars, cached, nonce, view, lockVars, approved, historyVars, restarts>>

\* RequestManager.addToQueue: the request is queued and the popups are told.
AddToQueue(t) ==
  /\ tasks[t].pc = "run" /\ tasks[t].then \in {"approve", "prove"}
  /\ pending' = pending \cup {NewRequest(t)}
  /\ nonce' = nonce + 1
  /\ tasks' = [tasks EXCEPT ![t].pc = "push", ![t].id = nonce]
  /\ UNCHANGED <<browserVars, cached, view, lockVars, approved, historyVars, restarts>>

\* The popups have heard of the queue.  Only now the request listens for its answer and
\* for the end of its popup.
Listen(t) ==
  /\ At(t, "push")
  /\ view' = pending
  /\ Goto(t, "wait", tasks[t].then)
  /\ UNCHANGED <<browserVars, cached, pending, nonce, lockVars, approved, historyVars, restarts>>

\* The request was accepted.
Answered(t) ==
  /\ Runs(t, "answered")
  /\ ClosePopup(t, IF tasks[t].kind = "connect" THEN "add" ELSE "grant")
  /\ UNCHANGED <<opened, cached, queueVars, lockVars, approved, historyVars, restarts>>

\* ApprovalService.add, with what the user has ticked: the first answer of a site counts.
AddHost(t) ==
  /\ Runs(t, "add")
  /\ IF approved # "no"
     THEN Goto(t, "run", "page") /\ UNCHANGED approved
     ELSE Goto(t, "save", "page") /\ approved' \in {"ask", "skip"}
  /\ UNCHANGED <<browserVars, cached, queueVars, lockVars, historyVars, restarts>>

\* The approval is stored and the tabs have heard of it.
HostAdded(t) ==
  /\ At(t, "save")
  /\ ClosePopup(t, tasks[t].then)
  /\ UNCHANGED <<opened, cached, queueVars, lockVars, approved, historyVars, restarts>>

\* Without a connection the popup is opened for the user to choose an identity.
ConnectRequest(t) ==
  /\ Runs(t, "page")
  /\ Goto(t, "run", "grant") \/ OpenPopup(t, "grant")
  /\ UNCHANGED <<browserVars, cached, queueVars, lockVars, approved, historyVars, restarts>>

\* The page gets its answer: a result, or an error.
Reply(t) ==
  /\ At(t, "run") /\ tasks[t].then \in {"grant", "fail", "refused", "gone"}
  /\ tasks' = [tasks EXCEPT ![t] = NoTask]
  /\ UNCHANGED <<browserVars, cached, queueVars, lockVars, approved, historyVars, restarts>>

-----------------------------------------------------------------------------
(* The user and the popup. *)

\* Mutant: a finalized request stays in the queue.
FinalizeKeeping(r, then) ==
  /\ view' = pending
  /\ UNCHANGED <<pending, unheard>>
  /\ tasks' = [t \in Actors |->
       IF t = Ui THEN [NoTask EXCEPT !.pc = "save"]
       ELSE IF At(t, "wait") /\ tasks[t].id = r.id
       THEN [NoTask EXCEPT !.pc = "run", !.then = then, !.kind = tasks[t].kind]
       ELSE tasks[t]]

\* RequestManager.finalizeRequest: the request leaves the queue and whoever listens
\* for its id is told; then the popup asks for the queue and closes itself.  A handler
\* that does not listen yet never hears of it.
Finalize(r, then) ==
  /\ pending' = Queued(pending, r.id)
  /\ view' = pending'
  /\ unheard' = unheard \cup {t \in Tabs : At(t, "push") /\ tasks[t].id = r.id}
  /\ tasks' = [t \in Actors |->
       IF t = Ui THEN [NoTask EXCEPT !.pc = "save"]
       ELSE IF At(t, "wait") /\ tasks[t].id = r.id
       THEN [NoTask EXCEPT !.pc = "run", !.then = then, !.kind = tasks[t].kind]
       ELSE tasks[t]]

\* The modal shows the first pending request, and one answer at a time is on its way.
Shown(r) ==
  /\ windows # {} /\ At(Ui, "idle") /\ unlocked["lock"]
  /\ r \in view /\ \A q \in view : r.id <= q.id

\* The modals.
ApprovalModal(r) == Shown(r) /\ r.kind = "connect"
SemaphoreProofModal(r) == Shown(r) /\ r.kind = "semaphore"
RlnProofModal(r) == Shown(r) /\ r.kind = "rln"

Modal(r) == ApprovalModal(r) \/ SemaphoreProofModal(r) \/ RlnProofModal(r)

Accept(r) ==
  /\ Modal(r)
  /\ Finalize(r, "answered")
  /\ told' = told \cup {r.tab}
  /\ agreed' = TRUE
  /\ UNCHANGED <<browserVars, cached, nonce, lockVars, approved, asked, restarts>>

Reject(r) ==
  /\ Modal(r)
  /\ Finalize(r, "refused")
  /\ UNCHANGED <<browserVars, cached, nonce, lockVars, approved, told, agreed, asked, restarts>>

\* setHostPermissions: the permission of an origin, and with it its approval.
SetHostPermissions == approved' \in {"ask", "skip"}

\* The box "create proofs without approvals" sets the permission at once, whatever the
\* answer will be.
TickBox(r) ==
  /\ ApprovalModal(r)
  /\ SetHostPermissions
  /\ agreed' = TRUE
  /\ UNCHANGED <<browserVars, cached, queueVars, lockVars, tasks, told, unheard, asked, restarts>>

\* A popup asks for the queue when it is opened, unlocked or has finalized a request.
FetchPending ==
  /\ windows # {} /\ view # pending
  /\ view' = pending
  /\ UNCHANGED <<browserVars, cached, pending, nonce, lockVars, approved, tasks, historyVars, restarts>>

\* CLOSE_POPUP of a popup that is still there closes the cached one.
UiClosePopup ==
  /\ At(Ui, "save")
  /\ IF windows = {} THEN Goto(Ui, "run", "grant") /\ UNCHANGED <<windows, removed>>
                     ELSE ClosePopup(Ui, "grant")
  /\ UNCHANGED <<opened, cached, queueVars, lockVars, approved, historyVars, restarts>>

CloseWindow(w) ==
  /\ w \in windows
  /\ windows' = windows \ {w}
  /\ removed' = removed \cup {w}
  /\ UNCHANGED <<opened, cached, queueVars, lockVars, approved, tasks, historyVars, restarts>>

\* Mutant: the cache is not cleaned.
WindowRemovedStaysCached(w) ==
  /\ w \in removed
  /\ removed' = removed \ {w}
  /\ pending' = OfOtherWindows(pending, w)
  /\ tasks' = [t \in Actors |-> IF At(t, "wait") /\ tasks[t].window = w
                                THEN [tasks[t] EXCEPT !.pc = "run", !.then = "gone"]
                                ELSE tasks[t]]
  /\ UNCHANGED <<windows, opened, cached, nonce, view, lockVars, approved, historyVars, restarts>>

\* windows.onRemoved: cleanCache, clearRequests, and onPopupClose of every request of
\* this popup that listens.
WindowRemoved(w) ==
  /\ w \in removed
  /\ removed' = removed \ {w}
  /\ cached' = IF cached = w THEN None ELSE cached
  /\ pending' = OfOtherWindows(pending, w)
  /\ unheard' = unheard \cup {t \in Tabs : At(t, "push") /\ tasks[t].window = w}
  /\ tasks' = [t \in Actors |-> IF At(t, "wait") /\ tasks[t].window = w
                                THEN [tasks[t] EXCEPT !.pc = "run", !.then = "gone"]
                                ELSE tasks[t]]
  /\ UNCHANGED <<windows, opened, nonce, view, lockVars, approved, told, agreed, asked, restarts>>

-----------------------------------------------------------------------------
(* Lock and unlock, as far as connect waits for them. *)

Wake(l) == tasks' = [t \in Actors |-> IF sleeper[l] = t THEN [tasks[t] EXCEPT !.pc = "run"]
                                                        ELSE tasks[t]]

\* Mutant: the callback is called and not forgotten.
UnlockLockAgain ==
  /\ chain = "none" /\ ~unlocked["lock"]
  /\ unlocked' = [unlocked EXCEPT !["lock"] = TRUE]
  /\ chain' = "unlock"
  /\ Wake("lock")
  /\ UNCHANGED <<browserVars, cached, queueVars, sleeper, approved, historyVars, restarts>>

\* LockerService.unlock wakes who waits for the lock; then the maps are loaded.
UnlockLock ==
  /\ chain = "none" /\ ~unlocked["lock"]
  /\ unlocked' = [unlocked EXCEPT !["lock"] = TRUE]
  /\ chain' = "unlock"
  /\ Wake("lock")
  /\ sleeper' = [sleeper EXCEPT !["lock"] = None]
  /\ UNCHANGED <<browserVars, cached, queueVars, approved, historyVars, restarts>>

UnlockMaps ==
  /\ chain = "unlock"
  /\ unlocked' = [unlocked EXCEPT !["maps"] = TRUE]
  /\ chain' = "none"
  /\ Wake("maps")
  /\ sleeper' = [sleeper EXCEPT !["maps"] = None]
  /\ UNCHANGED <<browserVars, cached, queueVars, approved, historyVars, restarts>>

\* BaseService.onLock drops the callback.
LockLock ==
  /\ chain = "none" /\ unlocked["lock"]
  /\ unlocked' = [unlocked EXCEPT !["lock"] = FALSE]
  /\ chain' = "lock"
  /\ sleeper' = [sleeper EXCEPT !["lock"] = None]
  /\ UNCHANGED <<browserVars, cached, queueVars, approved, tasks, historyVars, restarts>>

LockMaps ==
  /\ chain = "lock"
  /\ unlocked' = [unlocked EXCEPT !["maps"] = FALSE]
  /\ chain' = "none"
  /\ sleeper' = [sleeper EXCEPT !["maps"] = None]
  /\ UNCHANGED <<browserVars, cached, queueVars, approved, tasks, historyVars, restarts>>

\* The service worker is stopped and started: the popups stay, with what they show.
RestartWorker ==
  /\ restarts < MaxRestarts
  /\ restarts' = restarts + 1
  /\ cached' = None /\ pending' = {} /\ nonce' = 0 /\ removed' = {}
  /\ unlocked' = [l \in Locks |-> FALSE]
  /\ chain' = "none"
  /\ sleeper' = [l \in Locks |-> None]
  /\ tasks' = [t \in Actors |-> NoTask]
  /\ UNCHANGED <<windows, opened, view, approved, historyVars>>

-----------------------------------------------------------------------------

RequestsInit ==
  /\ windows = {} /\ removed = {} /\ opened = 0
  /\ cached = None /\ pending = {} /\ nonce = 0 /\ view = {}
  /\ unlocked = [l \in Locks |-> FALSE]
  /\ chain = "none"
  /\ sleeper = [l \in Locks |-> None]
  /\ approved = "no"
  /\ tasks = [t \in Actors |-> NoTask]
  /\ told = {} /\ agreed = FALSE /\ unheard = {} /\ asked = 0
  /\ restarts = 0

RunTask(t) ==
  \/ t \in Tabs /\ (AwaitUnlock(t) \/ LookUp(t) \/ AddToQueue(t) \/ Answered(t) \/ AddHost(t)
                    \/ ConnectRequest(t))
  \/ Reply(t)

BrowserReplies(t) ==
  \/ t \in Tabs /\ (PopupOpened(t) \/ PopupFocused(t) \/ Listen(t) \/ HostAdded(t))
  \/ PopupClosed(t)

UserActs ==
  \/ \E r \in view : Accept(r) \/ Reject(r) \/ TickBox(r)
  \/ \E w \in Window : CloseWindow(w)

Worker == \E t \in Actors : RunTask(t)
Idling == \A t \in Actors : ~At(t, "run")

Event ==
  \/ \E t \in Tabs : Connect(t) \/ PrepareSemaphoreProof(t) \/ PrepareRLNProof(t)
  \/ \E t \in Actors : BrowserReplies(t)
  \/ \E w \in Window : WindowRemoved(w)
  \/ UserActs \/ FetchPending \/ UiClosePopup
  \/ UnlockLock \/ UnlockMaps \/ LockLock \/ LockMaps

RequestsNext == Worker \/ (Idling /\ Event) \/ RestartWorker

RequestsSpec == RequestsInit /\ [][RequestsNext]_requestVars

-----------------------------------------------------------------------------
(* Properties. *)

\* A handler goes on with its request only when the user has accepted the request of
\* that very tab, and the site is approved only when the user has agreed: also when a
\* popup survives a restart that sets the nonce back to 0, and when two requests are
\* pending (ids of RequestManager.newRequest and finalizeRequest).
Consent ==
  /\ \A t \in Tabs : tasks[t].then = "answered" => t \in told
  /\ approved # "no" => agreed

HandlersAreAlive ==
  \A r \in pending : tasks[r.tab].pc \in {"push", "wait"} /\ tasks[r.tab].id = r.id

WaitersAreQueued ==
  \A t \in Tabs : tasks[t].pc \in {"push", "wait"} =>
    t \in unheard \/ \E r \in pending : /\ r.tab = t /\ r.id = tasks[t].id
                                        /\ r.window = tasks[t].window

\* The queue has the requests of the handlers that wait, and no other, whatever popups
\* open, close and cross.  A handler whose request left the queue before it listened for
\* the answer is the one exception: newRequest registers its listeners only when
\* addToQueue has told the popups, so it waits for good (addToQueue, finalizeRequest,
\* clearRequests, onPopupClose).
QueueIsAlive == HandlersAreAlive /\ WaitersAreQueued

\* The cached popup is on the screen, or the worker is about to hear that it is not:
\* openPopup never focuses a popup that is gone for good (cleanCache, closePopup).
CachedIsReal == cached # None => cached \in windows \cup removed

\* A callback that unlock will call belongs to a handler that waits for it, and none is
\* left when the wallet is open: only handlers whose callback was overwritten or dropped
\* by a lock wait for nothing (BaseService.awaitUnlock, onUnlocked, onLock).
CallbacksWake ==
  \A l \in Locks :
    /\ sleeper[l] # None => At(sleeper[l], "sleep")
    /\ unlocked[l] => sleeper[l] = None
=============================================================================
