------------------------------- MODULE Pages -------------------------------
(***************************************************************************)
(* The requests of sites that a page of the popup answers with an event:   *)
(* the chain of the background page, the popup and its routes, the pages,  *)
(* the handlers they call and the events of the tabs, while the wallet is  *)
(* locked, unlocked, connected anew and restarted.                         *)
(*                                                                         *)
(* Every site is approved; how it became so, and how a connect request     *)
(* waits for the unlock, is in Requests.  The popup opens in one step, as  *)
(* Requests tells apart what may come between.  The wallet is onboarded.   *)
(***************************************************************************)
EXTENDS Provider

CONSTANTS
  Identities, None,
  MaxSubmits,     \* calls of the popup's pages
  MaxElsewhere,   \* what the user does outside of the page: locks, unlocks, connections, closed windows
  MaxRestarts

\* Each kind has a page.
Routes == {"connect", "reveal", "join", "merkle", "import", "credential", "present"}

ASSUME PagesAssumption ==
  /\ None \notin Identities \cup Sites
  /\ Kinds \subseteq Routes
  /\ MaxSubmits \in Nat /\ MaxElsewhere \in Nat /\ MaxRestarts \in Nat

VARIABLES
  unlocked,    \* LockerService.isUnlocked, with approvals and identities
  loaded,      \* ConnectionService has read its store since the worker started
  connection,  \* the identity that a site is connected to
  popup,       \* the page of the popup
  cached,      \* BrowserUtils.cached
  notify,      \* a setStatus is on its way to the pages
  jobs,        \* calls of the popup to the background page
  asked,       \* history: kinds of the accepted requests of a site
  changed,     \* history: the connection changed since the popup's page was shown
  submits, elsewhere, restarts

walletVars == <<unlocked, loaded, connection>>
popupVars == <<popup, cached, notify>>
countVars == <<submits, elsewhere, restarts>>
pageVars == <<walletVars, popupVars, jobs, asked, changed, countVars>>
vars == <<providerVars, pageVars>>

-----------------------------------------------------------------------------

\* A page that needs the connection of its site, and one whose event goes to that site.
Connected == {"reveal", "join", "merkle", "import"}
Scoped == Connected \cup {"connect", "create"}

NoPopup == [view |-> "closed", kind |-> "connect", site |-> None, shown |-> None,
            open |-> FALSE, pc |-> "idle", job |-> 0]

PageViews == Routes \cup {"create", "home"}

Popup == [view: {"closed", "loading", "login"} \cup PageViews, kind: Routes, site: Sites \cup {None},
          shown: Identities \cup {None}, open: BOOLEAN,
          pc: {"idle", "mount", "busy", "close"}, job: 0..MaxSubmits]

Job == [id: 1..MaxSubmits, kind: Routes \cup {"create"}, site: Sites \cup {None},
        who: Identities \cup {None},
        pc: {"sent", "reject", "fetch", "push", "turn", "turned", "ok", "err"}]

PopupTypeOK ==
  /\ unlocked \in BOOLEAN /\ loaded \in BOOLEAN
  /\ connection \in [Sites -> Identities \cup {None}]
  /\ popup \in Popup /\ popup.job <= submits
  /\ popup.view = "closed" => popup = NoPopup
  /\ cached \in BOOLEAN /\ notify \in BOOLEAN
  /\ jobs \subseteq Job /\ \A j \in jobs : j.id <= submits
  /\ \A i, j \in jobs : i.id = j.id => i = j
  /\ asked \in [Sites -> SUBSET Kinds]
  /\ changed \in BOOLEAN
  /\ submits \in 0..MaxSubmits /\ elsewhere \in 0..MaxElsewhere /\ restarts \in 0..MaxRestarts

PagesTypeOK == ProviderTypeOK /\ PopupTypeOK

Init ==
  /\ ProviderInit
  /\ unlocked \in BOOLEAN /\ loaded = unlocked
  /\ connection \in [Sites -> Identities \cup {None}]
  /\ popup = NoPopup /\ cached = FALSE /\ notify = FALSE
  /\ jobs = {} /\ changed = FALSE
  /\ asked = [s \in Sites |-> {}]
  /\ submits = 0 /\ elsewhere = 0 /\ restarts = 0

-----------------------------------------------------------------------------
(* The background page: chains of the external actions. *)

\* ConnectionService.connections, which a lock leaves as it is.
Known(s) == IF loaded /\ s # None THEN connection[s] ELSE None

\* openPopup: a cached popup is only focused, and its page stays.
OpenPopup(kind, s) ==
  IF cached THEN UNCHANGED popupVars
  ELSE /\ popup' = [NoPopup EXCEPT !.view = "loading", !.kind = kind, !.site = s]
       /\ cached' = TRUE /\ UNCHANGED notify

\* ensure, isOriginApproved and isOriginConnected.  A credential or a presentation needs
\* no approval: for a locked wallet the credential is refused as false, and the page of
\* the presentation is asked for all the same.
Passes(m) ==
  CASE m.kind = "present" -> TRUE
    [] m.kind \in Connected -> unlocked /\ Known(m.site) # None
    [] OTHER -> unlocked

\* The chain ends in the request handler of a service, which opens the popup.
Receive(m) ==
  /\ m \in wire /\ m.pc = "sent"
  /\ IF Passes(m)
     THEN /\ Advance(m, "handling")
          /\ asked' = [asked EXCEPT ![m.site] = @ \cup {m.kind}]
          /\ OpenPopup(m.kind, m.site)
     ELSE Advance(m, "err") /\ UNCHANGED <<popupVars, asked>>
  /\ UNCHANGED <<providers, promises, crossed, requests, walletVars, jobs, changed, countVars>>

\* The popup is there, and the request is answered.
Respond(m) ==
  /\ m \in wire /\ m.pc = "handling"
  /\ Advance(m, "ok")
  /\ UNCHANGED <<providers, promises, crossed, requests, pageVars>>

-----------------------------------------------------------------------------
(* The popup. *)

\* usePopup: the status, and then the login page or the page of the redirect.
Loaded ==
  /\ popup.view = "loading"
  /\ popup' = IF unlocked THEN [popup EXCEPT !.view = popup.kind, !.open = TRUE, !.pc = "mount"]
              ELSE [popup EXCEPT !.view = "login", !.open = FALSE]
  /\ UNCHANGED <<providerVars, walletVars, cached, notify, jobs, asked, changed, countVars>>

\* The page has fetched identities and connections.
Mounted ==
  /\ popup.pc = "mount"
  /\ popup' = [popup EXCEPT !.pc = "idle", !.shown = Known(popup.site)]
  /\ changed' = FALSE
  /\ UNCHANGED <<providerVars, walletVars, cached, notify, jobs, asked, countVars>>

\* setStatus: a popup that hears of a lock shows the login page; the redirect is gone
\* from its address, and an unlock elsewhere leaves it there.
StatusArrives ==
  /\ notify /\ notify' = FALSE
  /\ popup' = IF popup.view \in {"closed", "loading"} THEN popup
              ELSE IF unlocked THEN [popup EXCEPT !.open = TRUE]
              ELSE [popup EXCEPT !.view = "login", !.open = FALSE, !.pc = "idle", !.job = 0]
  /\ UNCHANGED <<providerVars, walletVars, cached, jobs, asked, changed, countVars>>

\* The pages of the routes.
Shows(view) == popup.view = view /\ popup.pc = "idle"

CanLogIn == Shows("login")

\* useLogin: unlock, show the home page and close the popup.
Login ==
  /\ CanLogIn
  /\ unlocked' = TRUE /\ loaded' = TRUE /\ notify' = TRUE
  /\ popup' = [popup EXCEPT !.view = "home", !.open = TRUE, !.pc = "close"]
  /\ UNCHANGED <<providerVars, connection, cached, jobs, asked, changed, countVars>>

\* A page calls the background page and waits.
Call(kind, site, who, pc) ==
  /\ submits < MaxSubmits /\ submits' = submits + 1
  /\ jobs' = jobs \cup {[id |-> submits', kind |-> kind, site |-> site, who |-> who, pc |-> pc]}
  /\ popup' = [popup EXCEPT !.pc = "busy", !.job = submits']
  /\ UNCHANGED <<providerVars, walletVars, cached, notify, asked, changed, elsewhere, restarts>>

Go(view, pc) ==
  /\ popup' = [popup EXCEPT !.view = view, !.pc = pc]
  /\ UNCHANGED <<providerVars, walletVars, cached, notify, jobs, asked, changed, countVars>>

\* The origin of the connection on the page is the address of the event.
ShownSite == IF popup.shown = None THEN None ELSE popup.site

\* What a page offers: the button that goes on needs the connection of the origin, and one
\* that joins or proves a group whose membership fits.
CanReveal == Shows("reveal") /\ popup.shown # None
CanJoin == Shows("join") /\ popup.shown # None
CanProveMembership == Shows("merkle") /\ popup.shown # None
CanImport == Shows("import")
CanConnect == Shows("connect")
CanCreate == Shows("create")
CanAddCredential == Shows("credential")
CanPresent == Shows("present")

RevealIdentityCommitment ==
  \/ CanReveal /\ Call("reveal", popup.site, None, "sent")
  \/ Shows("reveal") /\ Call("reveal", ShownSite, None, "reject")

JoinGroup ==
  \/ CanJoin /\ Call("join", popup.site, None, "sent")
  \/ Shows("join") /\ Call("join", ShownSite, None, "reject")

GroupMerkleProof ==
  \/ CanProveMembership /\ Call("merkle", popup.site, None, "sent")
  \/ Shows("merkle") /\ Call("merkle", ShownSite, None, "reject")

ImportIdentity ==
  /\ CanImport
  /\ Call("import", popup.site, None, "sent") \/ Call("import", popup.site, None, "reject")

\* Rejecting closes the popup and tells nobody.
ConnectIdentity ==
  /\ CanConnect
  /\ \/ \E i \in Identities : Call("connect", popup.site, i, "sent")
     \/ Go("create", "idle")
     \/ Go("connect", "close")

\* The page to create an identity leads on to the one that imports it, and both lead back
\* to the one to connect it.
CreateIdentity ==
  /\ CanCreate
  /\ \/ Call("create", popup.site, None, "sent")
     \/ Go("connect", "mount")
     \/ Go("import", "idle")

AddVerifiableCredential ==
  /\ CanAddCredential
  /\ Call("credential", None, None, "sent") \/ Call("credential", None, None, "reject")

PresentVerifiableCredential ==
  /\ CanPresent
  /\ Call("present", None, None, "sent") \/ Call("present", None, None, "reject")

-----------------------------------------------------------------------------
(* The handlers of the background page that the pages call. *)

\* Mutant: a call that goes on leaves a copy of itself behind.
SetTwice(j, k) == jobs' = jobs \cup {k}

\* A handler goes on to its next await.
Set(j, k) == jobs' = (jobs \ {j}) \cup {k}
To(j, pc) == Set(j, [j EXCEPT !.pc = pc])
Sent(j, kind) == j \in jobs /\ j.pc = "sent" /\ j.kind = kind

\* Mutant: an identity of the wallet, whichever the site is connected to.
RevealConnectedCommitmentAnyway(j) ==
  /\ Sent(j, "reveal")
  /\ Set(j, [j EXCEPT !.pc = "push", !.who = CHOOSE i \in Identities : TRUE])
  /\ UNCHANGED connection

\* revealConnectedIdentityCommitment: the identity connected now, which a locked wallet
\* does not find.
RevealConnectedIdentityCommitment(j) ==
  /\ Sent(j, "reveal")
  /\ IF unlocked /\ Known(j.site) # None
     THEN Set(j, [j EXCEPT !.pc = "push", !.who = Known(j.site)])
     ELSE To(j, "err")
  /\ UNCHANGED connection

\* joinGroup and generateGroupMerkleProof ask Bandada for the identity connected now.
GroupService(j) ==
  /\ Sent(j, "join") \/ Sent(j, "merkle")
  /\ To(j, IF unlocked /\ Known(j.site) # None THEN "fetch" ELSE "err")
  /\ UNCHANGED connection

\* Bandada answers.  A wallet that cannot log that it joined, as when it is locked meanwhile
\* and its log is on, ends in an error, and the site never hears.
BandadaService(j) ==
  /\ j \in jobs /\ j.pc = "fetch"
  /\ To(j, "err") \/ To(j, "push")
  /\ UNCHANGED connection

\* import and createIdentity: stored, or there already.
InsertIdentity(j) ==
  /\ Sent(j, "import") \/ Sent(j, "create")
  /\ To(j, "err") \/ (unlocked /\ To(j, "push"))
  /\ UNCHANGED connection

\* connect: a locked wallet does not know the identity.
Connect(j) ==
  /\ Sent(j, "connect")
  /\ IF unlocked
     THEN connection' = [connection EXCEPT ![j.site] = j.who] /\ To(j, "push")
     ELSE UNCHANGED connection /\ To(j, "err")

\* addVerifiableCredential or a presentation: refused, or stored and logged; an unsigned
\* presentation is sent by a locked wallet as well.
VerifiableCredentials(j) ==
  /\ Sent(j, "credential") \/ Sent(j, "present")
  /\ To(j, "err") \/ ((unlocked \/ j.kind = "present") /\ To(j, "push"))
  /\ UNCHANGED connection

\* PUSH_EVENT with a rejection, of which a locked wallet makes nothing; the rejections of
\* credentials are handlers of their own, and that of a presentation fails with its log.
RejectUserRequest(j) ==
  /\ j \in jobs /\ j.pc = "reject"
  /\ \/ To(j, IF unlocked \/ j.kind \in {"credential", "present"} THEN "turn" ELSE "ok")
     \/ j.kind = "present" /\ To(j, "err")
  /\ UNCHANGED connection

\* Mutant: the event goes to the tab the user looks at.
AddresseesActive(j) == {{s} : s \in Sites}

\* The tabs an event may go to: those of the origin, or the one the user looks at.
Addressees(j) == IF j.kind \in Scoped THEN {{j.site} \ {None}} ELSE {{s} : s \in Sites}

\* pushEvent to the tabs of an origin, or sendMessage to the active tabs.  What was revealed
\* is logged after that, or cannot be.
PushEvent(j) ==
  /\ \/ j \in jobs /\ j.pc = "push" /\ To(j, "ok")
     \/ j \in jobs /\ j.pc = "push" /\ j.kind = "reveal" /\ To(j, "err")
     \/ j \in jobs /\ j.pc = "turn" /\ To(j, "turned")
  /\ UNCHANGED <<providerVars, walletVars, popupVars, asked, changed, countVars>>

Handle(j) ==
  /\ \/ RevealConnectedIdentityCommitment(j) \/ GroupService(j) \/ BandadaService(j)
     \/ InsertIdentity(j) \/ Connect(j) \/ VerifiableCredentials(j) \/ RejectUserRequest(j)
  /\ changed' = (changed \/ connection' # connection)
  /\ UNCHANGED <<providerVars, unlocked, loaded, popupVars, asked, countVars>>

\* Where the page goes when its call was answered: the popup closes, or it goes back to
\* the page to connect, or to create.
Onward(j) ==
  CASE j.pc = "err" -> [popup EXCEPT !.pc = "idle", !.job = 0]
    [] popup.kind = "connect" /\ j.kind = "import" /\ j.pc = "turned" ->
         [popup EXCEPT !.view = "create", !.pc = "idle", !.job = 0]
    [] j.pc = "ok" /\ popup.kind = "connect" /\ j.kind \in {"create", "import"} ->
         [popup EXCEPT !.view = "connect", !.pc = "mount", !.job = 0]
    [] OTHER -> [popup EXCEPT !.pc = "close", !.job = 0]

\* Mutant: an error leaves the page waiting.
AnswerSuccess(j) ==
  /\ j \in jobs /\ j.pc \in {"ok", "turned", "err"}
  /\ jobs' = jobs \ {j}
  /\ popup' = IF popup.job # j.id \/ j.pc = "err" THEN popup ELSE Onward(j)
  /\ UNCHANGED <<providerVars, walletVars, cached, notify, asked, changed, countVars>>

\* The page that waits hears what became of its call.
Answer(j) ==
  /\ j \in jobs /\ j.pc \in {"ok", "turned", "err"}
  /\ jobs' = jobs \ {j}
  /\ popup' = IF popup.job # j.id THEN popup ELSE Onward(j)
  /\ UNCHANGED <<providerVars, walletVars, cached, notify, asked, changed, countVars>>

\* CLOSE_POPUP: a popup the worker has forgotten shows the home page and stays.
ClosePopup ==
  /\ popup.pc = "close"
  /\ popup' = IF cached THEN NoPopup ELSE [popup EXCEPT !.view = "home", !.pc = "idle"]
  /\ cached' = FALSE
  /\ UNCHANGED <<providerVars, walletVars, notify, jobs, asked, changed, countVars>>

-----------------------------------------------------------------------------
(* The user elsewhere: the popup's frame, and other windows of the wallet. *)

Elsewhere == elsewhere < MaxElsewhere /\ elsewhere' = elsewhere + 1 /\ UNCHANGED <<submits, restarts>>

\* The user closes the window; what was asked goes on.
CloseWindow ==
  /\ popup.view # "closed" /\ Elsewhere
  /\ popup' = NoPopup /\ cached' = FALSE
  /\ UNCHANGED <<providerVars, walletVars, notify, jobs, asked, changed>>

\* disconnect and connect in another window.
Reconnect(s, i) ==
  /\ unlocked /\ connection[s] # i /\ Elsewhere
  /\ connection' = [connection EXCEPT ![s] = i] /\ changed' = TRUE
  /\ UNCHANGED <<providerVars, unlocked, loaded, popupVars, jobs, asked>>

\* UNLOCK in another window.
Unlock ==
  /\ ~unlocked /\ Elsewhere /\ unlocked' = TRUE /\ loaded' = TRUE /\ notify' = TRUE
  /\ UNCHANGED <<providerVars, connection, popup, cached, jobs, asked, changed>>

\* Mutant: a lock is not told to the pages.
LockQuietly ==
  /\ unlocked /\ Elsewhere
  /\ unlocked' = FALSE
  /\ UNCHANGED <<providerVars, loaded, connection, popupVars, jobs, asked, changed>>

\* LOCK in another window.
Lock ==
  /\ unlocked /\ Elsewhere
  /\ unlocked' = FALSE /\ notify' = TRUE
  /\ UNCHANGED <<providerVars, loaded, connection, popup, cached, jobs, asked, changed>>

\* The worker stops and starts: a page that waits gets an error, a message that was being
\* handled is dropped, and nobody is told that the wallet is locked.
Restart ==
  /\ restarts < MaxRestarts /\ restarts' = restarts + 1
  /\ unlocked' = FALSE /\ loaded' = FALSE /\ cached' = FALSE /\ notify' = FALSE
  /\ jobs' = {}
  /\ popup' = IF popup.pc = "busy" THEN [popup EXCEPT !.pc = "idle", !.job = 0] ELSE popup
  /\ wire' = wire \ Dropped
  /\ UNCHANGED <<providers, promises, crossed, requests, connection, asked, changed, submits, elsewhere>>

-----------------------------------------------------------------------------

SiteStep ==
  /\ \/ \E s \in Sites : Remount(s) \/ \E kind \in Kinds : Request(s, kind)
     \/ \E m \in wire : Reply(m)
  /\ UNCHANGED pageVars

PageStep ==
  \/ RevealIdentityCommitment \/ JoinGroup \/ GroupMerkleProof \/ ImportIdentity
  \/ ConnectIdentity \/ CreateIdentity \/ AddVerifiableCredential \/ PresentVerifiableCredential

Next ==
  \/ SiteStep
  \/ \E m \in wire : Receive(m) \/ Respond(m)
  \/ Loaded \/ Mounted \/ StatusArrives \/ Login \/ PageStep \/ ClosePopup \/ CloseWindow
  \/ \E j \in jobs : Handle(j) \/ PushEvent(j) \/ Answer(j)
  \/ \E s \in Sites, i \in Identities \cup {None} : Reconnect(s, i)
  \/ Unlock \/ Lock \/ Restart

Spec == Init /\ [][Next]_vars

-----------------------------------------------------------------------------

\* An event that is addressed to an origin, a success or a rejection, answers a request of
\* that kind from that origin, or one to connect, whose page leads to the pages that create
\* and import.  An event about a credential or a presentation goes to the tab the user looks
\* at, whichever that is: of it only that some site made such a request (Addressees).
AnswersWereAsked ==
  \A j \in jobs : j.pc \in {"push", "turn"} =>
    IF j.kind \in Scoped
    THEN \A s \in UNION Addressees(j) :
           j.kind \in asked[s] \/ (j.kind \in {"create", "import"} /\ "connect" \in asked[s])
    ELSE \E s \in Sites : j.kind \in asked[s]

\* What is revealed is what the page showed, unless the site's connection changed while
\* the page was open.
RevealsWhatWasShown ==
  \A j \in jobs : (j.kind = "reveal" /\ j.pc = "push" /\ popup.job = j.id /\ ~changed) => j.who = popup.shown

\* A lock reaches the popup: a page stays on a locked wallet only while the status is on
\* its way, or after a restart, of which nobody is told.
LockReachesPages ==
  popup.view \in PageViews => unlocked \/ notify \/ restarts > 0

\* A page waits only for a call that the background page still has: whatever a handler
\* does, a lock in between or a restart, the page hears of it.
WaitingIsAnswered == popup.pc = "busy" => \E j \in jobs : j.id = popup.job
=============================================================================
