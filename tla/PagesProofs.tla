----------------------------- MODULE PagesProofs -----------------------------
(***************************************************************************)
(* Proofs about Pages and Provider, for every set of sites and identities  *)
(* and any number of requests, remounts, calls, disturbances and restarts. *)
(***************************************************************************)
EXTENDS Pages, TLAPS, FiniteSetTheorems

\* The nonces of a tab with one provider tell its requests apart.
NoncesCountUp ==
  /\ \A s \in Sites : providers[s].nonce <= requests
  /\ \A p \in promises : providers[p.site].made = 1 => p.nonce < providers[p.site].nonce
  /\ \A m \in wire : providers[m.site].made = 1 => m.nonce < providers[m.site].nonce
  /\ \A p \in promises, m \in wire :
       providers[m.site].made = 1 /\ p.site = m.site /\ p.nonce = m.nonce => p.id = m.id

ProviderInv ==
  /\ ProviderTypeOK
  /\ IsFiniteSet(wire)
  /\ NoncesCountUp
  /\ RepliesMatch

\* Only a page waits, and for one call.
OnlyPagesWait ==
  /\ popup.view \in {"closed", "loading", "login"} => popup.pc = "idle"
  /\ popup.job # 0 <=> popup.pc = "busy"

\* The popup is there for a request that a site made, and its routes lead nowhere else.
PopupWasAsked ==
  popup.view # "closed" =>
    /\ popup.site \in Sites
    /\ popup.kind \in asked[popup.site]
    /\ popup.view \in {"connect", "create"} => popup.kind = "connect"
    /\ popup.view = "import" => popup.kind \in {"connect", "import"}
    /\ popup.view \in {"reveal", "join", "merkle", "credential", "present"} => popup.kind = popup.view

\* So is a call that goes on, whether the user agreed or not.
GoesOn == {"sent", "reject", "fetch", "push", "turn"}

WasAsked(kind, s) == kind \in asked[s] \/ (kind \in {"create", "import"} /\ "connect" \in asked[s])

JobsWereAsked ==
  \A j \in jobs : j.pc \in GoesOn =>
    /\ j.kind \in Scoped /\ j.site # None => WasAsked(j.kind, j.site)
    /\ j.kind \notin Scoped => \E s \in Sites : j.kind \in asked[s]

\* Only the groups ask Bandada.
OnlyGroupsFetch == \A j \in jobs : j.pc = "fetch" => j.kind \in {"join", "merkle"}

\* A page shows the connection as it is, until it changes ...
ShownIsConnected ==
  popup.shown # None /\ ~changed => connection[popup.site] = popup.shown

\* ... and its call to reveal is about the site and the connection that it shows.
RevealIsForTheSite ==
  \A j \in jobs : j.kind = "reveal" /\ j.pc = "sent" /\ popup.job = j.id =>
    j.site = popup.site /\ popup.shown # None

PopupInv ==
  /\ PopupTypeOK
  /\ OnlyPagesWait
  /\ PopupWasAsked
  /\ JobsWereAsked
  /\ OnlyGroupsFetch
  /\ ShownIsConnected
  /\ RevealIsForTheSite
  /\ RevealsWhatWasShown
  /\ LockReachesPages
  /\ WaitingIsAnswered

PagesInv == ProviderInv /\ PopupInv

-----------------------------------------------------------------------------
(* The provider of a site. *)

LEMMA AddedElement ==
  ASSUME NEW S, IsFiniteSet(S), NEW x
  PROVE  /\ IsFiniteSet(S \cup {x})
         /\ Cardinality(S) \in Nat /\ Cardinality(S \cup {x}) \in Nat
         /\ Cardinality(S \cup {x}) <= Cardinality(S) + 1
<1>1. IsFiniteSet(S \cup {x})
  BY FS_AddElement
<1>2. Cardinality(S) \in Nat /\ Cardinality(S \cup {x}) \in Nat
  BY <1>1, FS_CardinalityType
<1>3. Cardinality(S \cup {x}) = IF x \in S THEN Cardinality(S) ELSE Cardinality(S) + 1
  BY FS_AddElement
<1>4. QED
  BY <1>1, <1>2, <1>3

LEMMA RemovedElement ==
  ASSUME NEW S, IsFiniteSet(S), NEW x \in S
  PROVE  /\ IsFiniteSet(S \ {x})
         /\ Cardinality(S) \in Nat /\ Cardinality(S \ {x}) \in Nat
         /\ Cardinality(S \ {x}) + 1 = Cardinality(S)
<1>1. IsFiniteSet(S \ {x})
  BY FS_RemoveElement
<1>2. Cardinality(S) \in Nat /\ Cardinality(S \ {x}) \in Nat
  BY <1>1, FS_CardinalityType
<1>3. Cardinality(S \ {x}) = IF x \in S THEN Cardinality(S) - 1 ELSE Cardinality(S)
  BY FS_RemoveElement
<1>4. QED
  BY <1>1, <1>2, <1>3

LEMMA RequestKeepsProvider ==
  ASSUME ProviderInv, NEW s \in Sites, NEW kind \in Kinds, Request(s, kind)
  PROVE  ProviderInv'
<1> DEFINE nonce == providers[s].nonce
           m == [site |-> s, nonce |-> nonce, id |-> requests', kind |-> kind, pc |-> "sent"]
           p == [site |-> s, nonce |-> nonce, id |-> requests', settled |-> FALSE]
<1>1. /\ wire' = wire \cup {m} /\ promises' = promises \cup {p}
      /\ providers' = [providers EXCEPT ![s].nonce = @ + 1]
      /\ requests' = requests + 1 /\ requests < MaxRequests /\ crossed' = crossed
  BY DEF Request
<1>2. /\ nonce \in Nat /\ nonce <= requests /\ requests \in Nat
      /\ requests' \in Ids /\ requests' \in 0..MaxRequests
  BY <1>1, ProviderAssumption DEF ProviderInv, ProviderTypeOK, NoncesCountUp, Ids
<1>3. m \in Message /\ p \in Promise
  BY <1>2 DEF Message, Promise
<1>4. IsFiniteSet(wire') /\ Cardinality(wire') <= requests'
  <2>1. IsFiniteSet(wire) /\ Cardinality(wire) <= requests
    BY DEF ProviderInv, ProviderTypeOK
  <2>2. /\ IsFiniteSet(wire \cup {m}) /\ Cardinality(wire) \in Nat
        /\ Cardinality(wire \cup {m}) \in Nat
        /\ Cardinality(wire \cup {m}) <= Cardinality(wire) + 1
    BY <2>1, AddedElement
  <2>3. Cardinality(wire \cup {m}) <= requests + 1
    BY <1>2, <2>1, <2>2
  <2>4. QED
    BY <1>1, <2>2, <2>3
<1>5. /\ providers' \in [Sites -> [made: 1..(MaxRemounts + 1), nonce: 0..MaxRequests]]
      /\ providers'[s].nonce = nonce + 1
      /\ \A t \in Sites : providers'[t].made = providers[t].made
      /\ \A t \in Sites \ {s} : providers'[t] = providers[t]
  <2>1. nonce + 1 \in 0..MaxRequests
    BY <1>1, <1>2, ProviderAssumption
  <2>2. QED
    BY <1>1, <2>1 DEF ProviderInv, ProviderTypeOK
<1>6. ProviderTypeOK'
  BY <1>1, <1>2, <1>3, <1>4, <1>5 DEF ProviderInv, ProviderTypeOK
<1>7. NoncesCountUp'
  <2>1. \A t \in Sites : providers'[t].nonce <= requests'
    BY <1>1, <1>2, <1>5 DEF ProviderInv, ProviderTypeOK, NoncesCountUp
  <2>2. \A q \in promises' : providers'[q.site].made = 1 => q.nonce < providers'[q.site].nonce
    BY <1>1, <1>2, <1>5 DEF ProviderInv, ProviderTypeOK, NoncesCountUp, Promise
  <2>3. \A q \in wire' : providers'[q.site].made = 1 => q.nonce < providers'[q.site].nonce
    BY <1>1, <1>2, <1>5 DEF ProviderInv, ProviderTypeOK, NoncesCountUp, Message
  <2>4. ASSUME NEW q \in promises', NEW n \in wire', providers'[n.site].made = 1,
               q.site = n.site, q.nonce = n.nonce
        PROVE  q.id = n.id
    <3>1. q \in Promise /\ n \in Message
      BY <1>1, <1>3 DEF ProviderInv, ProviderTypeOK
    <3>2. providers[n.site].made = 1
      BY <1>5, <2>4, <3>1 DEF Message
    <3>3. CASE q = p /\ n = m
      BY <3>3
    <3>4. CASE q \in promises /\ n \in wire
      BY <2>4, <3>2, <3>4 DEF ProviderInv, NoncesCountUp
    <3>5. CASE q \in promises /\ n = m
      BY <1>2, <2>4, <3>2, <3>5 DEF ProviderInv, NoncesCountUp
    <3>6. CASE q = p /\ n \in wire
      BY <1>2, <2>4, <3>2, <3>6 DEF ProviderInv, NoncesCountUp
    <3>7. QED
      BY <1>1, <3>3, <3>4, <3>5, <3>6
  <2>5. QED
    BY <2>1, <2>2, <2>3, <2>4 DEF NoncesCountUp
<1>8. RepliesMatch'
  BY <1>1, <1>5 DEF ProviderInv, RepliesMatch
<1>9. QED
  BY <1>4, <1>6, <1>7, <1>8 DEF ProviderInv

LEMMA RemountKeepsProvider ==
  ASSUME ProviderInv, NEW s \in Sites, Remount(s)
  PROVE  ProviderInv'
<1>1. /\ providers' \in [Sites -> [made: 1..(MaxRemounts + 1), nonce: 0..MaxRequests]]
      /\ providers'[s].made > 1 /\ providers'[s].nonce = 0
      /\ \A t \in Sites \ {s} : providers'[t] = providers[t]
  BY ProviderAssumption DEF Remount, ProviderInv, ProviderTypeOK
<1>2. ProviderTypeOK'
  BY <1>1 DEF Remount, ProviderInv, ProviderTypeOK
<1>3. NoncesCountUp'
  BY <1>1 DEF Remount, ProviderInv, ProviderTypeOK, NoncesCountUp, Promise, Message
<1>4. RepliesMatch'
  BY <1>1 DEF RepliesMatch
<1>5. QED
  BY <1>2, <1>3, <1>4 DEF Remount, ProviderInv

\* With one provider a reply finds no promise but its own.
LEMMA ReplyKeepsProvider ==
  ASSUME ProviderInv, NEW m \in wire, Reply(m)
  PROVE  ProviderInv'
<1> DEFINE own == {p \in promises : p.site = m.site /\ p.nonce = m.nonce}
<1>1. m \in Message /\ promises \subseteq Promise
  BY DEF ProviderInv, ProviderTypeOK
<1>2. /\ IsFiniteSet(wire') /\ Cardinality(wire') <= Cardinality(wire) /\ wire' \subseteq wire
      /\ Cardinality(wire) \in Nat /\ Cardinality(wire') \in Nat
  BY RemovedElement DEF Reply, ProviderInv
<1>3. \A q \in promises' : \E p \in promises : q \in Promise /\ q.site = p.site
                                               /\ q.nonce = p.nonce /\ q.id = p.id
  BY <1>1 DEF Reply, Promise
<1>4. ProviderTypeOK'
  BY <1>2, <1>3 DEF Reply, ProviderInv, ProviderTypeOK
<1>5. NoncesCountUp'
  BY <1>2, <1>3 DEF Reply, ProviderInv, NoncesCountUp
<1>6. RepliesMatch'
  <2>1. CASE providers[m.site].made = 1
    <3>1. \A p \in own : p.id = m.id
      BY <2>1 DEF ProviderInv, NoncesCountUp
    <3>2. QED
      BY <3>1 DEF Reply, ProviderInv, RepliesMatch
  <2>2. CASE providers[m.site].made # 1
    <3>1. m.site \in Sites /\ providers[m.site].made > 1
      BY <1>1, <2>2 DEF ProviderInv, ProviderTypeOK, Message
    <3>2. QED
      BY <3>1 DEF Reply, RepliesMatch
  <2>3. QED
    BY <2>1, <2>2
<1>7. QED
  BY <1>2, <1>4, <1>5, <1>6 DEF ProviderInv

\* The background page moves messages on, and drops some.
LEMMA WireKeepsProvider ==
  ASSUME ProviderInv, UNCHANGED <<providers, promises, crossed, requests>>,
         IsFiniteSet(wire'), Cardinality(wire') <= Cardinality(wire), wire' \subseteq Message,
         \A m \in wire' : \E n \in wire : m.site = n.site /\ m.nonce = n.nonce /\ m.id = n.id
  PROVE  ProviderInv'
<1>1. Cardinality(wire) \in Nat /\ Cardinality(wire') \in Nat
  BY FS_CardinalityType DEF ProviderInv
<1>2. ProviderTypeOK'
  BY <1>1 DEF ProviderInv, ProviderTypeOK
<1>3. NoncesCountUp' /\ RepliesMatch'
  BY DEF ProviderInv, NoncesCountUp, RepliesMatch
<1>4. QED
  BY <1>2, <1>3 DEF ProviderInv

LEMMA AdvanceKeepsProvider ==
  ASSUME ProviderInv, NEW m \in wire, NEW pc \in {"handling", "ok", "err"}, Advance(m, pc),
         UNCHANGED <<providers, promises, crossed, requests>>
  PROVE  ProviderInv'
<1> DEFINE n == [m EXCEPT !.pc = pc]
<1>1. /\ m \in Message /\ n \in Message
      /\ n.site = m.site /\ n.nonce = m.nonce /\ n.id = m.id
  BY DEF ProviderInv, ProviderTypeOK, Message
<1>2. /\ IsFiniteSet(wire \ {m}) /\ Cardinality(wire \ {m}) + 1 = Cardinality(wire)
      /\ Cardinality(wire) \in Nat /\ Cardinality(wire \ {m}) \in Nat
  BY RemovedElement DEF ProviderInv
<1>3. wire' = (wire \ {m}) \cup {n}
  BY DEF Advance
<1>4. IsFiniteSet(wire') /\ Cardinality(wire') <= Cardinality(wire)
  BY <1>2, <1>3, AddedElement
<1>5. /\ wire' \subseteq Message
      /\ \A k \in wire' : \E l \in wire : k.site = l.site /\ k.nonce = l.nonce /\ k.id = l.id
  BY <1>1, <1>3 DEF ProviderInv, ProviderTypeOK
<1>6. QED
  BY <1>4, <1>5, WireKeepsProvider

-----------------------------------------------------------------------------
(* The popup and its pages. *)

LEMMA PopupRests ==
  ASSUME PopupInv, UNCHANGED pageVars
  PROVE  PopupInv'
  BY DEF pageVars, walletVars, popupVars, countVars, PopupInv, PopupTypeOK, OnlyPagesWait,
     PopupWasAsked, JobsWereAsked, WasAsked, OnlyGroupsFetch, ShownIsConnected, RevealIsForTheSite,
     RevealsWhatWasShown, LockReachesPages, WaitingIsAnswered

LEMMA NoPopupIsPopup == NoPopup \in Popup /\ NoPopup.view = "closed" /\ NoPopup.pc = "idle"
                        /\ NoPopup.job = 0 /\ NoPopup.shown = None
  BY PagesAssumption DEF NoPopup, Popup, Routes, PageViews

LEMMA OpenPopupOpens ==
  ASSUME PopupInv, NEW kind \in Routes, NEW site \in Sites, OpenPopup(kind, site)
  PROVE  /\ cached' \in BOOLEAN /\ notify' = notify
         /\ \/ UNCHANGED popup
            \/ /\ popup' \in Popup /\ popup'.view = "loading" /\ popup'.kind = kind
               /\ popup'.site = site /\ popup'.shown = None /\ popup'.pc = "idle"
               /\ popup'.job = 0
<1>1. CASE cached
  BY <1>1 DEF OpenPopup, popupVars, PopupInv, PopupTypeOK
<1>2. CASE ~cached
  <2>1. popup' = [NoPopup EXCEPT !.view = "loading", !.kind = kind, !.site = site]
    BY <1>2 DEF OpenPopup
  <2>2. popup' \in Popup
    BY <2>1, NoPopupIsPopup DEF Popup
  <2>3. QED
    BY <1>2, <2>1, <2>2 DEF OpenPopup, NoPopup
<1>3. QED
  BY <1>1, <1>2

LEMMA ElsewhereCounts ==
  ASSUME PopupInv, Elsewhere
  PROVE  elsewhere' \in 0..MaxElsewhere /\ UNCHANGED <<submits, restarts>>
  BY PagesAssumption DEF Elsewhere, PopupInv, PopupTypeOK

LEMMA ReceiveKeeps ==
  ASSUME PopupInv, NEW m \in Message, Receive(m)
  PROVE  PopupInv'
<1>1. m.site \in Sites /\ m.kind \in Kinds /\ m.kind \in Routes
  BY PagesAssumption DEF Message, PopupInv, PopupTypeOK, Popup, Receive, walletVars,
     popupVars, countVars
<1>2. UNCHANGED <<popupVars, asked>> \/ (OpenPopup(m.kind, m.site) /\ m.kind \in asked'[m.site])
  BY PagesAssumption, <1>1 DEF PopupInv, PopupTypeOK, Popup, Receive, walletVars, popupVars,
     countVars
<1>3. /\ UNCHANGED notify /\ cached' \in BOOLEAN
      /\ \/ UNCHANGED popup
         \/ /\ popup' \in Popup /\ m.kind \in asked'[m.site]
            /\ popup'.view = "loading" /\ popup'.kind = m.kind /\ popup'.site = m.site
            /\ popup'.shown = None /\ popup'.pc = "idle" /\ popup'.job = 0
  BY PagesAssumption, OpenPopupOpens, <1>1, <1>2 DEF PopupInv, PopupTypeOK, Popup, Receive,
     walletVars, popupVars, countVars
<1>4. asked' \in [Sites -> SUBSET Kinds] /\ \A s \in Sites : asked[s] \subseteq asked'[s]
  BY PagesAssumption, <1>1, <1>2, <1>3 DEF PopupInv, PopupTypeOK, Popup, Receive, walletVars,
     popupVars, countVars
<1>5. UNCHANGED <<walletVars, jobs, changed, countVars>>
  BY PagesAssumption, <1>1, <1>2, <1>3, <1>4 DEF PopupInv, PopupTypeOK, Popup, Receive,
     walletVars, popupVars, countVars
<1>6. PopupTypeOK'
  BY PagesAssumption, <1>1, <1>2, <1>3, <1>4, <1>5 DEF PopupInv, PopupTypeOK, Receive,
     walletVars, popupVars, countVars
<1>7. OnlyPagesWait'
  BY PagesAssumption, <1>1, <1>2, <1>3, <1>4, <1>5 DEF PopupInv, PopupTypeOK, OnlyPagesWait,
     Receive, walletVars, popupVars, countVars
<1>8. PopupWasAsked'
  BY PagesAssumption, <1>1, <1>2, <1>3, <1>4, <1>5 DEF PopupInv, PopupTypeOK, OnlyPagesWait,
     PopupWasAsked, Receive, walletVars, popupVars, countVars
<1>9. JobsWereAsked' /\ OnlyGroupsFetch'
  <2>1. JobsWereAsked /\ OnlyGroupsFetch /\ jobs' = jobs /\ jobs \subseteq Job
    BY <1>5 DEF PopupInv, PopupTypeOK
  <2>2. \A j \in jobs : j.site \in Sites \cup {None}
    BY <2>1 DEF Job
  <2>3. \A kind, s \in Sites : WasAsked(kind, s) => WasAsked(kind, s)'
    BY <1>4 DEF WasAsked
  <2>4. ASSUME NEW j \in jobs, j.pc \in GoesOn
        PROVE  /\ j.kind \in Scoped /\ j.site # None => WasAsked(j.kind, j.site)'
               /\ j.kind \notin Scoped => \E s \in Sites : j.kind \in asked'[s]
    BY <1>4, <2>1, <2>2, <2>4 DEF JobsWereAsked, WasAsked
  <2>5. QED
    BY <2>1, <2>4 DEF JobsWereAsked, OnlyGroupsFetch, WasAsked
<1>10. ShownIsConnected'
  BY PagesAssumption, <1>1, <1>2, <1>3, <1>4, <1>5 DEF PopupInv, PopupTypeOK,
     ShownIsConnected, Receive, walletVars, popupVars, countVars
<1>11. RevealIsForTheSite' /\ RevealsWhatWasShown'
  BY PagesAssumption, <1>1, <1>2, <1>3, <1>4, <1>5 DEF PopupInv, PopupTypeOK, Job,
     OnlyPagesWait, RevealIsForTheSite, RevealsWhatWasShown, Receive, walletVars, popupVars,
     countVars
<1>12. LockReachesPages'
  BY PagesAssumption, <1>1, <1>2, <1>3, <1>4, <1>5 DEF PopupInv, PopupTypeOK,
     LockReachesPages, OnlyPagesWait, PageViews, Receive, walletVars, popupVars, countVars,
     Routes
<1>13. WaitingIsAnswered'
  BY PagesAssumption, <1>1, <1>2, <1>3, <1>4, <1>5 DEF PopupInv, PopupTypeOK, OnlyPagesWait,
     WaitingIsAnswered, Receive, walletVars, popupVars, countVars
<1>14. QED
  BY <1>6, <1>7, <1>8, <1>9, <1>10, <1>11, <1>12, <1>13 DEF PopupInv

LEMMA LoadedKeeps ==
  ASSUME PopupInv, Loaded
  PROVE  PopupInv'
<1>1. /\ popup' \in Popup /\ popup'.kind = popup.kind /\ popup'.site = popup.site
      /\ popup'.shown = popup.shown /\ popup'.job = popup.job
      /\ IF unlocked THEN popup'.view = popup.kind /\ popup'.pc = "mount"
                     ELSE popup'.view = "login" /\ popup'.pc = popup.pc
  BY DEF PageViews, PopupInv, PopupTypeOK, Popup, Loaded, walletVars, popupVars, countVars
<1>2. popup.kind \in Routes
  BY <1>1 DEF PopupInv, PopupTypeOK, Popup, Loaded, walletVars, popupVars, countVars
<1>3. PopupTypeOK'
  BY <1>1, <1>2 DEF PopupInv, PopupTypeOK, Loaded, walletVars, popupVars, countVars, Routes
<1>4. OnlyPagesWait'
  BY <1>1, <1>2 DEF PopupInv, PopupTypeOK, OnlyPagesWait, Loaded, walletVars, popupVars,
     countVars, Routes
<1>5. PopupWasAsked'
  BY <1>1, <1>2 DEF PopupInv, PopupTypeOK, OnlyPagesWait, PopupWasAsked, Loaded, walletVars,
     popupVars, countVars, Routes
<1>6. JobsWereAsked' /\ OnlyGroupsFetch'
  BY <1>1, <1>2 DEF PopupInv, PopupTypeOK, JobsWereAsked, WasAsked, OnlyGroupsFetch, GoesOn,
     Scoped, Connected,
     Loaded, walletVars, popupVars, countVars
<1>7. ShownIsConnected'
  BY <1>1, <1>2 DEF PopupInv, PopupTypeOK, ShownIsConnected, Loaded, walletVars, popupVars,
     countVars
<1>8. RevealIsForTheSite' /\ RevealsWhatWasShown'
  BY <1>1, <1>2 DEF PopupInv, PopupTypeOK, Job, OnlyPagesWait, RevealIsForTheSite,
     RevealsWhatWasShown, Loaded, walletVars, popupVars, countVars
<1>9. LockReachesPages'
  BY <1>1, <1>2 DEF PopupInv, PopupTypeOK, LockReachesPages, OnlyPagesWait, PageViews, Loaded,
     walletVars, popupVars, countVars, Routes
<1>10. WaitingIsAnswered'
  BY <1>1, <1>2 DEF PopupInv, PopupTypeOK, OnlyPagesWait, WaitingIsAnswered, Loaded,
     walletVars, popupVars, countVars
<1>11. QED
  BY <1>3, <1>4, <1>5, <1>6, <1>7, <1>8, <1>9, <1>10 DEF PopupInv

LEMMA MountedKeeps ==
  ASSUME PopupInv, Mounted
  PROVE  PopupInv'
<1>1. Known(popup.site) \in Identities \cup {None}
  BY DEF Known, PopupInv, PopupTypeOK, Popup, Mounted, walletVars, popupVars, countVars
<1>2. /\ popup' \in Popup /\ popup'.kind = popup.kind /\ popup'.site = popup.site
      /\ popup'.view = popup.view /\ popup'.pc = "idle" /\ popup'.job = popup.job
      /\ popup'.shown = Known(popup.site)
  BY <1>1 DEF PopupInv, PopupTypeOK, Popup, Mounted, walletVars, popupVars, countVars
<1>3. PopupTypeOK'
  BY <1>1, <1>2 DEF PopupInv, PopupTypeOK, Mounted, walletVars, popupVars, countVars,
     OnlyPagesWait
<1>4. OnlyPagesWait'
  BY <1>1, <1>2 DEF PopupInv, PopupTypeOK, OnlyPagesWait, Mounted, walletVars, popupVars,
     countVars
<1>5. PopupWasAsked'
  BY <1>1, <1>2 DEF PopupInv, PopupTypeOK, OnlyPagesWait, PopupWasAsked, Mounted, walletVars,
     popupVars, countVars
<1>6. JobsWereAsked' /\ OnlyGroupsFetch'
  BY <1>1, <1>2 DEF PopupInv, PopupTypeOK, JobsWereAsked, WasAsked, OnlyGroupsFetch, GoesOn,
     Scoped, Connected,
     Mounted, walletVars, popupVars, countVars
<1>7. ShownIsConnected'
  BY <1>1, <1>2 DEF PopupInv, PopupTypeOK, ShownIsConnected, Mounted, walletVars, popupVars,
     countVars, Known
<1>8. RevealIsForTheSite' /\ RevealsWhatWasShown'
  BY <1>1, <1>2 DEF PopupInv, PopupTypeOK, Job, OnlyPagesWait, RevealIsForTheSite,
     RevealsWhatWasShown, Mounted, walletVars, popupVars, countVars
<1>9. LockReachesPages'
  BY <1>1, <1>2 DEF PopupInv, PopupTypeOK, LockReachesPages, OnlyPagesWait, PageViews,
     Mounted, walletVars, popupVars, countVars
<1>10. WaitingIsAnswered'
  BY <1>1, <1>2 DEF PopupInv, PopupTypeOK, OnlyPagesWait, WaitingIsAnswered, Mounted,
     walletVars, popupVars, countVars
<1>11. QED
  BY <1>3, <1>4, <1>5, <1>6, <1>7, <1>8, <1>9, <1>10 DEF PopupInv

LEMMA StatusArrivesKeeps ==
  ASSUME PopupInv, StatusArrives
  PROVE  PopupInv'
<1>1. [popup EXCEPT !.open = TRUE] \in Popup
  BY DEF PopupInv, PopupTypeOK, Popup, StatusArrives, walletVars, popupVars, countVars
<1>2. 0 \in 0..MaxSubmits
  BY <1>1, PagesAssumption
<1>3. [popup EXCEPT !.view = "login", !.open = FALSE, !.pc = "idle", !.job = 0] \in Popup
  BY <1>1, <1>2 DEF PageViews, PopupInv, PopupTypeOK, Popup, StatusArrives, walletVars,
     popupVars, countVars
<1>4. \/ /\ popup' \in Popup /\ popup'.kind = popup.kind /\ popup'.site = popup.site /\ popup'.shown = popup.shown
         /\ popup'.view = popup.view /\ popup'.pc = popup.pc /\ popup'.job = popup.job
         /\ popup.view = "closed" => popup' = popup
         /\ popup.view \notin {"closed", "loading"} => unlocked
      \/ /\ popup' \in Popup /\ popup'.kind = popup.kind /\ popup'.site = popup.site /\ popup'.shown = popup.shown
         /\ popup.view # "closed" /\ popup'.view = "login" /\ popup'.pc = "idle" /\ popup'.job = 0
  BY <1>1, <1>2, <1>3 DEF PopupInv, PopupTypeOK, Popup, StatusArrives, walletVars, popupVars,
     countVars
<1>5. popup' \in Popup /\ popup'.job <= submits /\ (popup'.view = "closed" => popup' = NoPopup)
  BY <1>1, <1>2, <1>3, <1>4 DEF PopupInv, PopupTypeOK, Popup, StatusArrives, walletVars,
     popupVars, countVars
<1>6. PopupTypeOK'
  BY <1>1, <1>2, <1>3, <1>4, <1>5 DEF PopupInv, PopupTypeOK, StatusArrives, walletVars,
     popupVars, countVars
<1>7. OnlyPagesWait'
  BY <1>1, <1>2, <1>3, <1>4, <1>5 DEF PopupInv, PopupTypeOK, OnlyPagesWait, StatusArrives,
     walletVars, popupVars, countVars
<1>8. PopupWasAsked'
  BY <1>1, <1>2, <1>3, <1>4, <1>5 DEF PopupInv, PopupTypeOK, OnlyPagesWait, PopupWasAsked,
     StatusArrives, walletVars, popupVars, countVars
<1>9. JobsWereAsked' /\ OnlyGroupsFetch'
  BY <1>1, <1>2, <1>3, <1>4, <1>5 DEF PopupInv, PopupTypeOK, JobsWereAsked, WasAsked,
     OnlyGroupsFetch,
     GoesOn, Scoped, Connected, StatusArrives, walletVars, popupVars, countVars
<1>10. ShownIsConnected'
  BY <1>1, <1>2, <1>3, <1>4, <1>5 DEF PopupInv, PopupTypeOK, ShownIsConnected, StatusArrives,
     walletVars, popupVars, countVars
<1>11. RevealIsForTheSite' /\ RevealsWhatWasShown'
  BY <1>1, <1>2, <1>3, <1>4, <1>5 DEF PopupInv, PopupTypeOK, Job, OnlyPagesWait,
     RevealIsForTheSite, RevealsWhatWasShown, StatusArrives, walletVars, popupVars, countVars
<1>12. LockReachesPages'
  BY <1>1, <1>2, <1>3, <1>4, <1>5 DEF PopupInv, PopupTypeOK, LockReachesPages, OnlyPagesWait,
     PageViews, StatusArrives, walletVars, popupVars, countVars, Routes
<1>13. WaitingIsAnswered'
  BY <1>1, <1>2, <1>3, <1>4, <1>5 DEF PopupInv, PopupTypeOK, OnlyPagesWait, WaitingIsAnswered,
     StatusArrives, walletVars, popupVars, countVars
<1>14. QED
  BY <1>6, <1>7, <1>8, <1>9, <1>10, <1>11, <1>12, <1>13 DEF PopupInv

LEMMA LoginKeeps ==
  ASSUME PopupInv, Login
  PROVE  PopupInv'
<1>1. /\ popup' \in Popup /\ popup'.kind = popup.kind /\ popup'.site = popup.site
      /\ popup'.shown = popup.shown
      /\ popup'.view = "home" /\ popup'.pc = "close" /\ popup'.job = popup.job
  BY DEF PageViews, PopupInv, PopupTypeOK, Popup, Login, CanLogIn, Shows, walletVars,
     popupVars, countVars
<1>2. PopupTypeOK'
  BY <1>1 DEF PopupInv, PopupTypeOK, Login, CanLogIn, Shows, walletVars, popupVars, countVars
<1>3. OnlyPagesWait'
  BY <1>1 DEF PopupInv, PopupTypeOK, OnlyPagesWait, Login, CanLogIn, Shows, walletVars,
     popupVars, countVars
<1>4. PopupWasAsked'
  BY <1>1 DEF PopupInv, PopupTypeOK, OnlyPagesWait, PopupWasAsked, Login, CanLogIn, Shows,
     walletVars, popupVars, countVars
<1>5. JobsWereAsked' /\ OnlyGroupsFetch'
  BY <1>1 DEF PopupInv, PopupTypeOK, JobsWereAsked, WasAsked, OnlyGroupsFetch, GoesOn, Scoped,
     Connected, Login,
     CanLogIn, Shows, walletVars, popupVars, countVars
<1>6. ShownIsConnected'
  BY <1>1 DEF PopupInv, PopupTypeOK, ShownIsConnected, Login, CanLogIn, Shows, walletVars,
     popupVars, countVars
<1>7. RevealIsForTheSite' /\ RevealsWhatWasShown'
  BY <1>1 DEF PopupInv, PopupTypeOK, Job, OnlyPagesWait, RevealIsForTheSite,
     RevealsWhatWasShown, Login, CanLogIn, Shows, walletVars, popupVars, countVars
<1>8. LockReachesPages'
  BY <1>1 DEF PopupInv, PopupTypeOK, LockReachesPages, OnlyPagesWait, PageViews, Login,
     CanLogIn, Shows, walletVars, popupVars, countVars
<1>9. WaitingIsAnswered'
  BY <1>1 DEF PopupInv, PopupTypeOK, OnlyPagesWait, WaitingIsAnswered, Login, CanLogIn, Shows,
     walletVars, popupVars, countVars
<1>10. QED
  BY <1>2, <1>3, <1>4, <1>5, <1>6, <1>7, <1>8, <1>9 DEF PopupInv

LEMMA ClosePopupKeeps ==
  ASSUME PopupInv, ClosePopup
  PROVE  PopupInv'
<1>1. \/ popup' = NoPopup
      \/ /\ popup' \in Popup /\ popup'.kind = popup.kind /\ popup'.site = popup.site /\ popup'.shown = popup.shown
         /\ popup'.view = "home" /\ popup'.pc = "idle" /\ popup'.job = popup.job
  BY PagesAssumption, NoPopupIsPopup DEF PageViews, PopupInv, PopupTypeOK, Popup, ClosePopup,
     walletVars, popupVars, countVars
<1>2. popup' \in Popup /\ popup'.job <= submits /\ (popup'.view = "closed" => popup' = NoPopup)
  BY PagesAssumption, NoPopupIsPopup, <1>1 DEF PopupInv, PopupTypeOK, Popup, ClosePopup,
     walletVars, popupVars, countVars
<1>3. PopupTypeOK'
  BY PagesAssumption, NoPopupIsPopup, <1>1, <1>2 DEF PopupInv, PopupTypeOK, ClosePopup,
     walletVars, popupVars, countVars
<1>4. OnlyPagesWait'
  BY PagesAssumption, NoPopupIsPopup, <1>1, <1>2 DEF PopupInv, PopupTypeOK, OnlyPagesWait,
     ClosePopup, walletVars, popupVars, countVars
<1>5. PopupWasAsked'
  BY PagesAssumption, NoPopupIsPopup, <1>1, <1>2 DEF PopupInv, PopupTypeOK, OnlyPagesWait,
     PopupWasAsked, ClosePopup, walletVars, popupVars, countVars
<1>6. JobsWereAsked' /\ OnlyGroupsFetch'
  BY PagesAssumption, NoPopupIsPopup, <1>1, <1>2 DEF PopupInv, PopupTypeOK, JobsWereAsked, WasAsked,
     OnlyGroupsFetch, GoesOn, Scoped, Connected, ClosePopup, walletVars, popupVars, countVars
<1>7. ShownIsConnected'
  BY PagesAssumption, NoPopupIsPopup, <1>1, <1>2 DEF PopupInv, PopupTypeOK, ShownIsConnected,
     ClosePopup, walletVars, popupVars, countVars
<1>8. RevealIsForTheSite' /\ RevealsWhatWasShown'
  BY PagesAssumption, NoPopupIsPopup, <1>1, <1>2 DEF PopupInv, PopupTypeOK, Job,
     OnlyPagesWait, RevealIsForTheSite, RevealsWhatWasShown, ClosePopup, walletVars,
     popupVars, countVars
<1>9. LockReachesPages'
  BY PagesAssumption, NoPopupIsPopup, <1>1, <1>2 DEF PopupInv, PopupTypeOK, LockReachesPages,
     OnlyPagesWait, PageViews, ClosePopup, walletVars, popupVars, countVars, Popup, Routes
<1>10. WaitingIsAnswered'
  BY PagesAssumption, NoPopupIsPopup, <1>1, <1>2 DEF PopupInv, PopupTypeOK, OnlyPagesWait,
     WaitingIsAnswered, ClosePopup, walletVars, popupVars, countVars
<1>11. QED
  BY <1>3, <1>4, <1>5, <1>6, <1>7, <1>8, <1>9, <1>10 DEF PopupInv

LEMMA CloseWindowKeeps ==
  ASSUME PopupInv, CloseWindow
  PROVE  PopupInv'
<1>1. popup' \in Popup /\ popup'.job <= submits /\ (popup'.view = "closed" => popup' = NoPopup)
  BY PagesAssumption, NoPopupIsPopup, ElsewhereCounts DEF PopupInv, PopupTypeOK, Popup,
     CloseWindow, walletVars, popupVars, countVars
<1>2. elsewhere' \in 0..MaxElsewhere
  BY PagesAssumption, NoPopupIsPopup, ElsewhereCounts, <1>1 DEF PopupInv, PopupTypeOK, Popup,
     CloseWindow, walletVars, popupVars, countVars
<1>3. PopupTypeOK'
  BY PagesAssumption, NoPopupIsPopup, ElsewhereCounts, <1>1, <1>2 DEF PopupInv, PopupTypeOK,
     CloseWindow, walletVars, popupVars, countVars
<1>4. OnlyPagesWait'
  BY PagesAssumption, NoPopupIsPopup, ElsewhereCounts, <1>1, <1>2 DEF PopupInv, PopupTypeOK,
     OnlyPagesWait, CloseWindow, walletVars, popupVars, countVars
<1>5. PopupWasAsked'
  BY PagesAssumption, NoPopupIsPopup, ElsewhereCounts, <1>1, <1>2 DEF PopupInv, PopupTypeOK,
     OnlyPagesWait, PopupWasAsked, CloseWindow, walletVars, popupVars, countVars
<1>6. JobsWereAsked' /\ OnlyGroupsFetch'
  BY PagesAssumption, NoPopupIsPopup, ElsewhereCounts, <1>1, <1>2 DEF PopupInv, PopupTypeOK,
     JobsWereAsked, WasAsked, OnlyGroupsFetch, GoesOn, Scoped, Connected, CloseWindow, walletVars,
     popupVars,
     countVars
<1>7. ShownIsConnected'
  BY PagesAssumption, NoPopupIsPopup, ElsewhereCounts, <1>1, <1>2 DEF PopupInv, PopupTypeOK,
     ShownIsConnected, CloseWindow, walletVars, popupVars, countVars
<1>8. RevealIsForTheSite' /\ RevealsWhatWasShown'
  BY PagesAssumption, NoPopupIsPopup, ElsewhereCounts, <1>1, <1>2 DEF PopupInv, PopupTypeOK,
     Job, OnlyPagesWait, RevealIsForTheSite, RevealsWhatWasShown, CloseWindow, walletVars,
     popupVars, countVars
<1>9. LockReachesPages'
  BY PagesAssumption, NoPopupIsPopup, ElsewhereCounts, <1>1, <1>2 DEF PopupInv, PopupTypeOK,
     LockReachesPages, OnlyPagesWait, PageViews, CloseWindow, walletVars, popupVars,
     countVars, Routes
<1>10. WaitingIsAnswered'
  BY PagesAssumption, NoPopupIsPopup, ElsewhereCounts, <1>1, <1>2 DEF PopupInv, PopupTypeOK,
     OnlyPagesWait, WaitingIsAnswered, CloseWindow, walletVars, popupVars, countVars
<1>11. QED
  BY <1>3, <1>4, <1>5, <1>6, <1>7, <1>8, <1>9, <1>10 DEF PopupInv

LEMMA ReconnectKeeps ==
  ASSUME PopupInv, NEW s \in Sites, NEW i \in Identities \cup {None}, Reconnect(s, i)
  PROVE  PopupInv'
<1>1. PopupTypeOK'
  BY ElsewhereCounts DEF PopupInv, PopupTypeOK, Reconnect, walletVars, popupVars, countVars
<1>2. OnlyPagesWait'
  BY ElsewhereCounts DEF PopupInv, PopupTypeOK, OnlyPagesWait, Reconnect, walletVars,
     popupVars, countVars
<1>3. PopupWasAsked'
  BY ElsewhereCounts DEF PopupInv, PopupTypeOK, OnlyPagesWait, PopupWasAsked, Reconnect,
     walletVars, popupVars, countVars
<1>4. JobsWereAsked' /\ OnlyGroupsFetch'
  BY ElsewhereCounts DEF PopupInv, PopupTypeOK, JobsWereAsked, WasAsked, OnlyGroupsFetch, GoesOn,
     Connected, Reconnect, walletVars, popupVars, countVars
<1>5. ShownIsConnected'
  BY ElsewhereCounts DEF PopupInv, PopupTypeOK, ShownIsConnected, Reconnect, walletVars,
     popupVars, countVars
<1>6. RevealIsForTheSite' /\ RevealsWhatWasShown'
  BY ElsewhereCounts DEF PopupInv, PopupTypeOK, Job, OnlyPagesWait, RevealIsForTheSite,
     RevealsWhatWasShown, Reconnect, walletVars, popupVars, countVars
<1>7. LockReachesPages'
  BY ElsewhereCounts DEF PopupInv, PopupTypeOK, LockReachesPages, OnlyPagesWait, PageViews,
     Reconnect, walletVars, popupVars, countVars
<1>8. WaitingIsAnswered'
  BY ElsewhereCounts DEF PopupInv, PopupTypeOK, OnlyPagesWait, WaitingIsAnswered, Reconnect,
     walletVars, popupVars, countVars
<1>9. QED
  BY <1>1, <1>2, <1>3, <1>4, <1>5, <1>6, <1>7, <1>8 DEF PopupInv

LEMMA UnlockKeeps ==
  ASSUME PopupInv, Unlock
  PROVE  PopupInv'
<1>1. PopupTypeOK'
  BY ElsewhereCounts DEF PopupInv, PopupTypeOK, Unlock, walletVars, popupVars, countVars
<1>2. OnlyPagesWait'
  BY ElsewhereCounts DEF PopupInv, PopupTypeOK, OnlyPagesWait, Unlock, walletVars, popupVars,
     countVars
<1>3. PopupWasAsked'
  BY ElsewhereCounts DEF PopupInv, PopupTypeOK, OnlyPagesWait, PopupWasAsked, Unlock,
     walletVars, popupVars, countVars
<1>4. JobsWereAsked' /\ OnlyGroupsFetch'
  BY ElsewhereCounts DEF PopupInv, PopupTypeOK, JobsWereAsked, WasAsked, OnlyGroupsFetch, GoesOn,
     Connected, Unlock, walletVars, popupVars, countVars
<1>5. ShownIsConnected'
  BY ElsewhereCounts DEF PopupInv, PopupTypeOK, ShownIsConnected, Unlock, walletVars,
     popupVars, countVars
<1>6. RevealIsForTheSite' /\ RevealsWhatWasShown'
  BY ElsewhereCounts DEF PopupInv, PopupTypeOK, Job, OnlyPagesWait, RevealIsForTheSite,
     RevealsWhatWasShown, Unlock, walletVars, popupVars, countVars
<1>7. LockReachesPages'
  BY ElsewhereCounts DEF PopupInv, PopupTypeOK, LockReachesPages, OnlyPagesWait, PageViews,
     Unlock, walletVars, popupVars, countVars
<1>8. WaitingIsAnswered'
  BY ElsewhereCounts DEF PopupInv, PopupTypeOK, OnlyPagesWait, WaitingIsAnswered, Unlock,
     walletVars, popupVars, countVars
<1>9. QED
  BY <1>1, <1>2, <1>3, <1>4, <1>5, <1>6, <1>7, <1>8 DEF PopupInv

LEMMA LockKeeps ==
  ASSUME PopupInv, Lock
  PROVE  PopupInv'
<1>1. PopupTypeOK'
  BY ElsewhereCounts DEF PopupInv, PopupTypeOK, Lock, walletVars, popupVars, countVars
<1>2. OnlyPagesWait'
  BY ElsewhereCounts DEF PopupInv, PopupTypeOK, OnlyPagesWait, Lock, walletVars, popupVars,
     countVars
<1>3. PopupWasAsked'
  BY ElsewhereCounts DEF PopupInv, PopupTypeOK, OnlyPagesWait, PopupWasAsked, Lock,
     walletVars, popupVars, countVars
<1>4. JobsWereAsked' /\ OnlyGroupsFetch'
  BY ElsewhereCounts DEF PopupInv, PopupTypeOK, JobsWereAsked, WasAsked, OnlyGroupsFetch, GoesOn,
     Connected, Lock, walletVars, popupVars, countVars
<1>5. ShownIsConnected'
  BY ElsewhereCounts DEF PopupInv, PopupTypeOK, ShownIsConnected, Lock, walletVars, popupVars,
     countVars
<1>6. RevealIsForTheSite' /\ RevealsWhatWasShown'
  BY ElsewhereCounts DEF PopupInv, PopupTypeOK, Job, OnlyPagesWait, RevealIsForTheSite,
     RevealsWhatWasShown, Lock, walletVars, popupVars, countVars
<1>7. LockReachesPages'
  BY ElsewhereCounts DEF PopupInv, PopupTypeOK, LockReachesPages, OnlyPagesWait, PageViews,
     Lock, walletVars, popupVars, countVars
<1>8. WaitingIsAnswered'
  BY ElsewhereCounts DEF PopupInv, PopupTypeOK, OnlyPagesWait, WaitingIsAnswered, Lock,
     walletVars, popupVars, countVars
<1>9. QED
  BY <1>1, <1>2, <1>3, <1>4, <1>5, <1>6, <1>7, <1>8 DEF PopupInv

LEMMA RestartKeeps ==
  ASSUME PopupInv, Restart
  PROVE  PopupInv'
<1>1. 0 \in 0..MaxSubmits
  BY PagesAssumption
<1>2. \/ UNCHANGED popup /\ popup.pc # "busy"
      \/ /\ popup' \in Popup /\ popup'.kind = popup.kind /\ popup'.site = popup.site /\ popup'.shown = popup.shown
         /\ popup'.view = popup.view /\ popup'.job = 0 /\ popup'.pc = "idle" /\ popup.pc = "busy"
  BY <1>1 DEF PopupInv, PopupTypeOK, Popup, Restart, walletVars, popupVars, countVars
<1>3. popup' \in Popup /\ popup'.job <= submits /\ (popup'.view = "closed" => popup' = NoPopup)
  BY <1>1, <1>2 DEF OnlyPagesWait, PopupInv, PopupTypeOK, Popup, Restart, walletVars,
     popupVars, countVars
<1>4. restarts' \in 0..MaxRestarts
  BY PagesAssumption, <1>1, <1>2, <1>3 DEF PopupInv, PopupTypeOK, Popup, Restart, walletVars,
     popupVars, countVars
<1>5. PopupTypeOK'
  BY <1>1, <1>2, <1>3, <1>4 DEF PopupInv, PopupTypeOK, Restart, walletVars, popupVars,
     countVars
<1>6. OnlyPagesWait'
  BY <1>1, <1>2, <1>3, <1>4 DEF PopupInv, PopupTypeOK, OnlyPagesWait, Restart, walletVars,
     popupVars, countVars
<1>7. PopupWasAsked'
  BY <1>1, <1>2, <1>3, <1>4 DEF PopupInv, PopupTypeOK, OnlyPagesWait, PopupWasAsked, Restart,
     walletVars, popupVars, countVars
<1>8. JobsWereAsked' /\ OnlyGroupsFetch'
  BY <1>1, <1>2, <1>3, <1>4 DEF PopupInv, PopupTypeOK, JobsWereAsked, WasAsked, OnlyGroupsFetch,
     GoesOn,
     Connected, Restart, walletVars, popupVars, countVars
<1>9. ShownIsConnected'
  BY <1>1, <1>2, <1>3, <1>4 DEF PopupInv, PopupTypeOK, ShownIsConnected, Restart, walletVars,
     popupVars, countVars
<1>10. RevealIsForTheSite' /\ RevealsWhatWasShown'
  BY <1>1, <1>2, <1>3, <1>4 DEF PopupInv, PopupTypeOK, Job, OnlyPagesWait, RevealIsForTheSite,
     RevealsWhatWasShown, Restart, walletVars, popupVars, countVars
<1>11. LockReachesPages'
  BY <1>1, <1>2, <1>3, <1>4 DEF PopupInv, PopupTypeOK, LockReachesPages, OnlyPagesWait,
     PageViews, Restart, walletVars, popupVars, countVars
<1>12. WaitingIsAnswered'
  BY <1>1, <1>2, <1>3, <1>4 DEF PopupInv, PopupTypeOK, OnlyPagesWait, WaitingIsAnswered,
     Restart, walletVars, popupVars, countVars
<1>13. QED
  BY <1>5, <1>6, <1>7, <1>8, <1>9, <1>10, <1>11, <1>12 DEF PopupInv

-----------------------------------------------------------------------------
(* The calls of the pages. *)

LEMMA CallKeeps ==
  ASSUME PopupInv, NEW kind \in Routes \cup {"create"}, NEW site \in Sites \cup {None},
         NEW who \in Identities \cup {None}, NEW pc \in {"sent", "reject"},
         Call(kind, site, who, pc), popup.view \in PageViews, popup.pc = "idle",
         kind \in Scoped /\ site # None => WasAsked(kind, site),
         kind \notin Scoped => \E s \in Sites : kind \in asked[s],
         pc = "sent" /\ kind = "reveal" => site = popup.site /\ popup.shown # None
  PROVE  PopupInv'
<1>1. /\ submits' = submits + 1 /\ submits \in Nat
      /\ submits' \in 0..MaxSubmits /\ submits' \in 1..MaxSubmits
  BY PagesAssumption DEF Call, PopupInv, PopupTypeOK
<1>2. PICK job \in Job :
      /\ jobs' = jobs \cup {job}
      /\ job.id = submits' /\ job.kind = kind /\ job.site = site /\ job.who = who /\ job.pc = pc
  <2> DEFINE job == [id |-> submits', kind |-> kind, site |-> site, who |-> who, pc |-> pc]
  <2>1. job \in Job
    BY <1>1 DEF Job
  <2>2. QED
    BY <2>1 DEF Call
<1>3. /\ popup' \in Popup /\ popup'.kind = popup.kind /\ popup'.site = popup.site
      /\ popup'.shown = popup.shown /\ popup'.view = popup.view
      /\ popup'.pc = "busy" /\ popup'.job = submits' /\ popup.job = 0
  BY <1>1 DEF Call, PopupInv, PopupTypeOK, OnlyPagesWait, Popup
<1>4. UNCHANGED <<walletVars, cached, notify, asked, changed, elsewhere, restarts>>
  BY DEF Call
<1>5. popup.view \notin {"closed", "loading", "login"}
  BY DEF PageViews, Routes
<1>6. popup'.job <= submits' /\ (popup'.view = "closed" => popup' = NoPopup)
  BY <1>1, <1>3, <1>5 DEF PopupInv, PopupTypeOK
<1>7. PopupTypeOK'
  BY <1>1, <1>2, <1>3, <1>4, <1>5, <1>6 DEF PopupInv, PopupTypeOK, Job, walletVars
<1>8. OnlyPagesWait'
  BY <1>1, <1>2, <1>3, <1>4, <1>5, <1>6 DEF PopupInv, PopupTypeOK, OnlyPagesWait, walletVars
<1>9. PopupWasAsked'
  BY <1>1, <1>2, <1>3, <1>4, <1>5, <1>6 DEF PopupInv, PopupTypeOK, OnlyPagesWait,
     PopupWasAsked, walletVars
<1>10. JobsWereAsked' /\ OnlyGroupsFetch'
  BY <1>1, <1>2, <1>3, <1>4, <1>5, <1>6 DEF PopupInv, PopupTypeOK, JobsWereAsked, WasAsked,
     OnlyGroupsFetch, walletVars, GoesOn, Scoped, Connected
<1>11. ShownIsConnected'
  BY <1>1, <1>2, <1>3, <1>4, <1>5, <1>6 DEF PopupInv, PopupTypeOK, ShownIsConnected,
     walletVars
<1>12. RevealIsForTheSite'
  BY <1>1, <1>2, <1>3, <1>4, <1>5, <1>6 DEF PopupInv, PopupTypeOK, Job, OnlyPagesWait,
     RevealIsForTheSite, walletVars
<1>13. RevealsWhatWasShown'
  BY <1>1, <1>2, <1>3, <1>4, <1>5, <1>6 DEF PopupInv, PopupTypeOK, Job, OnlyPagesWait,
     RevealsWhatWasShown, walletVars
<1>14. LockReachesPages'
  BY <1>1, <1>2, <1>3, <1>4, <1>5, <1>6 DEF PopupInv, PopupTypeOK, LockReachesPages,
     OnlyPagesWait, walletVars
<1>15. WaitingIsAnswered'
  BY <1>1, <1>2, <1>3, <1>4, <1>5, <1>6 DEF PopupInv, PopupTypeOK, OnlyPagesWait,
     WaitingIsAnswered, walletVars
<1>16. QED
  BY <1>7, <1>8, <1>9, <1>10, <1>11, <1>12, <1>13, <1>14, <1>15 DEF PopupInv

\* From page to page, on a request to connect.

LEMMA GoKeeps ==
  ASSUME PopupInv, NEW view \in {"connect", "create", "import"}, NEW pc \in {"idle", "mount", "close"},
         Go(view, pc), popup.view \in {"connect", "create"}, popup.pc = "idle"
  PROVE  PopupInv'
<1>1. /\ popup' \in Popup /\ popup'.kind = popup.kind /\ popup'.site = popup.site
      /\ popup'.shown = popup.shown /\ popup'.job = popup.job
      /\ popup'.view = view /\ popup'.pc = pc
  BY DEF Go, PopupInv, PopupTypeOK, Popup, PageViews, Routes
<1>2. UNCHANGED <<walletVars, cached, notify, jobs, asked, changed, countVars>>
  BY DEF Go
<1>3. PopupTypeOK'
  BY <1>1, <1>2 DEF PopupInv, PopupTypeOK, Job, walletVars, countVars
<1>4. OnlyPagesWait'
  BY <1>1, <1>2 DEF PopupInv, PopupTypeOK, OnlyPagesWait, walletVars, countVars
<1>5. PopupWasAsked'
  BY <1>1, <1>2 DEF PopupInv, PopupTypeOK, OnlyPagesWait, PopupWasAsked, walletVars, countVars
<1>6. JobsWereAsked' /\ OnlyGroupsFetch'
  BY <1>1, <1>2 DEF PopupInv, PopupTypeOK, JobsWereAsked, WasAsked, OnlyGroupsFetch, walletVars,
     countVars
<1>7. ShownIsConnected'
  BY <1>1, <1>2 DEF PopupInv, PopupTypeOK, ShownIsConnected, walletVars, countVars
<1>8. RevealIsForTheSite'
  BY <1>1, <1>2 DEF PopupInv, PopupTypeOK, Job, OnlyPagesWait, RevealIsForTheSite, walletVars,
     countVars
<1>9. RevealsWhatWasShown'
  BY <1>1, <1>2 DEF PopupInv, PopupTypeOK, Job, OnlyPagesWait, RevealsWhatWasShown,
     walletVars, countVars
<1>10. LockReachesPages'
  BY <1>1, <1>2 DEF PopupInv, PopupTypeOK, LockReachesPages, OnlyPagesWait, walletVars,
     countVars, PageViews, Routes
<1>11. WaitingIsAnswered'
  BY <1>1, <1>2 DEF PopupInv, PopupTypeOK, OnlyPagesWait, WaitingIsAnswered, walletVars,
     countVars
<1>12. QED
  BY <1>3, <1>4, <1>5, <1>6, <1>7, <1>8, <1>9, <1>10, <1>11 DEF PopupInv

\* What the pages offer.
LEMMA PageStepKeeps ==
  ASSUME PopupInv, PageStep
  PROVE  PopupInv'
<1>1. /\ popup.site \in Sites \cup {None} /\ ShownSite \in Sites \cup {None}
      /\ None \in Identities \cup {None} /\ None \in Sites \cup {None}
  BY DEF PopupInv, PopupTypeOK, Popup, ShownSite
<1>2. \A view \in PageViews : Shows(view) => popup.view \in PageViews /\ popup.pc = "idle"
  BY DEF Shows
<1>3. \A view \in PageViews \ {"home"} : Shows(view) =>
        /\ popup.site \in Sites /\ popup.kind \in asked[popup.site]
        /\ view \in {"connect", "create"} => popup.kind = "connect"
        /\ view = "import" => popup.kind \in {"connect", "import"}
        /\ view \in {"reveal", "join", "merkle", "credential", "present"} => popup.kind = view
  BY DEF PopupInv, PopupWasAsked, Shows, PageViews, Routes
<1>4. ShownSite # None => ShownSite = popup.site
  BY DEF ShownSite
<1>5. CASE RevealIdentityCommitment
  BY <1>1, <1>2, <1>3, <1>4, <1>5, CallKeeps
  DEF RevealIdentityCommitment, CanReveal, PageViews, Routes, Scoped, Connected, WasAsked
<1>6. CASE JoinGroup
  BY <1>1, <1>2, <1>3, <1>4, <1>6, CallKeeps
  DEF JoinGroup, CanJoin, PageViews, Routes, Scoped, Connected, WasAsked
<1>7. CASE GroupMerkleProof
  BY <1>1, <1>2, <1>3, <1>4, <1>7, CallKeeps
  DEF GroupMerkleProof, CanProveMembership, PageViews, Routes, Scoped, Connected, WasAsked
<1>8. CASE ImportIdentity
  BY <1>1, <1>2, <1>3, <1>4, <1>8, CallKeeps
  DEF ImportIdentity, CanImport, PageViews, Routes, Scoped, Connected, WasAsked
<1>9. CASE ConnectIdentity
  BY <1>1, <1>2, <1>3, <1>4, <1>9, CallKeeps, GoKeeps
  DEF ConnectIdentity, CanConnect, PageViews, Routes, Scoped, Connected, WasAsked, Shows
<1>10. CASE CreateIdentity
  BY <1>1, <1>2, <1>3, <1>4, <1>10, CallKeeps, GoKeeps
  DEF CreateIdentity, CanCreate, PageViews, Routes, Scoped, Connected, WasAsked, Shows
<1>11. CASE AddVerifiableCredential
  BY <1>1, <1>2, <1>3, <1>4, <1>11, CallKeeps
  DEF AddVerifiableCredential, CanAddCredential, PageViews, Routes, Scoped, Connected, WasAsked
<1>12. CASE PresentVerifiableCredential
  BY <1>1, <1>2, <1>3, <1>4, <1>12, CallKeeps
  DEF PresentVerifiableCredential, CanPresent, PageViews, Routes, Scoped, Connected, WasAsked
<1>13. QED
  BY <1>5, <1>6, <1>7, <1>8, <1>9, <1>10, <1>11, <1>12 DEF PageStep

-----------------------------------------------------------------------------
(* The handlers that the pages call. *)

\* A handler goes on with its call, and not to a step the call was not for.
Moved(j, k) ==
  /\ jobs' = (jobs \ {j}) \cup {k}
  /\ k.id = j.id /\ k.kind = j.kind /\ k.site = j.site /\ k.pc # "sent"
  /\ k.pc \in GoesOn => j.pc \in GoesOn
  /\ k.pc = "fetch" => k.kind \in {"join", "merkle"}
  /\ k.kind = "reveal" /\ k.pc = "push" =>
       j.pc = "sent" /\ Known(j.site) # None /\ k.who = Known(j.site)

LEMMA ToMoves ==
  ASSUME PopupInv, NEW j \in jobs, NEW pc \in {"fetch", "push", "turn", "turned", "ok", "err"},
         To(j, pc), pc \in GoesOn => j.pc \in GoesOn,
         pc = "fetch" => j.kind \in {"join", "merkle"}, pc = "push" => j.kind # "reveal"
  PROVE  \E k \in Job : Moved(j, k)
<1>1. j \in Job
  BY DEF PopupInv, PopupTypeOK
<1>2. [j EXCEPT !.pc = pc] \in Job
  BY <1>1 DEF Job
<1>3. QED
  BY <1>1, <1>2 DEF To, Set, Moved, Job

LEMMA HandleMoves ==
  ASSUME PopupInv, NEW j \in jobs, Handle(j)
  PROVE  (\E k \in Job : Moved(j, k)) /\ connection' \in [Sites -> Identities \cup {None}]
<1>1. j \in Job
  BY DEF PopupInv, PopupTypeOK
<1>2. CASE RevealConnectedIdentityCommitment(j)
  <2>1. Known(j.site) \in Identities \cup {None}
    BY <1>1 DEF Known, Job, PopupInv, PopupTypeOK
  <2>2. [j EXCEPT !.pc = "push", !.who = Known(j.site)] \in Job
    BY <1>1, <2>1 DEF Job
  <2>3. CASE unlocked /\ Known(j.site) # None
    BY <1>1, <1>2, <2>2, <2>3
    DEF RevealConnectedIdentityCommitment, Sent, Set, Moved, Job, GoesOn,
       PopupInv, PopupTypeOK
  <2>4. CASE ~(unlocked /\ Known(j.site) # None)
    BY <1>2, <2>4, ToMoves DEF RevealConnectedIdentityCommitment, GoesOn, PopupInv, PopupTypeOK
  <2>5. QED
    BY <2>3, <2>4
<1>3. CASE GroupService(j)
  BY <1>3, ToMoves DEF GroupService, Sent, GoesOn, PopupInv, PopupTypeOK
<1>4. CASE BandadaService(j)
  BY <1>4, ToMoves DEF BandadaService, GoesOn, PopupInv, PopupTypeOK, OnlyGroupsFetch
<1>5. CASE InsertIdentity(j)
  BY <1>5, ToMoves DEF InsertIdentity, Sent, GoesOn, PopupInv, PopupTypeOK
<1>6. CASE Connect(j)
  BY <1>1, <1>6, ToMoves DEF Connect, Sent, GoesOn, PopupInv, PopupTypeOK, Job
<1>7. CASE VerifiableCredentials(j)
  BY <1>7, ToMoves DEF VerifiableCredentials, Sent, GoesOn, PopupInv, PopupTypeOK
<1>8. CASE RejectUserRequest(j)
  BY <1>8, ToMoves DEF RejectUserRequest, GoesOn, PopupInv, PopupTypeOK
<1>9. QED
  BY <1>2, <1>3, <1>4, <1>5, <1>6, <1>7, <1>8 DEF Handle

LEMMA MovedKeeps ==
  ASSUME PopupInv, NEW j \in jobs, NEW k \in Job, Moved(j, k),
         connection' \in [Sites -> Identities \cup {None}], changed' \in BOOLEAN,
         ~changed' => ~changed /\ UNCHANGED connection,
         UNCHANGED <<unlocked, loaded, popupVars, asked, countVars>>
  PROVE  PopupInv'
<1>1. j \in Job /\ j.id \in Nat /\ j.id # 0
  BY DEF PopupInv, PopupTypeOK, Job
<1>2. /\ jobs' = (jobs \ {j}) \cup {k}
      /\ k.id = j.id /\ k.kind = j.kind /\ k.site = j.site /\ k.pc # "sent"
      /\ k.pc \in GoesOn => j.pc \in GoesOn
      /\ k.pc = "fetch" => k.kind \in {"join", "merkle"}
  BY DEF Moved
<1>3. \A i \in jobs' : i \in Job /\ (i = k \/ (i \in jobs /\ i.id # k.id))
  BY <1>2 DEF PopupInv, PopupTypeOK
<1>4. k.kind = "reveal" /\ k.pc = "push" /\ popup.job = k.id /\ ~changed => k.who = popup.shown
  BY <1>1 DEF Moved, Known, PopupInv, RevealIsForTheSite, ShownIsConnected
<1>5. PopupTypeOK'
  BY <1>1, <1>2, <1>3, <1>4 DEF PopupInv, PopupTypeOK, Job, popupVars, countVars
<1>6. OnlyPagesWait'
  BY <1>1, <1>2, <1>3, <1>4 DEF PopupInv, PopupTypeOK, OnlyPagesWait, popupVars, countVars
<1>7. PopupWasAsked'
  BY <1>1, <1>2, <1>3, <1>4 DEF PopupInv, PopupTypeOK, OnlyPagesWait, PopupWasAsked,
     popupVars, countVars
<1>8. JobsWereAsked' /\ OnlyGroupsFetch'
  BY <1>1, <1>2, <1>3, <1>4 DEF PopupInv, PopupTypeOK, JobsWereAsked, WasAsked, OnlyGroupsFetch,
     popupVars, countVars
<1>9. ShownIsConnected'
  BY <1>1, <1>2, <1>3, <1>4 DEF PopupInv, PopupTypeOK, ShownIsConnected, popupVars, countVars
<1>10. RevealIsForTheSite'
  BY <1>1, <1>2, <1>3, <1>4 DEF PopupInv, PopupTypeOK, Job, OnlyPagesWait, RevealIsForTheSite,
     popupVars, countVars
<1>11. RevealsWhatWasShown'
  BY <1>1, <1>2, <1>3, <1>4 DEF PopupInv, PopupTypeOK, Job, OnlyPagesWait,
     RevealsWhatWasShown, popupVars, countVars
<1>12. LockReachesPages'
  BY <1>1, <1>2, <1>3, <1>4 DEF PopupInv, PopupTypeOK, LockReachesPages, OnlyPagesWait,
     popupVars, countVars
<1>13. WaitingIsAnswered'
  BY <1>1, <1>2, <1>3, <1>4 DEF PopupInv, PopupTypeOK, OnlyPagesWait, WaitingIsAnswered,
     popupVars, countVars
<1>14. QED
  BY <1>5, <1>6, <1>7, <1>8, <1>9, <1>10, <1>11, <1>12, <1>13 DEF PopupInv

LEMMA HandleKeeps ==
  ASSUME PopupInv, NEW j \in jobs, Handle(j)
  PROVE  PopupInv'
<1>1. PICK k \in Job : Moved(j, k)
  BY HandleMoves
<1>2. connection' \in [Sites -> Identities \cup {None}]
  BY HandleMoves
<1>3. /\ changed' \in BOOLEAN /\ (~changed' => ~changed /\ UNCHANGED connection)
      /\ UNCHANGED <<unlocked, loaded, popupVars, asked, countVars>>
  BY DEF Handle, PopupInv, PopupTypeOK
<1>4. QED
  BY <1>1, <1>2, <1>3, MovedKeeps

LEMMA PushEventKeeps ==
  ASSUME PopupInv, NEW j \in jobs, PushEvent(j)
  PROVE  PopupInv'
<1>1. PICK k \in Job : Moved(j, k)
  BY ToMoves DEF PushEvent, GoesOn
<1>2. QED
  BY <1>1, MovedKeeps DEF PushEvent, walletVars, PopupInv, PopupTypeOK

LEMMA AnswerKeeps ==
  ASSUME PopupInv, NEW j \in jobs, Answer(j)
  PROVE  PopupInv'
<1>1. j \in Job /\ j.id \in Nat /\ j.id # 0 /\ jobs' = jobs \ {j}
  BY DEF Answer, PopupInv, PopupTypeOK, Job
<1>2. UNCHANGED <<walletVars, cached, notify, asked, changed, countVars>>
  BY DEF Answer
<1>3. 0 \in 0..MaxSubmits
  BY PagesAssumption
<1>4. popup.job = j.id =>
        /\ popup' \in Popup /\ popup'.kind = popup.kind /\ popup'.site = popup.site
        /\ popup'.shown = popup.shown /\ popup'.job = 0
        /\ popup'.pc \in {"idle", "mount", "close"}
        /\ \/ popup'.view = popup.view
           \/ popup'.view \in {"connect", "create"} /\ popup.kind = "connect"
  BY <1>1, <1>3 DEF Answer, Onward, PopupInv, PopupTypeOK, Popup, PageViews, Routes
<1>5. /\ popup.job # j.id => popup' = popup
      /\ popup.job = j.id => popup.view \in PageViews
  BY <1>1 DEF Answer, PopupInv, PopupTypeOK, OnlyPagesWait, Popup
<1>6. popup' \in Popup /\ popup'.job <= submits /\ (popup'.view = "closed" => popup' = NoPopup)
  BY <1>1, <1>4, <1>5 DEF PopupInv, PopupTypeOK, PageViews, Routes
<1>7. PopupTypeOK'
  BY <1>1, <1>2, <1>3, <1>4, <1>5, <1>6 DEF PopupInv, PopupTypeOK, Job, walletVars, countVars
<1>8. OnlyPagesWait'
  BY <1>1, <1>2, <1>3, <1>4, <1>5, <1>6 DEF PopupInv, PopupTypeOK, OnlyPagesWait, walletVars,
     countVars, PageViews, Routes
<1>9. PopupWasAsked'
  BY <1>1, <1>2, <1>3, <1>4, <1>5, <1>6 DEF PopupInv, PopupTypeOK, OnlyPagesWait,
     PopupWasAsked, walletVars, countVars, PageViews, Routes
<1>10. JobsWereAsked' /\ OnlyGroupsFetch'
  BY <1>1, <1>2, <1>3, <1>4, <1>5, <1>6 DEF PopupInv, PopupTypeOK, JobsWereAsked, WasAsked,
     OnlyGroupsFetch, walletVars, countVars
<1>11. ShownIsConnected'
  BY <1>1, <1>2, <1>3, <1>4, <1>5, <1>6 DEF PopupInv, PopupTypeOK, ShownIsConnected,
     walletVars, countVars
<1>12. RevealIsForTheSite'
  BY <1>1, <1>2, <1>3, <1>4, <1>5, <1>6 DEF PopupInv, PopupTypeOK, Job, OnlyPagesWait,
     RevealIsForTheSite, walletVars, countVars
<1>13. RevealsWhatWasShown'
  BY <1>1, <1>2, <1>3, <1>4, <1>5, <1>6 DEF PopupInv, PopupTypeOK, Job, OnlyPagesWait,
     RevealsWhatWasShown, walletVars, countVars
<1>14. LockReachesPages'
  BY <1>1, <1>2, <1>3, <1>4, <1>5, <1>6 DEF PopupInv, PopupTypeOK, LockReachesPages,
     OnlyPagesWait, walletVars, countVars
<1>15. WaitingIsAnswered'
  BY <1>1, <1>2, <1>3, <1>4, <1>5, <1>6 DEF PopupInv, PopupTypeOK, OnlyPagesWait,
     WaitingIsAnswered, walletVars, countVars
<1>16. QED
  BY <1>7, <1>8, <1>9, <1>10, <1>11, <1>12, <1>13, <1>14, <1>15 DEF PopupInv

-----------------------------------------------------------------------------
(* The invariant and what follows from it. *)

LEMMA InitHasInv == Init => PagesInv
<1> SUFFICES ASSUME Init
             PROVE  PagesInv
  OBVIOUS
<1>1. wire = {} /\ IsFiniteSet(wire) /\ Cardinality(wire) = 0
  BY FS_EmptySet DEF Init, ProviderInit
<1>2. 0 \in 0..MaxRequests /\ 1 \in 1..(MaxRemounts + 1)
  BY ProviderAssumption
<1>3. ProviderTypeOK
  <2>1. [made |-> 1, nonce |-> 0] \in [made: 1..(MaxRemounts + 1), nonce: 0..MaxRequests]
    BY <1>2
  <2>2. Cardinality(wire) <= requests
    BY <1>1 DEF Init, ProviderInit
  <2>3. QED
    BY <1>2, <2>1, <2>2 DEF Init, ProviderInit, ProviderTypeOK
<1>4. ProviderInv
  BY <1>1, <1>3 DEF Init, ProviderInit, ProviderInv, NoncesCountUp, RepliesMatch
<1>5. 0 \in 0..MaxSubmits /\ 0 \in 0..MaxElsewhere /\ 0 \in 0..MaxRestarts
  BY PagesAssumption
<1>6. PopupTypeOK
  <2>1. popup \in Popup /\ popup.job <= submits
    BY NoPopupIsPopup DEF Init
  <2>2. jobs \subseteq Job /\ (\A j \in jobs : j.id <= submits) /\ \A i, j \in jobs : i.id = j.id => i = j
    BY DEF Init
  <2>3. QED
    BY <1>5, <2>1, <2>2 DEF Init, PopupTypeOK
<1>7. PopupInv
  BY <1>6, NoPopupIsPopup DEF Init, PopupInv, OnlyPagesWait, PopupWasAsked, JobsWereAsked, WasAsked,
     OnlyGroupsFetch, ShownIsConnected, RevealIsForTheSite, RevealsWhatWasShown, LockReachesPages,
     WaitingIsAnswered, PageViews, Routes
<1>8. QED
  BY <1>4, <1>7 DEF PagesInv

LEMMA ProviderRests ==
  ASSUME ProviderInv, UNCHANGED providerVars
  PROVE  ProviderInv'
  BY DEF providerVars, ProviderInv, ProviderTypeOK, NoncesCountUp, RepliesMatch

LEMMA NextKeepsProvider ==
  ASSUME ProviderInv, [Next]_vars
  PROVE  ProviderInv'
<1>1. CASE SiteStep
  BY <1>1, RequestKeepsProvider, RemountKeepsProvider, ReplyKeepsProvider DEF SiteStep
<1>2. ASSUME NEW m \in wire, Receive(m) \/ Respond(m)
      PROVE  ProviderInv'
  BY <1>2, AdvanceKeepsProvider DEF Receive, Respond
<1>3. CASE Restart
  <2>1. /\ IsFiniteSet(wire') /\ Cardinality(wire') <= Cardinality(wire)
        /\ wire' \subseteq wire
    BY <1>3, FS_Subset DEF Restart, ProviderInv
  <2>2. QED
    BY <1>3, <2>1, WireKeepsProvider DEF Restart, ProviderInv, ProviderTypeOK
<1>4. CASE UNCHANGED vars
  BY <1>4, ProviderRests DEF vars
<1>5. CASE Loaded \/ Mounted \/ StatusArrives \/ Login \/ ClosePopup \/ CloseWindow \/ Unlock \/ Lock
  BY <1>5, ProviderRests
  DEF Loaded, Mounted, StatusArrives, Login, ClosePopup, CloseWindow, Unlock,
     Lock
<1>6. CASE PageStep
  BY <1>6, ProviderRests DEF PageStep, RevealIdentityCommitment, JoinGroup, GroupMerkleProof,
     ImportIdentity, ConnectIdentity, CreateIdentity, AddVerifiableCredential,
     PresentVerifiableCredential, Call, Go
<1>7. ASSUME NEW j \in jobs, Handle(j) \/ PushEvent(j) \/ Answer(j)
      PROVE  ProviderInv'
  BY <1>7, ProviderRests DEF Handle, PushEvent, Answer
<1>8. ASSUME NEW s \in Sites, NEW i \in Identities \cup {None}, Reconnect(s, i)
      PROVE  ProviderInv'
  BY <1>8, ProviderRests DEF Reconnect
<1>9. QED
  BY <1>1, <1>2, <1>3, <1>4, <1>5, <1>6, <1>7, <1>8 DEF Next

LEMMA NextKeepsInv == PagesInv /\ [Next]_vars => PagesInv'
<1> SUFFICES ASSUME PagesInv, [Next]_vars
             PROVE  PagesInv'
  OBVIOUS
<1>1. PopupInv /\ ProviderInv
  BY DEF PagesInv
<1>2. ASSUME NEW m \in wire, Receive(m) \/ Respond(m)
      PROVE  PopupInv'
  <2>1. m \in Message
    BY <1>1 DEF ProviderInv, ProviderTypeOK
  <2>2. QED
    BY <1>1, <1>2, <2>1, ReceiveKeeps, PopupRests DEF Respond
<1>3. ASSUME SiteStep \/ UNCHANGED vars
      PROVE  PopupInv'
  BY <1>1, <1>3, PopupRests DEF SiteStep, vars
<1>4. ASSUME Loaded \/ Mounted \/ StatusArrives \/ Login \/ PageStep \/ ClosePopup \/ CloseWindow
      PROVE  PopupInv'
  BY <1>1, <1>4, LoadedKeeps, MountedKeeps, StatusArrivesKeeps, LoginKeeps, PageStepKeeps,
     ClosePopupKeeps, CloseWindowKeeps
<1>5. ASSUME NEW j \in jobs, Handle(j) \/ PushEvent(j) \/ Answer(j)
      PROVE  PopupInv'
  BY <1>1, <1>5, HandleKeeps, PushEventKeeps, AnswerKeeps
<1>6. ASSUME \/ \E s \in Sites, i \in Identities \cup {None} : Reconnect(s, i)
             \/ Unlock \/ Lock \/ Restart
      PROVE  PopupInv'
  BY <1>1, <1>6, ReconnectKeeps, UnlockKeeps, LockKeeps, RestartKeeps
<1>7. PopupInv'
  BY <1>2, <1>3, <1>4, <1>5, <1>6 DEF Next
<1>8. QED
  BY <1>1, <1>7, NextKeepsProvider DEF PagesInv

\* What requests, pages, calls and replies know of one another, whatever is locked, closed,
\* connected anew or restarted.
THEOREM PagesInvHolds == Spec => []PagesInv
<1>1. QED
  BY InitHasInv, NextKeepsInv, PTL DEF Spec

\* Messages, promises, the popup and its calls are well formed.
THEOREM PagesTypesHold == Spec => []PagesTypeOK
<1>1. PagesInv => PagesTypeOK
  BY DEF PagesInv, PopupInv, ProviderInv, PagesTypeOK
<1>2. QED
  BY <1>1, PagesInvHolds, PTL

\* The injected provider settles a promise with the reply of its own request, in whatever
\* order replies come, unless the page made a second provider.
THEOREM RepliesFindTheirPromise == Spec => []RepliesMatch
<1>1. PagesInv => RepliesMatch
  BY DEF PagesInv, ProviderInv
<1>2. QED
  BY <1>1, PagesInvHolds, PTL

\* An event, of a success or a rejection, that the popup's calls address to an origin answers a
\* request of that origin; what goes to the tab the user looks at, a credential or presentation,
\* answers one of some site.  The origin of a request is taken to be its sender's.
THEOREM EventsAnswerRequests == Spec => []AnswersWereAsked
<1>1. PagesInv => AnswersWereAsked
  BY PagesAssumption DEF PagesInv, PopupInv, PopupTypeOK, Job, AnswersWereAsked, JobsWereAsked,
     WasAsked, Addressees, GoesOn
<1>2. QED
  BY <1>1, PagesInvHolds, PTL

\* What the popup reveals is the identity it showed, unless the connection has changed.
THEOREM ShownIsRevealed == Spec => []RevealsWhatWasShown
<1>1. PagesInv => RevealsWhatWasShown
  BY DEF PagesInv, PopupInv
<1>2. QED
  BY <1>1, PagesInvHolds, PTL

\* No page of the popup outlives a lock, but while the status is on its way, or after a
\* restart.
THEOREM LockReachesThePopup == Spec => []LockReachesPages
<1>1. PagesInv => LockReachesPages
  BY DEF PagesInv, PopupInv
<1>2. QED
  BY <1>1, PagesInvHolds, PTL

\* A page that waits has a call that the background page is going to answer.
THEOREM PagesAreAnswered == Spec => []WaitingIsAnswered
<1>1. PagesInv => WaitingIsAnswered
  BY DEF PagesInv, PopupInv
<1>2. QED
  BY <1>1, PagesInvHolds, PTL

=============================================================================
