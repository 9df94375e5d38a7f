---------------------------- MODULE Credentials ----------------------------
(***************************************************************************)
(* VerifiableCredentialsService with the pages that use it, and the        *)
(* history it writes.  Every change reads the whole store, awaits, and     *)
(* writes the whole store, for several windows at once.                    *)
(*                                                                         *)
(* A credential stands for its hash; the stored map gives its name, and    *)
(* the empty map is null.  A credential that a site hands in is valid.     *)
(***************************************************************************)
EXTENDS History

CONSTANTS Credentials, Names, None, MaxRestarts

ASSUME CredentialsAssumption == None \notin Names /\ MaxRestarts \in Nat

VARIABLES
  creds,     \* the stored map
  calls,     \* calls[w]: the call of window w under way
  pages,     \* pages[w]: the page that presents credentials
  event,     \* history: what the active tabs got, and what its user submitted; until the next call
  count,     \* calls and loads so far
  restarts

credentialVars == <<creds, calls, pages, event>>
vars == <<historyVars, credentialVars, count, restarts>>

-----------------------------------------------------------------------------

Maps == [Credentials -> Names \cup {None}]
NoCredentials == [c \in Credentials |-> None]
Held(m) == {c \in Credentials : m[c] # None}

Changes == {"add", "rename", "delete", "deleteAll"}
Ops == Changes \cup {"present", "reject", "other", "none"}

NoCall == [pc |-> "idle", op |-> "none", cred |-> None, name |-> None,
           got |-> NoCredentials, what |-> {}, signed |-> {}, settings |-> "none", id |-> 0]
NoEvent == [what |-> {}, signed |-> {}]
NoPage == [pc |-> "closed", shown |-> {}, chosen |-> {}]

Call == [pc: {"idle", "read", "write", "metamask", "account", "settings", "save", "track"},
         op: Ops, cred: Credentials \cup {None}, name: Names \cup {None}, got: Maps,
         what: SUBSET Credentials, signed: SUBSET Credentials, settings: Settings,
         id: 0..MaxCalls]

Page == {page \in [pc: {"closed", "fetch", "open"}, shown: SUBSET Credentials,
                   chosen: SUBSET Credentials] : page.chosen \subseteq page.shown}

CredentialsTypeOK ==
  /\ HistoryTypeOK
  /\ creds \in Maps
  /\ calls \in [Windows -> Call] /\ pages \in [Windows -> Page]
  /\ event \in [what: SUBSET Credentials, signed: SUBSET Credentials]
  /\ count \in 0..MaxCalls /\ restarts \in 0..MaxRestarts

Init ==
  /\ HistoryInit
  /\ creds = NoCredentials
  /\ calls = [w \in Windows |-> NoCall] /\ pages = [w \in Windows |-> NoPage]
  /\ event = NoEvent
  /\ count = 0 /\ restarts = 0

-----------------------------------------------------------------------------

Idle(w) == calls[w].pc = "idle" /\ count < MaxCalls

\* A call of window w, with the fields given and the number of the operation it will log.
Begin(w, call) ==
  /\ calls' = [calls EXCEPT ![w] = [call EXCEPT !.id = count + 1]]
  /\ count' = count + 1 /\ event' = NoEvent

\* addVerifiableCredential, renameVerifiableCredential, deleteVerifiableCredential and
\* deleteAllVerifiableCredentials: get the store.  A locked wallet hands in false.
Request(w, op, c, n) ==
  /\ Idle(w) /\ unlocked
  /\ Begin(w, [NoCall EXCEPT !.pc = "read", !.op = op, !.cred = c, !.name = n, !.got = creds])
  /\ UNCHANGED <<historyVars, creds, pages, restarts>>

\* AddVerifiableCredential: the user names the credential of a site and approves it.
AddVerifiableCredential(w, c, n) == Request(w, "add", c, n)

RenameVerifiableCredential(w, c, n) == Request(w, "rename", c, n)
DeleteVerifiableCredential(w, c) == Request(w, "delete", c, None)
DeleteAllVerifiableCredentials(w) == Request(w, "deleteAll", None, None)

\* An item of a list, which may be behind the store, and the list.
VerifiableCredentialItem(w, c) ==
  DeleteVerifiableCredential(w, c) \/ \E n \in Names : RenameVerifiableCredential(w, c, n)

VerifiableCredentialList(w) == \E c \in Credentials : VerifiableCredentialItem(w, c)

\* A change has to fit the map that was read.
Fits(call) ==
  CASE call.op = "add" -> call.got[call.cred] = None
    [] call.op \in {"rename", "delete"} -> call.got[call.cred] # None
    [] OTHER -> Held(call.got) # {}

\* The map to write.
Changed(call) ==
  IF call.op = "deleteAll" THEN NoCredentials
  ELSE [call.got EXCEPT ![call.cred] = call.name]

\* Mutant: the name is set whether the credential is there or not.
ReadAnyway(w) ==
  LET call == calls[w]
  IN  /\ call.pc = "read"
      /\ IF unlocked
         THEN /\ creds' = Changed(call)
              /\ calls' = [calls EXCEPT ![w].pc = "write"]
         ELSE UNCHANGED creds /\ calls' = [calls EXCEPT ![w] = NoCall]
      /\ UNCHANGED <<historyVars, pages, event, count, restarts>>

\* The reply of the get: decrypted, checked, changed, encrypted and set, or an error.  A
\* wallet that was locked meanwhile can neither decrypt nor encrypt.
Read(w) ==
  LET call == calls[w]
  IN  /\ call.pc = "read"
      /\ IF unlocked /\ Fits(call)
         THEN /\ creds' = Changed(call)
              /\ calls' = [calls EXCEPT ![w].pc = "write"]
         ELSE UNCHANGED creds /\ calls' = [calls EXCEPT ![w] = NoCall]
      /\ UNCHANGED <<historyVars, pages, event, count, restarts>>

\* A call goes on to trackOperation.  It waits for the store if there is something to
\* store; if it cannot be encrypted the call fails, though the change is stored.
Tracks(w) ==
  /\ Track(calls[w].id)
  /\ IF settings = "on" /\ ~unlocked
     THEN calls' = [calls EXCEPT ![w] = NoCall]
     ELSE calls' = [calls EXCEPT ![w].pc = "track"]

Written(w) ==
  /\ calls[w].pc = "write"
  /\ Tracks(w)
  /\ UNCHANGED <<unlocked, settingVars, loads, loaded, creds, pages, event, count, restarts>>

\* An operation of another service: identities, groups, proofs, connections.
Other(w) ==
  /\ Idle(w) /\ unlocked
  /\ Begin(w, [NoCall EXCEPT !.pc = "write", !.op = "other"])
  /\ UNCHANGED <<historyVars, creds, pages, restarts>>

\* resetPassword, which unlocks, or a backup upload: the settings are loaded, the
\* operations are not.
ResetPassword(w) ==
  /\ Idle(w)
  /\ unlocked' = TRUE
  /\ Begin(w, [NoCall EXCEPT !.pc = "settings", !.op = "other", !.settings = settingsStore])
  /\ UNCHANGED <<logVars, settingVars, loads, loaded, flawed, creds, pages, restarts>>

\* The reply of the settings: stored when there were none.
ResetSettings(w) ==
  /\ calls[w].pc = "settings"
  /\ SettingsReply(calls[w].settings)
  /\ calls' = [calls EXCEPT ![w].pc = IF calls[w].settings = "none" THEN "save" ELSE "write"]
  /\ UNCHANGED <<unlocked, logVars, loads, loaded, creds, pages, event, count, restarts>>

ResetSaved(w) ==
  /\ calls[w].pc = "save"
  /\ calls' = [calls EXCEPT ![w].pc = "write"]
  /\ UNCHANGED <<historyVars, creds, pages, event, count, restarts>>

-----------------------------------------------------------------------------
(* PresentVerifiableCredential, the page a site opens with its request. *)

\* The popup is one window at a time.  Its page fetches the credentials.
OpenPage(w) ==
  /\ unlocked /\ \A v \in Windows : pages[v].pc = "closed"
  /\ pages' = [pages EXCEPT ![w] = [NoPage EXCEPT !.pc = "fetch", !.shown = Held(creds)]]
  /\ UNCHANGED <<historyVars, creds, calls, event, count, restarts>>

\* Mutant: the list follows the store while the selection stays.
FetchedAgain(w) ==
  /\ pages[w].pc # "closed"
  /\ pages' = [pages EXCEPT ![w].pc = "open", ![w].shown = IF unlocked THEN Held(creds) ELSE {}]
  /\ UNCHANGED <<historyVars, creds, calls, event, count, restarts>>

\* getAllVerifiableCredentials replies, and the page shows what it got.
Fetched(w) ==
  /\ pages[w].pc = "fetch"
  /\ pages' = [pages EXCEPT ![w] = [pc |-> "open", chosen |-> {},
                                    shown |-> IF unlocked THEN @.shown ELSE {}]]
  /\ UNCHANGED <<historyVars, creds, calls, event, count, restarts>>

\* onToggleSelection
Toggle(w, c) ==
  /\ pages[w].pc = "open" /\ c \in pages[w].shown
  /\ pages' = [pages EXCEPT ![w].chosen = IF c \in @ THEN @ \ {c} ELSE @ \cup {c}]
  /\ UNCHANGED <<historyVars, creds, calls, event, count, restarts>>

Submit(w, pc, what) ==
  /\ Idle(w) /\ pages[w].pc = "open" /\ pages[w].chosen # {}
  /\ Begin(w, [NoCall EXCEPT !.pc = pc, !.op = "present", !.what = what, !.signed = pages[w].chosen])
  /\ UNCHANGED <<historyVars, creds, pages, restarts>>

\* Without a signature: ensure of a locked wallet hands on false, and the handler goes on.
PresentUnsigned(w) == Submit(w, "write", IF unlocked THEN pages[w].chosen ELSE {})

\* MetaMask signs what is chosen now, for as long as its user takes.
PresentWithMetamask(w) == Submit(w, "metamask", pages[w].chosen)

\* CryptKeeper signs: it reads the accounts first.
PresentWithCryptkeeper(w) == unlocked /\ Submit(w, "account", pages[w].chosen)

\* Mutant: the selection is read again when the signature is there.
MetamaskRepliesAfresh(w) ==
  /\ calls[w].pc = "metamask"
  /\ \/ calls' = [calls EXCEPT ![w] = NoCall]
     \/ calls' = [calls EXCEPT ![w].pc = "write", ![w].what = IF unlocked THEN pages[w].chosen ELSE {}]
  /\ UNCHANGED <<historyVars, creds, pages, event, count, restarts>>

\* The signature, or a refusal: an error on the page.
MetamaskReplies(w) ==
  /\ calls[w].pc = "metamask"
  /\ \/ calls' = [calls EXCEPT ![w] = NoCall]
     \/ calls' = [calls EXCEPT ![w].pc = "write", ![w].what = IF unlocked THEN @ ELSE {}]
  /\ UNCHANGED <<historyVars, creds, pages, event, count, restarts>>

\* signMessage: the accounts are decrypted.
AccountRead(w) ==
  /\ calls[w].pc = "account"
  /\ calls' = [calls EXCEPT ![w] = IF unlocked THEN [@ EXCEPT !.pc = "write"] ELSE NoCall]
  /\ UNCHANGED <<historyVars, creds, pages, event, count, restarts>>

\* rejectVerifiablePresentationRequest, by an open or a locked wallet.
RejectPresentation(w) ==
  /\ Idle(w) /\ pages[w].pc = "open"
  /\ Begin(w, [NoCall EXCEPT !.pc = "write", !.op = "reject"])
  /\ UNCHANGED <<historyVars, creds, pages, restarts>>

\* The log is stored: the active tabs hear of it, and the page closes.
Answered(w) ==
  /\ calls[w].pc = "track"
  /\ event' = [what |-> calls[w].what, signed |-> calls[w].signed]
  /\ pages' = [pages EXCEPT ![w] = IF calls[w].op \in {"present", "reject"} THEN NoPage ELSE @]
  /\ calls' = [calls EXCEPT ![w] = NoCall]
  /\ UNCHANGED <<historyVars, creds, count, restarts>>

-----------------------------------------------------------------------------

Load(w) == LoadCall(w) /\ count < MaxCalls /\ count' = count + 1 /\ UNCHANGED <<credentialVars, restarts>>

LoadStep(w) ==
  /\ LoadSettings(w) \/ LoadSaved(w) \/ LoadLog(w)
  /\ UNCHANGED <<credentialVars, count, restarts>>

\* The settings page.
Settle ==
  /\ \/ \E on \in {"on", "off"} : EnableHistory(on)
     \/ \E id \in operations : RemoveOperation(id)
     \/ ClearHistory
  /\ UNCHANGED <<credentialVars, count, restarts>>

\* UNLOCK and LOCK; lock shows the login page in place of the others.
LockOrUnlock ==
  /\ unlocked' = ~unlocked
  /\ pages' = IF unlocked THEN [w \in Windows |-> NoPage] ELSE pages
  /\ UNCHANGED <<logVars, settingVars, loads, loaded, flawed, creds, calls, event, count, restarts>>

\* The worker stops and starts: the pages stay as they are.
Restart ==
  /\ restarts < MaxRestarts
  /\ HistoryRestart
  /\ calls' = [w \in Windows |-> IF calls[w].pc = "metamask" THEN calls[w] ELSE NoCall]
  /\ restarts' = restarts + 1
  /\ UNCHANGED <<creds, pages, event, count>>

WindowStep(w) ==
  \/ \E c \in Credentials : Toggle(w, c) \/ \E n \in Names : AddVerifiableCredential(w, c, n)
  \/ VerifiableCredentialList(w) \/ DeleteAllVerifiableCredentials(w) \/ Read(w) \/ Written(w)
  \/ Other(w) \/ ResetPassword(w) \/ ResetSettings(w) \/ ResetSaved(w)
  \/ OpenPage(w) \/ Fetched(w)
  \/ PresentUnsigned(w) \/ PresentWithMetamask(w) \/ PresentWithCryptkeeper(w)
  \/ MetamaskReplies(w) \/ AccountRead(w) \/ RejectPresentation(w) \/ Answered(w)
  \/ Load(w) \/ LoadStep(w)

Next == (\E w \in Windows : WindowStep(w)) \/ Settle \/ LockOrUnlock \/ Restart

Spec == Init /\ [][Next]_vars

-----------------------------------------------------------------------------

Abstract == INSTANCE Catalog WITH catalog <- creds

\* A call writes what it made of a map that is no longer the stored one.
Outdated == \E w \in Windows : calls[w].pc = "read" /\ calls'[w].pc = "write" /\ calls[w].got # creds

\* What the catalogue makes of the call of w.
Promised(w) ==
  LET call == calls[w]
  IN  \/ call.op = "add" /\ Abstract!Add(call.cred, call.name)
      \/ call.op = "rename" /\ Abstract!Rename(call.cred, call.name)
      \/ call.op = "delete" /\ Abstract!Delete(call.cred)
      \/ call.op = "deleteAll" /\ Abstract!DeleteAll

\* The service keeps the promise of the catalogue, each change being what the catalogue
\* makes of one call, as long as no call writes upon a map that another one changed after
\* it was read: locks, failures and restarts do no harm.
ImplementsCatalog == [][Outdated \/ \E w \in Windows : calls[w].pc = "read" /\ Promised(w)]_creds

\* The tabs get what the user had chosen when submitting, or nothing of a locked wallet.
PresentsAsSigned == event.what \in {{}, event.signed}
=============================================================================
