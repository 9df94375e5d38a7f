-------------------------- MODULE CredentialsProofs --------------------------
(***************************************************************************)
(* Proofs about Credentials and the History it writes, for every set of    *)
(* windows, credentials and names, and any number of calls and restarts:   *)
(* also after the first flaw of the log, where the runs stop.              *)
(***************************************************************************)
EXTENDS Credentials, TLAPS

\* What a log that was read into memory shows of what the user is owed.
KeptInMemory == ~flawed /\ loaded => kept \subseteq operations

HistoryInv ==
  /\ HistoryTypeOK
  /\ HistoryKept
  /\ KeptInMemory
  /\ SettingObeyed

\* A call changes what it is about, and hands out what was signed or nothing.
Sound(call) ==
  /\ call.pc = "read" => /\ call.op \in Changes
                         /\ call.op # "deleteAll" => call.cred \in Credentials
                         /\ call.op = "delete" => call.name = None
  /\ call.what \in {{}, call.signed}

Numbered(call) == call.pc # "idle" => call.id \in Ids

SoundCall == {call \in Call : Sound(call) /\ Numbered(call)}

CallsAreSound == calls \in [Windows -> SoundCall]

CredentialsInv ==
  /\ CredentialsTypeOK
  /\ HistoryInv
  /\ CallsAreSound
  /\ PresentsAsSigned

-----------------------------------------------------------------------------
(* The actions of History. *)

LEMMA HistoryRests ==
  ASSUME HistoryInv, unlocked' \in BOOLEAN,
         UNCHANGED <<logVars, settingVars, loads, loaded, flawed>>
  PROVE  HistoryInv'
  BY DEF HistoryInv, HistoryTypeOK, HistoryKept, KeptInMemory, SettingObeyed, logVars,
     settingVars

\* A log that is written as it is in memory holds what it owes, if it was read.
LEMMA TrackKeeps ==
  ASSUME HistoryInv, NEW id \in Ids, Track(id),
         UNCHANGED <<unlocked, settingVars, loads, loaded>>
  PROVE  HistoryInv'
<1>1. HistoryTypeOK'
  BY DEF Track, HistoryInv, HistoryTypeOK, logVars, settingVars
<1>2. HistoryKept'
  BY DEF Track, HistoryInv, HistoryTypeOK, HistoryKept, KeptInMemory, logVars, settingVars
<1>3. KeptInMemory'
  BY DEF Track, HistoryInv, HistoryTypeOK, KeptInMemory, logVars, settingVars
<1>4. SettingObeyed'
  BY DEF Track, HistoryInv, HistoryTypeOK, SettingObeyed, logVars, settingVars
<1>5. QED
  BY <1>1, <1>2, <1>3, <1>4 DEF HistoryInv

LEMMA SettingsReplyKeeps ==
  ASSUME HistoryInv, NEW got \in Settings, SettingsReply(got),
         loads' \in [Windows -> HistoryLoad], UNCHANGED <<unlocked, logVars, loaded>>
  PROVE  HistoryInv'
<1>1. HistoryTypeOK'
  BY DEF SettingsReply, HistoryInv, HistoryTypeOK, logVars, Settings
<1>2. HistoryKept' /\ KeptInMemory'
  BY DEF SettingsReply, HistoryInv, HistoryTypeOK, HistoryKept, KeptInMemory, logVars
<1>3. SettingObeyed'
  BY DEF SettingsReply, HistoryInv, HistoryTypeOK, SettingObeyed, Settings
<1>4. QED
  BY <1>1, <1>2, <1>3 DEF HistoryInv

\* The three awaits of a load.
LEMMA LoadKeeps ==
  ASSUME HistoryInv, NEW w \in Windows,
         LoadCall(w) \/ LoadSettings(w) \/ LoadSaved(w) \/ LoadLog(w)
  PROVE  HistoryInv'
<1>1. loads' \in [Windows -> HistoryLoad]
  <2>1. [pc |-> "settings", settings |-> settingsStore, log |-> {}] \in HistoryLoad
    BY DEF HistoryInv, HistoryTypeOK, HistoryLoad
  <2>2. /\ [loads[w] EXCEPT !.pc = "save"] \in HistoryLoad
        /\ [loads[w] EXCEPT !.pc = "log", !.log = historyStore] \in HistoryLoad
    BY DEF HistoryInv, HistoryTypeOK, HistoryLoad
  <2>3. NoLoad \in HistoryLoad
    BY DEF NoLoad, HistoryLoad, Settings
  <2>4. QED
    BY <2>1, <2>2, <2>3
    DEF HistoryInv, HistoryTypeOK, LoadCall, LoadSettings, LoadSaved, LoadLog
<1>2. CASE LoadCall(w) \/ LoadSaved(w)
  BY <1>1, <1>2 DEF LoadCall, LoadSaved, HistoryInv, HistoryTypeOK, HistoryKept, KeptInMemory,
                    SettingObeyed, logVars, settingVars
<1>3. CASE LoadSettings(w)
  <2>1. loads[w].settings \in Settings
    BY DEF HistoryInv, HistoryTypeOK, HistoryLoad
  <2>2. QED
    BY <1>1, <1>3, <2>1, SettingsReplyKeeps DEF LoadSettings
<1>4. CASE LoadLog(w)
  <2>1. loads[w].log \subseteq Ids
    BY DEF HistoryInv, HistoryTypeOK, HistoryLoad
  <2>2. HistoryTypeOK'
    BY <1>1, <1>4, <2>1 DEF LoadLog, HistoryInv, HistoryTypeOK, settingVars
  <2>3. HistoryKept' /\ KeptInMemory'
    BY <1>4 DEF LoadLog, HistoryInv, HistoryTypeOK, HistoryKept, KeptInMemory
  <2>4. SettingObeyed'
    BY <1>4 DEF LoadLog, HistoryInv, HistoryTypeOK, SettingObeyed, settingVars
  <2>5. QED
    BY <2>2, <2>3, <2>4 DEF HistoryInv
<1>5. QED
  BY <1>2, <1>3, <1>4

LEMMA SettleKeeps ==
  ASSUME HistoryInv, Settle
  PROVE  HistoryInv'
<1>1. CASE \E on \in {"on", "off"} : EnableHistory(on)
  <2>1. PICK on \in {"on", "off"} : EnableHistory(on)
    BY <1>1
  <2>2. HistoryTypeOK'
    BY <2>1 DEF EnableHistory, HistoryInv, HistoryTypeOK, logVars, Settings
  <2>3. HistoryKept' /\ KeptInMemory'
    BY <2>1 DEF EnableHistory, HistoryInv, HistoryTypeOK, HistoryKept, KeptInMemory, logVars
  <2>4. SettingObeyed'
    BY <2>1 DEF EnableHistory, HistoryInv, HistoryTypeOK, SettingObeyed
  <2>5. QED
    BY <2>2, <2>3, <2>4 DEF HistoryInv
<1>2. CASE \E id \in operations : RemoveOperation(id)
  BY <1>2 DEF RemoveOperation, HistoryInv, HistoryTypeOK, HistoryKept, KeptInMemory,
              SettingObeyed, settingVars
<1>3. CASE ClearHistory
  BY <1>3 DEF ClearHistory, HistoryInv, HistoryTypeOK, HistoryKept, KeptInMemory, SettingObeyed,
              settingVars
<1>4. QED
  BY <1>1, <1>2, <1>3 DEF Settle

LEMMA HistoryRestartKeeps ==
  ASSUME HistoryInv, HistoryRestart
  PROVE  HistoryInv'
<1>1. NoLoad \in HistoryLoad
  BY DEF NoLoad, HistoryLoad, Settings
<1>2. QED
  BY <1>1 DEF HistoryRestart, HistoryInv, HistoryTypeOK, HistoryKept, KeptInMemory,
     SettingObeyed,
              Settings

-----------------------------------------------------------------------------
(* The calls. *)

LEMMA TheRest ==
  ASSUME CredentialsInv, HistoryInv', CallsAreSound',
         creds' \in Maps, pages' \in [Windows -> Page], count' \in 0..MaxCalls, UNCHANGED restarts,
         event' \in [what: SUBSET Credentials, signed: SUBSET Credentials],
         event'.what \in {{}, event'.signed}
  PROVE  CredentialsInv'
<1>1. calls' \in [Windows -> Call]
  BY DEF CallsAreSound, SoundCall
<1>2. QED
  BY <1>1 DEF CredentialsInv, CredentialsTypeOK, HistoryInv, PresentsAsSigned

\* Without a change of the history, of the event or of the counter.
LEMMA QuietRest ==
  ASSUME CredentialsInv, CallsAreSound', creds' \in Maps, pages' \in [Windows -> Page],
         UNCHANGED <<historyVars, event, count, restarts>>
  PROVE  CredentialsInv'
<1>1. HistoryInv'
  BY HistoryRests DEF historyVars, CredentialsInv, HistoryInv, HistoryTypeOK
<1>2. QED
  BY <1>1, TheRest DEF CredentialsInv, CredentialsTypeOK, PresentsAsSigned

LEMMA NoCallIsSound == NoCall \in SoundCall /\ NoCall.pc = "idle" /\ Sound(NoCall)
<1>1. NoCredentials \in Maps
  BY DEF NoCredentials, Maps
<1>2. 0 \in 0..MaxCalls
  BY HistoryAssumption
<1>3. NoCall \in Call
  BY <1>1, <1>2 DEF NoCall, Call, Ops, Changes, Settings
<1>4. QED
  BY <1>3 DEF SoundCall, Sound, Numbered, NoCall

LEMMA BeginIsSound ==
  ASSUME CredentialsInv, NEW w \in Windows, NEW call \in Call, Sound(call),
         Idle(w), Begin(w, call)
  PROVE  CallsAreSound' /\ count' \in 0..MaxCalls /\ event' = NoEvent
<1> DEFINE numbered == [call EXCEPT !.id = count + 1]
<1>1. count + 1 \in Ids /\ count + 1 \in 0..MaxCalls
  BY HistoryAssumption DEF Idle, CredentialsInv, CredentialsTypeOK, Ids
<1>2. numbered \in SoundCall
  BY <1>1 DEF Call, SoundCall, Sound, Numbered
<1>3. QED
  BY <1>1, <1>2 DEF Begin, CredentialsInv, CallsAreSound

\* A call that begins leaves the store, the pages and the log alone.
LEMMA BeginKeeps ==
  ASSUME CredentialsInv, NEW w \in Windows, NEW call \in Call, Sound(call),
         Idle(w), Begin(w, call), HistoryInv', UNCHANGED <<creds, pages, restarts>>
  PROVE  CredentialsInv'
<1>1. NoEvent \in [what: SUBSET Credentials, signed: SUBSET Credentials] /\ NoEvent.what = {}
  BY DEF NoEvent
<1>2. QED
  BY <1>1, BeginIsSound, TheRest DEF CredentialsInv, CredentialsTypeOK

LEMMA RequestKeeps ==
  ASSUME CredentialsInv, NEW w \in Windows, NEW op \in Changes,
         NEW c \in Credentials \cup {None}, NEW n \in Names \cup {None}, Request(w, op, c, n),
         op # "deleteAll" => c \in Credentials, op = "delete" => n = None
  PROVE  CredentialsInv'
<1> DEFINE call == [NoCall EXCEPT !.pc = "read", !.op = op, !.cred = c, !.name = n, !.got = creds]
<1>1. call \in Call /\ Sound(call)
  BY NoCallIsSound DEF SoundCall, Call, Sound, Ops, NoCall, CredentialsInv, CredentialsTypeOK
<1>2. HistoryInv'
  BY HistoryRests DEF Request, historyVars, CredentialsInv, HistoryInv, HistoryTypeOK
<1>3. QED
  BY <1>1, <1>2, BeginKeeps DEF Request

LEMMA ChangedIsMap ==
  ASSUME NEW call \in Call
  PROVE  Changed(call) \in Maps
  BY DEF Changed, Call, Maps, NoCredentials

LEMMA ReadKeeps ==
  ASSUME CredentialsInv, NEW w \in Windows, Read(w)
  PROVE  CredentialsInv'
<1>1. calls[w] \in SoundCall /\ calls[w] \in Call
  BY DEF CredentialsInv, CallsAreSound, SoundCall
<1>2. [calls[w] EXCEPT !.pc = "write"] \in SoundCall
  BY <1>1 DEF Read, SoundCall, Call, Sound, Numbered
<1>3. CallsAreSound'
  BY <1>2, NoCallIsSound DEF Read, CredentialsInv, CallsAreSound
<1>4. creds' \in Maps
  BY <1>1, ChangedIsMap DEF Read, CredentialsInv, CredentialsTypeOK
<1>5. QED
  BY <1>3, <1>4, QuietRest DEF Read, CredentialsInv, CredentialsTypeOK

LEMMA WrittenKeeps ==
  ASSUME CredentialsInv, NEW w \in Windows, Written(w)
  PROVE  CredentialsInv'
<1>1. calls[w] \in SoundCall /\ calls[w].id \in Ids
  BY DEF Written, CredentialsInv, CallsAreSound, SoundCall, Numbered
<1>2. [calls[w] EXCEPT !.pc = "track"] \in SoundCall
  BY <1>1 DEF SoundCall, Call, Sound, Numbered
<1>3. CallsAreSound'
  BY <1>2, NoCallIsSound DEF Written, Tracks, CredentialsInv, CallsAreSound
<1>4. HistoryInv'
  BY <1>1, TrackKeeps DEF Written, Tracks, CredentialsInv
<1>5. QED
  BY <1>3, <1>4, TheRest DEF Written, CredentialsInv, CredentialsTypeOK, PresentsAsSigned

LEMMA OtherKeeps ==
  ASSUME CredentialsInv, NEW w \in Windows, Other(w)
  PROVE  CredentialsInv'
<1>1. /\ [NoCall EXCEPT !.pc = "write", !.op = "other"] \in Call
      /\ Sound([NoCall EXCEPT !.pc = "write", !.op = "other"])
  BY NoCallIsSound DEF SoundCall, Call, Sound, Ops, NoCall
<1>2. HistoryInv'
  BY HistoryRests DEF Other, historyVars, CredentialsInv, HistoryInv, HistoryTypeOK
<1>3. QED
  BY <1>1, <1>2, BeginKeeps DEF Other

LEMMA ResetPasswordKeeps ==
  ASSUME CredentialsInv, NEW w \in Windows, ResetPassword(w)
  PROVE  CredentialsInv'
<1> DEFINE call == [NoCall EXCEPT !.pc = "settings", !.op = "other", !.settings = settingsStore]
<1>1. call \in Call /\ Sound(call)
  BY NoCallIsSound DEF SoundCall, Call, Sound, Ops, NoCall, CredentialsInv, HistoryInv,
     HistoryTypeOK
<1>2. HistoryInv'
  BY HistoryRests DEF ResetPassword, CredentialsInv
<1>3. QED
  BY <1>1, <1>2, BeginKeeps DEF ResetPassword

LEMMA ResetSettingsKeeps ==
  ASSUME CredentialsInv, NEW w \in Windows, ResetSettings(w)
  PROVE  CredentialsInv'
<1>1. calls[w] \in SoundCall /\ calls[w].settings \in Settings
  BY DEF CredentialsInv, CallsAreSound, SoundCall, Call
<1>2. \A pc \in {"save", "write"} : [calls[w] EXCEPT !.pc = pc] \in SoundCall
  BY <1>1 DEF ResetSettings, SoundCall, Call, Sound, Numbered
<1>3. CallsAreSound'
  BY <1>2 DEF ResetSettings, CredentialsInv, CallsAreSound
<1>4. HistoryInv'
  BY <1>1, SettingsReplyKeeps DEF ResetSettings, CredentialsInv, HistoryInv, HistoryTypeOK
<1>5. QED
  BY <1>3, <1>4, TheRest DEF ResetSettings, CredentialsInv, CredentialsTypeOK, PresentsAsSigned

LEMMA ResetSavedKeeps ==
  ASSUME CredentialsInv, NEW w \in Windows, ResetSaved(w)
  PROVE  CredentialsInv'
<1>1. [calls[w] EXCEPT !.pc = "write"] \in SoundCall
  BY DEF ResetSaved, CredentialsInv, CallsAreSound, SoundCall, Call, Sound, Numbered
<1>2. CallsAreSound'
  BY <1>1 DEF ResetSaved, CredentialsInv, CallsAreSound
<1>3. QED
  BY <1>2, QuietRest DEF ResetSaved, CredentialsInv, CredentialsTypeOK

-----------------------------------------------------------------------------
(* The page that presents credentials. *)

LEMMA PageKeeps ==
  ASSUME CredentialsInv, NEW w \in Windows,
         OpenPage(w) \/ Fetched(w) \/ \E c \in Credentials : Toggle(w, c)
  PROVE  CredentialsInv'
<1>1. pages[w] \in Page
  BY DEF CredentialsInv, CredentialsTypeOK
<1>2. Held(creds) \subseteq Credentials
  BY DEF Held
<1>3. CASE OpenPage(w)
  <2>1. [NoPage EXCEPT !.pc = "fetch", !.shown = Held(creds)] \in Page
    BY <1>2 DEF NoPage, Page
  <2>2. pages' \in [Windows -> Page]
    BY <1>3, <2>1 DEF OpenPage, CredentialsInv, CredentialsTypeOK
  <2>3. QED
    BY <1>3, <2>2, QuietRest DEF OpenPage, CredentialsInv, CredentialsTypeOK, CallsAreSound
<1>4. CASE Fetched(w)
  <2>1. [pc |-> "open", chosen |-> {}, shown |-> IF unlocked THEN pages[w].shown ELSE {}] \in Page
    BY <1>1 DEF Page
  <2>2. pages' \in [Windows -> Page]
    BY <1>4, <2>1 DEF Fetched, CredentialsInv, CredentialsTypeOK
  <2>3. QED
    BY <1>4, <2>2, QuietRest DEF Fetched, CredentialsInv, CredentialsTypeOK, CallsAreSound
<1>5. ASSUME NEW c \in Credentials, Toggle(w, c)
      PROVE  CredentialsInv'
  <2>1. \A chosen \in SUBSET pages[w].shown : [pages[w] EXCEPT !.chosen = chosen] \in Page
    BY <1>1 DEF Page
  <2>2. /\ pages[w].chosen \ {c} \in SUBSET pages[w].shown
        /\ pages[w].chosen \cup {c} \in SUBSET pages[w].shown
    BY <1>1, <1>5 DEF Page, Toggle
  <2>3. pages' \in [Windows -> Page]
    BY <1>5, <2>1, <2>2 DEF Toggle, CredentialsInv, CredentialsTypeOK
  <2>4. QED
    BY <1>5, <2>3, QuietRest DEF Toggle, CredentialsInv, CredentialsTypeOK, CallsAreSound
<1>6. QED
  BY <1>3, <1>4, <1>5

\* What is handed out is fixed when the user submits.
LEMMA SubmitKeeps ==
  ASSUME CredentialsInv, NEW w \in Windows, NEW pc \in {"write", "metamask", "account"},
         NEW what \in {{}, pages[w].chosen}, Submit(w, pc, what)
  PROVE  CredentialsInv'
<1> DEFINE call == [NoCall EXCEPT !.pc = pc, !.op = "present", !.what = what,
                                  !.signed = pages[w].chosen]
<1>1. pages[w].chosen \subseteq Credentials
  BY DEF CredentialsInv, CredentialsTypeOK, Page
<1>2. call \in Call /\ Sound(call)
  BY <1>1, NoCallIsSound DEF SoundCall, Call, Sound, Ops, NoCall
<1>3. HistoryInv'
  BY HistoryRests DEF Submit, historyVars, CredentialsInv, HistoryInv, HistoryTypeOK
<1>4. QED
  BY <1>2, <1>3, BeginKeeps DEF Submit

LEMMA PresentKeeps ==
  ASSUME CredentialsInv, NEW w \in Windows,
         PresentUnsigned(w) \/ PresentWithMetamask(w) \/ PresentWithCryptkeeper(w)
  PROVE  CredentialsInv'
  BY SubmitKeeps DEF PresentUnsigned, PresentWithMetamask, PresentWithCryptkeeper

LEMMA SignedKeeps ==
  ASSUME CredentialsInv, NEW w \in Windows, MetamaskReplies(w) \/ AccountRead(w)
  PROVE  CredentialsInv'
<1>1. calls[w] \in SoundCall /\ calls[w].pc # "idle"
  BY DEF CredentialsInv, CallsAreSound, MetamaskReplies, AccountRead
<1>2. \A what \in {{}, calls[w].what} :
        [calls[w] EXCEPT !.pc = "write", !.what = what] \in SoundCall
  BY <1>1 DEF SoundCall, Call, Sound, Numbered
<1>3. [calls[w] EXCEPT !.pc = "write"] \in SoundCall
  BY <1>1 DEF SoundCall, Call, Sound, Numbered
<1>4. CallsAreSound'
  BY <1>2, <1>3, NoCallIsSound DEF MetamaskReplies, AccountRead, CredentialsInv, CallsAreSound
<1>5. QED
  BY <1>4, QuietRest DEF MetamaskReplies, AccountRead, CredentialsInv, CredentialsTypeOK

LEMMA RejectPresentationKeeps ==
  ASSUME CredentialsInv, NEW w \in Windows, RejectPresentation(w)
  PROVE  CredentialsInv'
<1>1. /\ [NoCall EXCEPT !.pc = "write", !.op = "reject"] \in Call
      /\ Sound([NoCall EXCEPT !.pc = "write", !.op = "reject"])
  BY NoCallIsSound DEF SoundCall, Call, Sound, Ops, NoCall
<1>2. HistoryInv'
  BY HistoryRests DEF RejectPresentation, historyVars, CredentialsInv, HistoryInv, HistoryTypeOK
<1>3. QED
  BY <1>1, <1>2, BeginKeeps DEF RejectPresentation

LEMMA AnsweredKeeps ==
  ASSUME CredentialsInv, NEW w \in Windows, Answered(w)
  PROVE  CredentialsInv'
<1>1. calls[w] \in SoundCall
  BY DEF CredentialsInv, CallsAreSound
<1>2. /\ event' \in [what: SUBSET Credentials, signed: SUBSET Credentials]
      /\ event'.what \in {{}, event'.signed}
  BY <1>1 DEF Answered, SoundCall, Call, Sound
<1>3. NoPage \in Page
  BY DEF NoPage, Page
<1>4. pages' \in [Windows -> Page]
  BY <1>3 DEF Answered, CredentialsInv, CredentialsTypeOK
<1>5. CallsAreSound'
  BY NoCallIsSound DEF Answered, CredentialsInv, CallsAreSound
<1>6. HistoryInv'
  BY HistoryRests DEF Answered, historyVars, CredentialsInv, HistoryInv, HistoryTypeOK
<1>7. QED
  BY <1>2, <1>4, <1>5, <1>6, TheRest DEF Answered, CredentialsInv, CredentialsTypeOK

-----------------------------------------------------------------------------
(* Loads, settings, the lock and the restarts. *)

\* A step of the history alone.
LEMMA HistoryStepKeeps ==
  ASSUME CredentialsInv, HistoryInv', UNCHANGED <<credentialVars, restarts>>,
         count' \in 0..MaxCalls
  PROVE  CredentialsInv'
  BY TheRest DEF credentialVars, CredentialsInv, CredentialsTypeOK, CallsAreSound,
     PresentsAsSigned

LEMMA LoadsKeep ==
  ASSUME CredentialsInv, NEW w \in Windows, Load(w) \/ LoadStep(w)
  PROVE  CredentialsInv'
<1>1. count' \in 0..MaxCalls
  BY HistoryAssumption DEF Load, LoadStep, CredentialsInv, CredentialsTypeOK
<1>2. HistoryInv'
  BY LoadKeeps DEF Load, LoadStep, CredentialsInv
<1>3. QED
  BY <1>1, <1>2, HistoryStepKeeps DEF Load, LoadStep

LEMMA SettleStepKeeps ==
  ASSUME CredentialsInv, Settle
  PROVE  CredentialsInv'
<1>1. HistoryInv'
  BY SettleKeeps DEF CredentialsInv
<1>2. QED
  BY <1>1, HistoryStepKeeps DEF Settle, CredentialsInv, CredentialsTypeOK

LEMMA LockOrUnlockKeeps ==
  ASSUME CredentialsInv, LockOrUnlock
  PROVE  CredentialsInv'
<1>1. NoPage \in Page
  BY DEF NoPage, Page
<1>2. pages' \in [Windows -> Page]
  BY <1>1 DEF LockOrUnlock, CredentialsInv, CredentialsTypeOK
<1>3. HistoryInv'
  BY HistoryRests DEF LockOrUnlock, CredentialsInv
<1>4. QED
  BY <1>2, <1>3, TheRest DEF LockOrUnlock, CredentialsInv, CredentialsTypeOK, CallsAreSound,
     PresentsAsSigned

LEMMA RestartKeeps ==
  ASSUME CredentialsInv, Restart
  PROVE  CredentialsInv'
<1>1. HistoryInv'
  BY HistoryRestartKeeps DEF Restart, CredentialsInv
<1>2. CallsAreSound'
  BY NoCallIsSound DEF Restart, CredentialsInv, CallsAreSound
<1>3. calls' \in [Windows -> Call]
  BY <1>2 DEF CallsAreSound, SoundCall
<1>4. restarts' \in 0..MaxRestarts
  BY CredentialsAssumption DEF Restart, CredentialsInv, CredentialsTypeOK
<1>5. QED
  BY <1>1, <1>2, <1>3, <1>4 DEF Restart, CredentialsInv, CredentialsTypeOK, HistoryInv,
     PresentsAsSigned

-----------------------------------------------------------------------------
(* The invariant and what follows from it. *)

LEMMA InitHasInv == Init => CredentialsInv
<1> SUFFICES ASSUME Init
             PROVE  CredentialsInv
  OBVIOUS
<1>1. NoLoad \in HistoryLoad /\ NoPage \in Page
  BY DEF NoLoad, HistoryLoad, Settings, NoPage, Page
<1>2. HistoryTypeOK
  BY <1>1 DEF Init, HistoryInit, HistoryTypeOK, Settings
<1>3. HistoryInv
  BY <1>2 DEF Init, HistoryInit, HistoryInv, HistoryKept, KeptInMemory, SettingObeyed
<1>4. CallsAreSound
  BY NoCallIsSound DEF Init, CallsAreSound
<1>5. creds \in Maps
  BY DEF Init, NoCredentials, Maps
<1>6. calls \in [Windows -> Call] /\ pages \in [Windows -> Page]
  BY <1>1, <1>4 DEF Init, CallsAreSound, SoundCall
<1>7. count \in 0..MaxCalls /\ restarts \in 0..MaxRestarts
  BY HistoryAssumption, CredentialsAssumption DEF Init
<1>8. CredentialsTypeOK /\ PresentsAsSigned
  BY <1>2, <1>5, <1>6, <1>7 DEF Init, CredentialsTypeOK, PresentsAsSigned, NoEvent
<1>9. QED
  BY <1>3, <1>4, <1>8 DEF CredentialsInv

LEMMA RequestsKeep ==
  ASSUME CredentialsInv, NEW w \in Windows,
         \/ \E c \in Credentials, n \in Names : AddVerifiableCredential(w, c, n)
         \/ VerifiableCredentialList(w)
         \/ DeleteAllVerifiableCredentials(w)
  PROVE  CredentialsInv'
<1>1. CASE \E c \in Credentials, n \in Names : AddVerifiableCredential(w, c, n)
  BY <1>1, RequestKeeps DEF AddVerifiableCredential, Changes
<1>2. CASE VerifiableCredentialList(w)
  BY <1>2, RequestKeeps DEF VerifiableCredentialList, VerifiableCredentialItem,
     DeleteVerifiableCredential, RenameVerifiableCredential, Changes
<1>3. CASE DeleteAllVerifiableCredentials(w)
  BY <1>3, RequestKeeps DEF DeleteAllVerifiableCredentials, Changes
<1>4. QED
  BY <1>1, <1>2, <1>3

LEMMA NextKeepsInv == CredentialsInv /\ [Next]_vars => CredentialsInv'
<1> SUFFICES ASSUME CredentialsInv, [Next]_vars
             PROVE  CredentialsInv'
  OBVIOUS
<1>1. ASSUME NEW w \in Windows, WindowStep(w)
      PROVE  CredentialsInv'
  BY <1>1, RequestsKeep, ReadKeeps, WrittenKeeps, OtherKeeps, ResetPasswordKeeps,
     ResetSettingsKeeps, ResetSavedKeeps, PageKeeps, PresentKeeps, SignedKeeps,
     RejectPresentationKeeps, AnsweredKeeps, LoadsKeep DEF WindowStep
<1>2. CASE UNCHANGED vars
  <2>1. HistoryInv'
    BY <1>2, HistoryRests DEF vars, historyVars, CredentialsInv, HistoryInv, HistoryTypeOK
  <2>2. QED
    BY <1>2, <2>1, HistoryStepKeeps DEF vars, CredentialsInv, CredentialsTypeOK
<1>3. QED
  BY <1>1, <1>2, SettleStepKeeps, LockOrUnlockKeeps, RestartKeeps DEF Next

\* The log, the setting, the calls and the pages keep what they owe the user, whatever
\* calls, loads, locks and restarts overlap.
THEOREM CredentialsInvHolds == Spec => []CredentialsInv
<1>1. QED
  BY InitHasInv, NextKeepsInv, PTL DEF Spec

\* Stores, calls, pages and counters are well formed.
THEOREM CredentialsTypesHold == Spec => []CredentialsTypeOK
<1>1. CredentialsInv => CredentialsTypeOK
  BY DEF CredentialsInv
<1>2. QED
  BY <1>1, CredentialsInvHolds, PTL

\* HistoryService loses no operation it has logged, unless a load brought an older log or
\* the log was written without having been read.
THEOREM LogIsKept == Spec => []HistoryKept
<1>1. CredentialsInv => HistoryKept
  BY DEF CredentialsInv, HistoryInv
<1>2. QED
  BY <1>1, CredentialsInvHolds, PTL

\* HistoryService logs as the user chose last, before and after a restart.
THEOREM SettingIsObeyed == Spec => []SettingObeyed
<1>1. CredentialsInv => SettingObeyed
  BY DEF CredentialsInv, HistoryInv
<1>2. QED
  BY <1>1, CredentialsInvHolds, PTL

\* The active tabs get the credentials the user had selected when submitting, or none,
\* however long MetaMask takes and whatever happens to the page meanwhile.
THEOREM TabsGetWhatWasSigned == Spec => []PresentsAsSigned
<1>1. CredentialsInv => PresentsAsSigned
  BY DEF CredentialsInv
<1>2. QED
  BY <1>1, CredentialsInvHolds, PTL

-----------------------------------------------------------------------------
(* The promise of the catalogue. *)

\* Only the reply of a read changes the store.
LEMMA OnlyReadsChange ==
  ASSUME CredentialsInv, [Next]_vars, creds' # creds
  PROVE  \E w \in Windows : Read(w)
<1>1. ASSUME NEW w \in Windows, WindowStep(w), ~Read(w)
      PROVE  creds' = creds
  BY <1>1 DEF WindowStep, AddVerifiableCredential, VerifiableCredentialList,
     VerifiableCredentialItem, RenameVerifiableCredential, DeleteVerifiableCredential,
     DeleteAllVerifiableCredentials, Request, Toggle, Written, Other, ResetPassword, ResetSettings,
     ResetSaved, OpenPage, Fetched, PresentUnsigned, PresentWithMetamask, PresentWithCryptkeeper,
     Submit, MetamaskReplies, AccountRead, RejectPresentation, Answered, Load, LoadStep,
     credentialVars
<1>2. CASE Settle \/ LockOrUnlock \/ Restart \/ UNCHANGED vars
  BY <1>2 DEF Settle, LockOrUnlock, Restart, vars, credentialVars
<1>3. QED
  BY <1>1, <1>2 DEF Next

\* A change made of the map that is stored is the one the catalogue makes of the call.
LEMMA ReadKeepsPromise ==
  ASSUME CredentialsInv, NEW w \in Windows, Read(w), creds' # creds
  PROVE  Outdated \/ (calls[w].pc = "read" /\ Promised(w))
<1> DEFINE call == calls[w]
<1>1. /\ call.pc = "read" /\ Sound(call) /\ call \in Call
      /\ Fits(call) /\ creds' = Changed(call) /\ calls'[w].pc = "write"
  BY DEF Read, CredentialsInv, CallsAreSound, SoundCall, Call
<1>2. CASE call.got # creds
  BY <1>1, <1>2 DEF Outdated
<1>3. CASE call.got = creds
  <2>1. CASE call.op = "add"
    BY <1>1, <1>3, <2>1 DEF Sound, Fits, Changed, Promised, Abstract!Add, Abstract!Stored
  <2>2. CASE call.op = "rename"
    BY <1>1, <1>3, <2>2 DEF Sound, Fits, Changed, Promised, Abstract!Rename, Abstract!Stored
  <2>3. CASE call.op = "delete"
    BY <1>1, <1>3, <2>3 DEF Sound, Fits, Changed, Promised, Abstract!Delete, Abstract!Stored
  <2>4. CASE call.op = "deleteAll"
    BY <1>1, <1>3, <2>4 DEF Sound, Fits, Changed, Promised, Abstract!DeleteAll, Abstract!Stored,
       Held, NoCredentials
  <2>5. QED
    BY <1>1, <2>1, <2>2, <2>3, <2>4 DEF Sound, Changes
<1>4. QED
  BY <1>2, <1>3

\* VerifiableCredentialsService implements the catalogue: each change of the store is what
\* one call asked for, unless it was made of a map that was no longer the stored one.
THEOREM CatalogIsImplemented == Spec => ImplementsCatalog
<1>1. CredentialsInv /\ [Next]_vars
        => [Outdated \/ \E w \in Windows : calls[w].pc = "read" /\ Promised(w)]_creds
  BY OnlyReadsChange, ReadKeepsPromise
<1>2. QED
  BY <1>1, CredentialsInvHolds, PTL DEF Spec, ImplementsCatalog
=============================================================================
