------------------------------ MODULE History ------------------------------
(***************************************************************************)
(* HistoryService: the log of operations and its settings, in memory and   *)
(* in the stores, with the loads, writes and restarts that may overlap.    *)
(*                                                                         *)
(* The browser takes requests of storage in order: a set is in the store,  *)
(* and the value of a get is fixed, when it is requested; the reply comes  *)
(* later.  An operation is a number, the log a set of them, and the empty  *)
(* list in the store is null.                                              *)
(***************************************************************************)
EXTENDS Naturals

CONSTANTS Windows, MaxCalls

ASSUME HistoryAssumption == MaxCalls \in Nat

VARIABLES
  unlocked,       \* LockerService.isUnlocked, and the mnemonic is in CryptoService
  settings,       \* HistoryService.settings: "none" (undefined), "on" or "off"
  settingsStore,
  operations,     \* HistoryService.operations
  historyStore,
  loads,          \* loads[w]: LOAD_IDENTITY_HISTORY of window w
  wish,           \* history: the setting the user chose last
  kept,           \* history: the operations the log owes the user
  loaded,         \* history: operations were read since the worker started
  flawed          \* history: the log or the setting was written by one who did not know it

logVars == <<operations, historyStore, kept>>
settingVars == <<settings, settingsStore, wish>>
historyVars == <<unlocked, logVars, settingVars, loads, loaded, flawed>>

-----------------------------------------------------------------------------

Ids == 1..MaxCalls
Settings == {"none", "on", "off"}
NoLoad == [pc |-> "idle", settings |-> "none", log |-> {}]

HistoryLoad == [pc: {"idle", "settings", "save", "log"}, settings: Settings, log: SUBSET Ids]

HistoryTypeOK ==
  /\ unlocked \in BOOLEAN /\ loaded \in BOOLEAN /\ flawed \in BOOLEAN
  /\ settings \in Settings /\ settingsStore \in Settings /\ wish \in {"on", "off"}
  /\ operations \subseteq Ids /\ historyStore \subseteq Ids /\ kept \subseteq Ids
  /\ loads \in [Windows -> HistoryLoad]

HistoryInit ==
  /\ unlocked = FALSE /\ loaded = FALSE /\ flawed = FALSE
  /\ settings = "none" /\ settingsStore = "none" /\ wish = "on"
  /\ operations = {} /\ historyStore = {} /\ kept = {}
  /\ loads = [w \in Windows |-> NoLoad]

-----------------------------------------------------------------------------

\* loadSettings, the reply: no setting is "on", and is stored.
SettingsReply(got) ==
  /\ settings' = IF got = "none" THEN "on" ELSE got
  /\ settingsStore' = IF got = "none" THEN "on" ELSE settingsStore
  /\ wish' = wish
  /\ flawed' = (flawed \/ got # settingsStore)

\* Mutant: the operations are written before the new one is among them.
TrackLate(id) ==
  IF settings # "on" THEN UNCHANGED <<logVars, flawed>>
  ELSE /\ operations' = operations \cup {id}
       /\ historyStore' = IF unlocked THEN operations ELSE historyStore
       /\ kept' = IF unlocked THEN kept \cup {id} ELSE kept
       /\ flawed' = (flawed \/ ~loaded)

\* trackOperation: pushed, then encrypted, which a locked wallet cannot, and stored.
Track(id) ==
  IF settings # "on" THEN UNCHANGED <<logVars, flawed>>
  ELSE /\ operations' = operations \cup {id}
       /\ historyStore' = IF unlocked THEN operations' ELSE historyStore
       /\ kept' = IF unlocked THEN kept \cup {id} ELSE kept
       /\ flawed' = (flawed \/ ~loaded)

\* Home, the activity list and the settings page load the history when they are shown.
LoadCall(w) ==
  /\ loads[w].pc = "idle"
  /\ loads' = [loads EXCEPT ![w] = [pc |-> "settings", settings |-> settingsStore, log |-> {}]]
  /\ UNCHANGED <<unlocked, logVars, settingVars, loaded, flawed>>

LoadSettings(w) ==
  /\ loads[w].pc = "settings"
  /\ SettingsReply(loads[w].settings)
  /\ loads' = [loads EXCEPT ![w] =
                 IF loads[w].settings = "none" THEN [@ EXCEPT !.pc = "save"]
                 ELSE [@ EXCEPT !.pc = "log", !.log = historyStore]]
  /\ UNCHANGED <<unlocked, logVars, loaded>>

LoadSaved(w) ==
  /\ loads[w].pc = "save"
  /\ loads' = [loads EXCEPT ![w] = [@ EXCEPT !.pc = "log", !.log = historyStore]]
  /\ UNCHANGED <<unlocked, logVars, settingVars, loaded, flawed>>

\* Of a log a locked wallet reads nothing.
LoadLog(w) ==
  /\ loads[w].pc = "log"
  /\ loads' = [loads EXCEPT ![w] = NoLoad]
  /\ IF loads[w].log = {} \/ unlocked
     THEN /\ operations' = loads[w].log
          /\ loaded' = TRUE
          /\ flawed' = (flawed \/ loads[w].log # historyStore)
     ELSE UNCHANGED <<operations, loaded, flawed>>
  /\ UNCHANGED <<unlocked, historyStore, kept, settingVars>>

\* Mutant: the setting is not stored.
EnableHistoryUnsaved(on) ==
  /\ settings' = IF unlocked THEN on ELSE "off"
  /\ wish' = on /\ settingsStore' = settingsStore
  /\ flawed' = (flawed \/ ~unlocked)
  /\ UNCHANGED <<unlocked, logVars, loads, loaded>>

\* enableHistory, to which ensure of a locked wallet hands false.
EnableHistory(on) ==
  /\ settings' = IF unlocked THEN on ELSE "off"
  /\ settingsStore' = settings' /\ wish' = on
  /\ flawed' = (flawed \/ ~unlocked)
  /\ UNCHANGED <<unlocked, logVars, loads, loaded>>

\* removeOperation writes what is in memory; a locked wallet cannot encrypt it.
RemoveOperation(id) ==
  /\ unlocked
  /\ operations' = operations \ {id}
  /\ historyStore' = operations' /\ kept' = kept \ {id}
  /\ flawed' = (flawed \/ ~loaded)
  /\ UNCHANGED <<unlocked, settingVars, loads, loaded>>

\* clear of an open or of a locked wallet.
ClearHistory ==
  /\ operations' = {} /\ historyStore' = {} /\ kept' = {}
  /\ UNCHANGED <<unlocked, settingVars, loads, loaded, flawed>>

\* The worker starts anew.
HistoryRestart ==
  /\ settings' = "none" /\ operations' = {} /\ loaded' = FALSE /\ unlocked' = FALSE
  /\ loads' = [w \in Windows |-> NoLoad]
  /\ UNCHANGED <<settingsStore, wish, historyStore, kept, flawed>>

-----------------------------------------------------------------------------

\* What was logged and not removed stays in the store, whatever calls, loads, locks and
\* restarts overlap: it is lost only to a load that read an older log, or to a write of
\* operations never read (after resetPassword, or between the two reads of a load).
HistoryKept == ~flawed => kept \subseteq historyStore

\* The service logs as the user chose last, in memory and after a restart, unless a load
\* read an older setting or a locked wallet was asked.
SettingObeyed ==
  ~flawed => /\ settings \in {"none", wish}
             /\ settingsStore = wish \/ (settingsStore = "none" /\ wish = "on")
=============================================================================
