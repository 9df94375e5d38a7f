----------------------------- MODULE Offscreen -----------------------------
(***************************************************************************)
(* Proofs: ProtocolService.generateSemaphoreProof and generateRLNProof,    *)
(* the offscreen document in which Chrome computes them, and the zk        *)
(* services behind it.  Firefox computes them in its background page.      *)
(*                                                                         *)
(* The browser has one offscreen document at most, which the proofs share. *)
(* One action is what happens between two awaits of a proof.               *)
(***************************************************************************)
EXTENDS Naturals

CONSTANTS
  Proofs,       \* the requests for a proof, of all sites and of both kinds
  Platforms,    \* browsers: "chrome" for all but "firefox"
  MaxRestarts

ASSUME OffscreenAssumption ==
  /\ Platforms \subseteq {"chrome", "firefox"}
  /\ MaxRestarts \in Nat

VARIABLES
  platform,
  document,     \* the offscreen document
  listening,    \* it still has its message listener
  jobs,         \* jobs[p]: where the proof is, whether its source is valid, its outcome
  failed,       \* history: proofs refused, or not computable
  shared,       \* history: proofs that have run beside another, or found a document
                \* that a restart had left
  orphan,       \* history: a restart has left the document
  restarts

offscreenVars == <<platform, document, listening, jobs, failed, shared, orphan, restarts>>

-----------------------------------------------------------------------------

Sources == {"missing", "url", "artifacts", "proof", "empty proof", "other"}
Outcomes == {"none", "proof", "undefined", "error"}
NoJob == [pc |-> "idle", valid |-> FALSE, out |-> "none"]

OffscreenTypeOK ==
  /\ platform \in Platforms
  /\ document \in {"none", "loading", "open"} /\ listening \in BOOLEAN
  /\ jobs \in [Proofs -> [pc: {"idle", "prepare", "has", "yes", "no", "create", "compute",
                              "close", "done", "lost"},
                         valid: BOOLEAN, out: Outcomes]]
  /\ \A p \in Proofs : jobs[p].pc \in {"close", "done"} => jobs[p].out # "none"
  /\ failed \subseteq Proofs /\ shared \subseteq Proofs
  /\ orphan \in BOOLEAN /\ restarts \in 0..MaxRestarts

At(p, pc) == jobs[p].pc = pc
Running(p) == jobs[p].pc \notin {"idle", "done", "lost"}
Goto(p, pc) == jobs' = [jobs EXCEPT ![p].pc = pc]
End(p, out) == jobs' = [jobs EXCEPT ![p].pc = "close", ![p].out = out]

\* MerkleProofValidator: all parts of a proof are there and not empty.
IsWholeProof(source) == source = "proof"

\* validateMerkleProofSource: a URL, artifacts, or a whole proof.
IsValidSource(source) == source \in {"url", "artifacts"} \/ IsWholeProof(source)

-----------------------------------------------------------------------------

\* A site asks for a proof.
Request(p) ==
  /\ At(p, "idle")
  /\ \E source \in Sources :
       jobs' = [jobs EXCEPT ![p].pc = "prepare", ![p].valid = IsValidSource(source)]
  /\ LET others == {q \in Proofs \ {p} : Running(q)}
     IN  shared' = IF others = {} THEN shared \cup (IF orphan THEN {p} ELSE {})
                                  ELSE shared \cup others \cup {p}
  /\ UNCHANGED <<platform, document, listening, failed, orphan, restarts>>

\* The request is good so far and may be before the user, who need never answer.
AwaitsUser(p) == At(p, "prepare") /\ jobs[p].valid

\* prepareSemaphoreProof, prepareRLNProof: the source is invalid, no identity is connected,
\* or the user says no.
PrepareFails(p) ==
  /\ At(p, "prepare")
  /\ End(p, "error")
  /\ failed' = failed \cup {p}
  /\ UNCHANGED <<platform, document, listening, shared, orphan, restarts>>

\* The request is complete.  Firefox goes on by itself, the others look for a document.
Prepared(p) ==
  /\ AwaitsUser(p)
  /\ Goto(p, IF platform = "firefox" THEN "compute" ELSE "has")
  /\ UNCHANGED <<platform, document, listening, failed, shared, orphan, restarts>>

\* Mutant: a proof waits until the document is free, to have it for itself.
AwaitNoDocument(p) ==
  /\ At(p, "has") /\ document = "none"
  /\ Goto(p, "no")
  /\ UNCHANGED <<platform, document, listening, failed, shared, orphan, restarts>>

\* createChromeOffscreen: chrome.offscreen.hasDocument.
HasDocument(p) ==
  /\ At(p, "has")
  /\ \/ document # "none" /\ Goto(p, "yes")
     \/ document # "open" /\ Goto(p, "no")
  /\ UNCHANGED <<platform, document, listening, failed, shared, orphan, restarts>>

\* createChromeOffscreen: chrome.offscreen.createDocument, which refuses a second document.
CreateDocument(p) ==
  /\ At(p, "no")
  /\ IF document = "none" THEN Goto(p, "create") /\ document' = "loading"
                          ELSE End(p, "error") /\ UNCHANGED document
  /\ UNCHANGED <<platform, listening, failed, shared, orphan, restarts>>

\* Mutant: the answer of the document is not awaited, and the finally comes first.
DocumentNotAwaited(p) ==
  /\ At(p, "create")
  /\ document' = IF document = "loading" THEN "open" ELSE document
  /\ End(p, "undefined")
  /\ UNCHANGED <<platform, listening, failed, shared, orphan, restarts>>

\* The document is there and has its listener; or it was closed before that.
DocumentLoaded(p) ==
  /\ At(p, "create")
  /\ IF document = "loading"
     THEN /\ document' = "open" /\ listening' = FALSE
          /\ Goto(p, "compute")            \* the message is the first
     ELSE End(p, "error") /\ UNCHANGED <<document, listening>>
  /\ UNCHANGED <<platform, failed, shared, orphan, restarts>>

\* pushMessage to a document that was there: its listener has removed itself with the first
\* message, and a message that nobody hears is answered with undefined.
SendToDocument(p) ==
  /\ At(p, "yes")
  /\ IF document = "open" /\ listening
     THEN Goto(p, "compute") /\ listening' = FALSE
     ELSE End(p, "undefined") /\ UNCHANGED listening
  /\ UNCHANGED <<platform, document, failed, shared, orphan, restarts>>

\* Where the zk service runs.
ZkRuns == platform = "firefox" \/ document = "open"

\* The zk service has the proof.
ProofComputed(p) ==
  /\ At(p, "compute") /\ ZkRuns
  /\ End(p, "proof")
  /\ UNCHANGED <<platform, document, listening, failed, shared, orphan, restarts>>

\* Mutant: nothing is made of the error.
ProofFailsSilently(p) ==
  /\ At(p, "compute") /\ ZkRuns
  /\ Goto(p, "close")
  /\ failed' = failed \cup {p}
  /\ UNCHANGED <<platform, document, listening, shared, orphan, restarts>>

\* The zk service throws, as when a source is out of reach or does not fit the circuit:
\* pushMessage logs that and returns undefined.
ProofFails(p) ==
  /\ At(p, "compute") /\ ZkRuns
  /\ End(p, IF platform = "firefox" THEN "error" ELSE "undefined")
  /\ failed' = failed \cup {p}
  /\ UNCHANGED <<platform, document, listening, shared, orphan, restarts>>

\* Mutant: a proof that has failed leaves the document.
CloseAfterSuccess(p) ==
  /\ At(p, "close")
  /\ IF jobs[p].out # "proof" THEN Goto(p, "done") /\ UNCHANGED <<document, orphan>>
     ELSE /\ document' = "none" /\ orphan' = FALSE
          /\ jobs' = [q \in Proofs |-> IF q = p THEN [jobs[q] EXCEPT !.pc = "done"] ELSE jobs[q]]
  /\ UNCHANGED <<platform, listening, failed, shared, restarts>>

\* The finally of a proof, closeChromeOffscreen: the document is closed under whatever it
\* computes, whose message is answered with undefined.  Without a document, and in
\* Firefox, which has no chrome.offscreen, this throws, and the page gets that error.
CloseDocument(p) ==
  /\ At(p, "close")
  /\ IF document = "none" \/ platform = "firefox"
     THEN /\ jobs' = [jobs EXCEPT ![p].pc = "done", ![p].out = "error"]
          /\ UNCHANGED <<document, orphan>>
     ELSE /\ document' = "none" /\ orphan' = FALSE
          /\ jobs' = [q \in Proofs |->
               IF q = p THEN [jobs[q] EXCEPT !.pc = "done"]
               ELSE IF At(q, "compute") THEN [jobs[q] EXCEPT !.pc = "close", !.out = "undefined"]
               ELSE jobs[q]]
  /\ UNCHANGED <<platform, listening, failed, shared, restarts>>

\* The service worker is stopped and started; Chrome keeps the document.
RestartWorker ==
  /\ restarts < MaxRestarts
  /\ restarts' = restarts + 1
  /\ jobs' = [p \in Proofs |-> IF Running(p) THEN [jobs[p] EXCEPT !.pc = "lost"] ELSE jobs[p]]
  /\ \/ document # "none" /\ document' = "open" /\ orphan' = TRUE
     \/ document # "open" /\ document' = "none" /\ UNCHANGED orphan
  /\ \/ document = "loading" /\ listening' = TRUE
     \/ UNCHANGED listening
  /\ UNCHANGED <<platform, failed, shared>>

-----------------------------------------------------------------------------

OffscreenInit ==
  /\ platform \in Platforms
  /\ document = "none" /\ listening = FALSE
  /\ jobs = [p \in Proofs |-> NoJob]
  /\ failed = {} /\ shared = {} /\ orphan = FALSE /\ restarts = 0

ProofStep(p) ==
  \/ PrepareFails(p) \/ Prepared(p)
  \/ HasDocument(p) \/ CreateDocument(p) \/ DocumentLoaded(p) \/ SendToDocument(p)
  \/ ProofComputed(p) \/ ProofFails(p) \/ CloseDocument(p)

OffscreenNext ==
  \/ \E p \in Proofs : Request(p) \/ ProofStep(p)
  \/ RestartWorker

\* The browser replies and the zk service returns.  The user need not answer.
ProofFairness == \A p \in Proofs : WF_offscreenVars(~AwaitsUser(p) /\ ProofStep(p))

OffscreenSpec == OffscreenInit /\ [][OffscreenNext]_offscreenVars /\ ProofFairness

-----------------------------------------------------------------------------
(* Properties. *)

\* On Chrome a site fails to get its proof only if the request was bad or refused, or
\* ran beside another proof, or found what a restart had left: the document is there when
\* the message is sent, it listens, and nobody closes it meanwhile.
AloneProves ==
  \A p \in Proofs : At(p, "done") /\ platform = "chrome" /\ p \notin failed \cup shared =>
    jobs[p].out = "proof"

\* The document does not outlive the proofs, in any overlap of creations, failures and
\* closings, unless a restart has dropped the proof that would close it.
DocumentIsClosed == document # "none" => orphan \/ \E p \in Proofs : Running(p)

\* Every proof that the user has approved, or need not, is answered, unless the worker is
\* stopped: no proof waits for a document that another one, or a worker that is gone, holds,
\* and closing the document answers what is computed in it (createChromeOffscreen,
\* pushMessage and the finally of a proof).
ProofsReturn ==
  \A p \in Proofs : Running(p) /\ ~AwaitsUser(p) ~> jobs[p].pc \in {"done", "lost"}

\* "should generate semaphore proof properly on firefox platform browsers"
FirefoxProves ==
  \A p \in Proofs : At(p, "done") /\ platform = "firefox" /\ p \notin failed => jobs[p].out = "proof"
=============================================================================
