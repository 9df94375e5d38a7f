-------------------------- MODULE OffscreenProofs --------------------------
(***************************************************************************)
(* Proofs about Offscreen, for every set of proofs and any number of       *)
(* restarts.  AloneProves is not inductive: a proof that nobody disturbs   *)
(* succeeds because it knows, at each await, what the document is.         *)
(***************************************************************************)
EXTENDS Offscreen, TLAPS

\* Firefox never comes near a document.
NoDocumentOnFirefox ==
  platform = "firefox" =>
    document = "none" /\ \A p \in Proofs : jobs[p].pc \notin {"has", "yes", "no", "create"}

\* The history `shared' misses nobody who runs beside another, or after an orphan.
SharersAreKnown ==
  /\ \A p, q \in Proofs : p # q /\ Running(p) /\ Running(q) => p \in shared
  /\ orphan => \A p \in Proofs : Running(p) => p \in shared

\* What a proof that shares the document with nobody knows of it, and what it got.
AloneKnows ==
  platform = "chrome" => \A p \in Proofs \ shared :
    /\ jobs[p].pc \in {"prepare", "has", "no"} => document = "none"
    /\ jobs[p].pc # "yes"
    /\ jobs[p].pc = "create" => document = "loading"
    /\ jobs[p].pc = "compute" => document = "open"
    /\ jobs[p].pc = "close" /\ p \notin failed => document = "open"
    /\ jobs[p].pc \in {"close", "done"} /\ p \notin failed => jobs[p].out = "proof"

OffscreenInv ==
  /\ OffscreenTypeOK
  /\ DocumentIsClosed
  /\ NoDocumentOnFirefox
  /\ SharersAreKnown
  /\ AloneKnows

-----------------------------------------------------------------------------
(* Types. *)

Pcs == {"idle", "prepare", "has", "yes", "no", "create", "compute", "close", "done", "lost"}
Job == [pc: Pcs, valid: BOOLEAN, out: Outcomes]

JobsTypeOK ==
  /\ jobs \in [Proofs -> Job]
  /\ \A p \in Proofs : jobs[p].pc \in {"close", "done"} => jobs[p].out # "none"

\* What Goto and End leave: the proof p where it was sent, and the others as they were.
Moved(p, pc, out) ==
  /\ jobs'[p].pc = pc /\ jobs'[p].out = out
  /\ \A q \in Proofs \ {p} : jobs'[q] = jobs[q]

LEMMA GotoMoves ==
  ASSUME JobsTypeOK, NEW p \in Proofs, NEW pc \in Pcs, Goto(p, pc),
         pc \in {"close", "done"} => jobs[p].out # "none"
  PROVE  JobsTypeOK' /\ Moved(p, pc, jobs[p].out)
<1>1. jobs' \in [Proofs -> Job]
  BY DEF Goto, JobsTypeOK, Job
<1>2. Moved(p, pc, jobs[p].out)
  BY DEF Goto, JobsTypeOK, Job, Moved
<1>3. QED
  BY <1>1, <1>2 DEF JobsTypeOK, Moved

LEMMA EndMoves ==
  ASSUME JobsTypeOK, NEW p \in Proofs, NEW out \in Outcomes \ {"none"}, End(p, out)
  PROVE  JobsTypeOK' /\ Moved(p, "close", out)
<1>1. jobs' \in [Proofs -> Job]
  BY DEF End, JobsTypeOK, Job, Pcs
<1>2. Moved(p, "close", out)
  BY DEF End, JobsTypeOK, Job, Moved, Pcs
<1>3. QED
  BY <1>1, <1>2 DEF JobsTypeOK, Moved

-----------------------------------------------------------------------------
(* One lemma per action: the job moves, and then one step per conjunct. *)

LEMMA TypedJobs == OffscreenTypeOK => JobsTypeOK
  BY DEF OffscreenTypeOK, JobsTypeOK, Job, Pcs

LEMMA PrepareFailsKeeps ==
  ASSUME OffscreenInv, NEW p \in Proofs, PrepareFails(p)
  PROVE  OffscreenInv'
<1>1. /\ JobsTypeOK'
      /\ Moved(p, "close", "error")
  BY TypedJobs, EndMoves DEF OffscreenInv, PrepareFails, Pcs, Outcomes
<1>2. OffscreenTypeOK'
  BY <1>1 DEF OffscreenInv, PrepareFails, OffscreenTypeOK, JobsTypeOK, Job, Pcs
<1>3. DocumentIsClosed'
  BY <1>1 DEF OffscreenInv, DocumentIsClosed, PrepareFails, At, Running, Moved
<1>4. NoDocumentOnFirefox'
  BY <1>1 DEF OffscreenInv, NoDocumentOnFirefox, PrepareFails, At, Moved
<1>5. SharersAreKnown'
  BY <1>1 DEF OffscreenInv, SharersAreKnown, PrepareFails, At, Running, Moved
<1>6. AloneKnows'
  BY <1>1 DEF OffscreenInv, OffscreenTypeOK, SharersAreKnown, AloneKnows, PrepareFails, At,
              Running, Moved
<1>7. QED
  BY <1>2, <1>3, <1>4, <1>5, <1>6 DEF OffscreenInv

LEMMA PreparedKeeps ==
  ASSUME OffscreenInv, NEW p \in Proofs, Prepared(p)
  PROVE  OffscreenInv'
<1>1. /\ JobsTypeOK'
      /\ Moved(p, IF platform = "firefox" THEN "compute" ELSE "has", jobs[p].out)
  BY TypedJobs, GotoMoves DEF OffscreenInv, Prepared, AwaitsUser, Pcs, Outcomes
<1>2. OffscreenTypeOK'
  BY <1>1 DEF OffscreenInv, Prepared, AwaitsUser, OffscreenTypeOK, JobsTypeOK, Job, Pcs
<1>3. DocumentIsClosed'
  BY <1>1 DEF OffscreenInv, DocumentIsClosed, Prepared, AwaitsUser, At, Running, Moved
<1>4. NoDocumentOnFirefox'
  BY <1>1 DEF OffscreenInv, NoDocumentOnFirefox, Prepared, AwaitsUser, At, Moved
<1>5. SharersAreKnown'
  BY <1>1 DEF OffscreenInv, SharersAreKnown, Prepared, AwaitsUser, At, Running, Moved
<1>6. AloneKnows'
  BY <1>1 DEF OffscreenInv, OffscreenTypeOK, SharersAreKnown, AloneKnows, Prepared, AwaitsUser, At,
              Running, Moved
<1>7. QED
  BY <1>2, <1>3, <1>4, <1>5, <1>6 DEF OffscreenInv

LEMMA HasDocumentKeeps ==
  ASSUME OffscreenInv, NEW p \in Proofs, HasDocument(p)
  PROVE  OffscreenInv'
<1>1. /\ JobsTypeOK'
      /\ \/ document # "none" /\ Moved(p, "yes", jobs[p].out)
         \/ document # "open" /\ Moved(p, "no", jobs[p].out)
  BY TypedJobs, GotoMoves DEF OffscreenInv, HasDocument, Pcs, Outcomes
<1>2. OffscreenTypeOK'
  BY <1>1 DEF OffscreenInv, HasDocument, OffscreenTypeOK, JobsTypeOK, Job, Pcs
<1>3. DocumentIsClosed'
  BY <1>1 DEF OffscreenInv, DocumentIsClosed, HasDocument, At, Running, Moved
<1>4. NoDocumentOnFirefox'
  BY <1>1 DEF OffscreenInv, NoDocumentOnFirefox, HasDocument, At, Moved
<1>5. SharersAreKnown'
  BY <1>1 DEF OffscreenInv, SharersAreKnown, HasDocument, At, Running, Moved
<1>6. AloneKnows'
  BY <1>1 DEF OffscreenInv, OffscreenTypeOK, SharersAreKnown, AloneKnows, HasDocument, At,
              Running, Moved
<1>7. QED
  BY <1>2, <1>3, <1>4, <1>5, <1>6 DEF OffscreenInv

LEMMA CreateDocumentKeeps ==
  ASSUME OffscreenInv, NEW p \in Proofs, CreateDocument(p)
  PROVE  OffscreenInv'
<1>1. /\ JobsTypeOK'
      /\ \/ document = "none" /\ Moved(p, "create", jobs[p].out)
         \/ document # "none" /\ Moved(p, "close", "error")
  BY TypedJobs, GotoMoves, EndMoves DEF OffscreenInv, CreateDocument, Pcs, Outcomes
<1>2. OffscreenTypeOK'
  BY <1>1 DEF OffscreenInv, CreateDocument, OffscreenTypeOK, JobsTypeOK, Job, Pcs
<1>3. DocumentIsClosed'
  BY <1>1 DEF OffscreenInv, DocumentIsClosed, CreateDocument, At, Running, Moved
<1>4. NoDocumentOnFirefox'
  BY <1>1 DEF OffscreenInv, NoDocumentOnFirefox, CreateDocument, At, Moved
<1>5. SharersAreKnown'
  BY <1>1 DEF OffscreenInv, SharersAreKnown, CreateDocument, At, Running, Moved
<1>6. AloneKnows'
  BY <1>1 DEF OffscreenInv, OffscreenTypeOK, SharersAreKnown, AloneKnows, CreateDocument, At,
              Running, Moved
<1>7. QED
  BY <1>2, <1>3, <1>4, <1>5, <1>6 DEF OffscreenInv

LEMMA DocumentLoadedKeeps ==
  ASSUME OffscreenInv, NEW p \in Proofs, DocumentLoaded(p)
  PROVE  OffscreenInv'
<1>1. /\ JobsTypeOK'
      /\ \/ document = "loading" /\ Moved(p, "compute", jobs[p].out)
         \/ document # "loading" /\ Moved(p, "close", "error")
  BY TypedJobs, GotoMoves, EndMoves DEF OffscreenInv, DocumentLoaded, Pcs, Outcomes
<1>2. OffscreenTypeOK'
  BY <1>1 DEF OffscreenInv, DocumentLoaded, OffscreenTypeOK, JobsTypeOK, Job, Pcs
<1>3. DocumentIsClosed'
  BY <1>1 DEF OffscreenInv, DocumentIsClosed, DocumentLoaded, At, Running, Moved
<1>4. NoDocumentOnFirefox'
  BY <1>1 DEF OffscreenInv, NoDocumentOnFirefox, DocumentLoaded, At, Moved
<1>5. SharersAreKnown'
  BY <1>1 DEF OffscreenInv, SharersAreKnown, DocumentLoaded, At, Running, Moved
<1>6. AloneKnows'
  BY <1>1 DEF OffscreenInv, OffscreenTypeOK, SharersAreKnown, AloneKnows, DocumentLoaded, At,
              Running, Moved
<1>7. QED
  BY <1>2, <1>3, <1>4, <1>5, <1>6 DEF OffscreenInv

LEMMA SendToDocumentKeeps ==
  ASSUME OffscreenInv, NEW p \in Proofs, SendToDocument(p)
  PROVE  OffscreenInv'
<1>1. /\ JobsTypeOK'
      /\ \/ document = "open" /\ Moved(p, "compute", jobs[p].out)
         \/ Moved(p, "close", "undefined")
  BY TypedJobs, GotoMoves, EndMoves DEF OffscreenInv, SendToDocument, Pcs, Outcomes
<1>2. OffscreenTypeOK'
  BY <1>1 DEF OffscreenInv, SendToDocument, OffscreenTypeOK, JobsTypeOK, Job, Pcs
<1>3. DocumentIsClosed'
  BY <1>1 DEF OffscreenInv, DocumentIsClosed, SendToDocument, At, Running, Moved
<1>4. NoDocumentOnFirefox'
  BY <1>1 DEF OffscreenInv, NoDocumentOnFirefox, SendToDocument, At, Moved
<1>5. SharersAreKnown'
  BY <1>1 DEF OffscreenInv, SharersAreKnown, SendToDocument, At, Running, Moved
<1>6. AloneKnows'
  BY <1>1 DEF OffscreenInv, OffscreenTypeOK, SharersAreKnown, AloneKnows, SendToDocument, At,
              Running, Moved
<1>7. QED
  BY <1>2, <1>3, <1>4, <1>5, <1>6 DEF OffscreenInv

LEMMA ProofComputedKeeps ==
  ASSUME OffscreenInv, NEW p \in Proofs, ProofComputed(p)
  PROVE  OffscreenInv'
<1>1. /\ JobsTypeOK'
      /\ Moved(p, "close", "proof")
  BY TypedJobs, EndMoves DEF OffscreenInv, ProofComputed, ZkRuns, Pcs, Outcomes
<1>2. OffscreenTypeOK'
  BY <1>1 DEF OffscreenInv, ProofComputed, ZkRuns, OffscreenTypeOK, JobsTypeOK, Job, Pcs
<1>3. DocumentIsClosed'
  BY <1>1 DEF OffscreenInv, DocumentIsClosed, ProofComputed, ZkRuns, At, Running, Moved
<1>4. NoDocumentOnFirefox'
  BY <1>1 DEF OffscreenInv, NoDocumentOnFirefox, ProofComputed, ZkRuns, At, Moved
<1>5. SharersAreKnown'
  BY <1>1 DEF OffscreenInv, SharersAreKnown, ProofComputed, ZkRuns, At, Running, Moved
<1>6. AloneKnows'
  BY <1>1 DEF OffscreenInv, OffscreenTypeOK, SharersAreKnown, AloneKnows, ProofComputed, ZkRuns, At,
              Running, Moved
<1>7. QED
  BY <1>2, <1>3, <1>4, <1>5, <1>6 DEF OffscreenInv

LEMMA ProofFailsKeeps ==
  ASSUME OffscreenInv, NEW p \in Proofs, ProofFails(p)
  PROVE  OffscreenInv'
<1>1. /\ JobsTypeOK'
      /\ Moved(p, "close", IF platform = "firefox" THEN "error" ELSE "undefined")
  BY TypedJobs, EndMoves DEF OffscreenInv, ProofFails, ZkRuns, Pcs, Outcomes
<1>2. OffscreenTypeOK'
  BY <1>1 DEF OffscreenInv, ProofFails, ZkRuns, OffscreenTypeOK, JobsTypeOK, Job, Pcs
<1>3. DocumentIsClosed'
  BY <1>1 DEF OffscreenInv, DocumentIsClosed, ProofFails, ZkRuns, At, Running, Moved
<1>4. NoDocumentOnFirefox'
  BY <1>1 DEF OffscreenInv, NoDocumentOnFirefox, ProofFails, ZkRuns, At, Moved
<1>5. SharersAreKnown'
  BY <1>1 DEF OffscreenInv, SharersAreKnown, ProofFails, ZkRuns, At, Running, Moved
<1>6. AloneKnows'
  BY <1>1 DEF OffscreenInv, OffscreenTypeOK, SharersAreKnown, AloneKnows, ProofFails, ZkRuns, At,
              Running, Moved
<1>7. QED
  BY <1>2, <1>3, <1>4, <1>5, <1>6 DEF OffscreenInv

LEMMA RequestKeeps ==
  ASSUME OffscreenInv, NEW p \in Proofs, Request(p)
  PROVE  OffscreenInv'
<1> DEFINE others == {q \in Proofs \ {p} : Running(q)}
<1>1. PICK source \in Sources :
        jobs' = [jobs EXCEPT ![p].pc = "prepare", ![p].valid = IsValidSource(source)]
  BY DEF Request
<1>2. IsValidSource(source) \in BOOLEAN
  BY DEF IsValidSource, IsWholeProof
<1>3. JobsTypeOK
  BY TypedJobs DEF OffscreenInv
<1>4. jobs' \in [Proofs -> Job] /\ Moved(p, "prepare", jobs[p].out)
  BY <1>1, <1>2, <1>3 DEF JobsTypeOK, Job, Pcs, Moved
<1>5. /\ shared' \subseteq Proofs /\ shared \subseteq shared'
      /\ others # {} => shared' = shared \cup others \cup {p}
      /\ orphan => p \in shared'
  BY DEF Request, OffscreenInv, OffscreenTypeOK
<1>6. OffscreenTypeOK'
  BY <1>3, <1>4, <1>5 DEF OffscreenInv, Request, OffscreenTypeOK, JobsTypeOK, Job, Pcs, Moved
<1>7. DocumentIsClosed'
  BY <1>4 DEF OffscreenInv, DocumentIsClosed, Request, At, Running, Moved
<1>8. NoDocumentOnFirefox'
  BY <1>4 DEF OffscreenInv, NoDocumentOnFirefox, Request, At, Moved
<1>9. SharersAreKnown'
  BY <1>4, <1>5 DEF OffscreenInv, SharersAreKnown, Request, At, Running, Moved
<1>10. p \notin shared' => document = "none"
  BY <1>5 DEF OffscreenInv, OffscreenTypeOK, DocumentIsClosed, Request, At, Running
<1>11. AloneKnows'
  BY <1>4, <1>5, <1>10 DEF OffscreenInv, AloneKnows, Request, At, Moved
<1>12. QED
  BY <1>6, <1>7, <1>8, <1>9, <1>11 DEF OffscreenInv

LEMMA CloseDocumentKeeps ==
  ASSUME OffscreenInv, NEW p \in Proofs, CloseDocument(p)
  PROVE  OffscreenInv'
<1>1. JobsTypeOK
  BY TypedJobs DEF OffscreenInv
<1>2. /\ JobsTypeOK'
      /\ jobs'[p].pc = "done"
      /\ \A q \in Proofs \ {p} : \/ jobs'[q] = jobs[q]
                                 \/ /\ jobs[q].pc = "compute" /\ jobs'[q].pc = "close"
                                    /\ document # "none" /\ platform # "firefox"
  <2>1. CASE document = "none" \/ platform = "firefox"
    <3>1. jobs' = [jobs EXCEPT ![p].pc = "done", ![p].out = "error"]
      BY <2>1 DEF CloseDocument
    <3>2. jobs' \in [Proofs -> Job]
      BY <1>1, <3>1 DEF JobsTypeOK, Job, Pcs, Outcomes
    <3>3. /\ jobs'[p].pc = "done" /\ jobs'[p].out = "error"
          /\ \A q \in Proofs \ {p} : jobs'[q] = jobs[q]
      BY <1>1, <3>1 DEF JobsTypeOK, Job
    <3>4. QED
      BY <1>1, <3>2, <3>3 DEF JobsTypeOK
  <2>2. CASE ~(document = "none" \/ platform = "firefox")
    <3>1. jobs' = [q \in Proofs |->
                    IF q = p THEN [jobs[q] EXCEPT !.pc = "done"]
                    ELSE IF At(q, "compute") THEN [jobs[q] EXCEPT !.pc = "close", !.out = "undefined"]
                    ELSE jobs[q]]
      BY <2>2 DEF CloseDocument
    <3>2. jobs' \in [Proofs -> Job]
      BY <1>1, <3>1 DEF JobsTypeOK, Job, Pcs, Outcomes
    <3>3. jobs'[p].pc = "done" /\ jobs'[p].out = jobs[p].out /\ jobs[p].pc = "close"
      BY <1>1, <3>1 DEF CloseDocument, At, JobsTypeOK, Job
    <3>4. \A q \in Proofs \ {p} :
            \/ jobs'[q] = jobs[q]
            \/ jobs[q].pc = "compute" /\ jobs'[q].pc = "close" /\ jobs'[q].out = "undefined"
      BY <1>1, <3>1 DEF At, JobsTypeOK, Job
    <3>5. QED
      BY <1>1, <2>2, <3>2, <3>3, <3>4 DEF JobsTypeOK
  <2>3. QED
    BY <2>1, <2>2
<1>3. document' = "none" \/ (platform = "firefox" /\ UNCHANGED document)
  BY DEF CloseDocument
<1>4. OffscreenTypeOK'
  BY <1>2, <1>3 DEF OffscreenInv, CloseDocument, OffscreenTypeOK, JobsTypeOK, Job, Pcs
<1>5. DocumentIsClosed'
  BY <1>3 DEF OffscreenInv, NoDocumentOnFirefox, DocumentIsClosed
<1>6. NoDocumentOnFirefox'
  BY <1>2, <1>3 DEF OffscreenInv, NoDocumentOnFirefox, CloseDocument
<1>7. SharersAreKnown'
  BY <1>2 DEF OffscreenInv, SharersAreKnown, CloseDocument, At, Running
<1>8. ASSUME platform = "chrome", NEW q \in Proofs \ shared
      PROVE  jobs'[q] = jobs[q] \/ (q = p /\ (p \notin failed => jobs'[p].out = "proof"))
  <2>1. CASE q # p
    BY <1>2, <1>8, <2>1 DEF OffscreenInv, SharersAreKnown, CloseDocument, At, Running
  <2>2. CASE q = p
    BY <1>1, <1>8, <2>2 DEF OffscreenInv, AloneKnows, CloseDocument, At, Goto, JobsTypeOK, Job
  <2>3. QED
    BY <2>1, <2>2
<1>9. AloneKnows'
  BY <1>2, <1>8 DEF OffscreenInv, AloneKnows, SharersAreKnown, CloseDocument, At, Running
<1>10. QED
  BY <1>4, <1>5, <1>6, <1>7, <1>9 DEF OffscreenInv

LEMMA RestartKeeps ==
  ASSUME OffscreenInv, RestartWorker
  PROVE  OffscreenInv'
<1>1. JobsTypeOK
  BY TypedJobs DEF OffscreenInv
<1>2. /\ JobsTypeOK'
      /\ \A p \in Proofs : IF Running(p) THEN jobs'[p].pc = "lost" ELSE jobs'[p] = jobs[p]
  BY <1>1 DEF RestartWorker, JobsTypeOK, Job, Pcs, Running
<1>3. restarts' \in 0..MaxRestarts
  BY OffscreenAssumption DEF RestartWorker, OffscreenInv, OffscreenTypeOK
<1>4. OffscreenTypeOK'
  BY <1>2, <1>3 DEF OffscreenInv, RestartWorker, OffscreenTypeOK, JobsTypeOK, Job, Pcs
<1>5. DocumentIsClosed'
  BY DEF RestartWorker, DocumentIsClosed
<1>6. NoDocumentOnFirefox'
  BY <1>2 DEF OffscreenInv, NoDocumentOnFirefox, RestartWorker
<1>7. \A p \in Proofs : ~Running(p)'
  BY <1>2 DEF Running
<1>8. SharersAreKnown'
  BY <1>7 DEF SharersAreKnown
<1>9. AloneKnows'
  BY <1>2, <1>7 DEF OffscreenInv, AloneKnows, RestartWorker, Running
<1>10. QED
  BY <1>4, <1>5, <1>6, <1>8, <1>9 DEF OffscreenInv

-----------------------------------------------------------------------------
(* The invariant and what follows from it. *)

LEMMA InitHasInv == OffscreenInit => OffscreenInv
<1> SUFFICES ASSUME OffscreenInit
             PROVE  OffscreenInv
  OBVIOUS
<1>1. NoJob \in Job
  BY DEF NoJob, Job, Pcs, Outcomes
<1>2. jobs \in [Proofs -> Job] /\ \A p \in Proofs : jobs[p].pc = "idle"
  BY <1>1 DEF OffscreenInit, NoJob
<1>3. restarts \in 0..MaxRestarts
  BY OffscreenAssumption DEF OffscreenInit
<1>4. OffscreenTypeOK
  BY <1>2, <1>3 DEF OffscreenInit, OffscreenTypeOK, Job, Pcs
<1>5. DocumentIsClosed /\ NoDocumentOnFirefox /\ SharersAreKnown /\ AloneKnows
  BY <1>2 DEF OffscreenInit, DocumentIsClosed, NoDocumentOnFirefox, SharersAreKnown, AloneKnows,
              Running
<1>6. QED
  BY <1>4, <1>5 DEF OffscreenInv

LEMMA NextKeepsInv == OffscreenInv /\ [OffscreenNext]_offscreenVars => OffscreenInv'
<1> SUFFICES ASSUME OffscreenInv, [OffscreenNext]_offscreenVars
             PROVE  OffscreenInv'
  OBVIOUS
<1>1. ASSUME NEW p \in Proofs, ProofStep(p)
      PROVE  OffscreenInv'
  BY <1>1, PrepareFailsKeeps, PreparedKeeps, HasDocumentKeeps, CreateDocumentKeeps,
     DocumentLoadedKeeps, SendToDocumentKeeps, ProofComputedKeeps, ProofFailsKeeps,
     CloseDocumentKeeps DEF ProofStep
<1>2. CASE UNCHANGED offscreenVars
  BY <1>2 DEF offscreenVars, OffscreenInv, OffscreenTypeOK, DocumentIsClosed,
              NoDocumentOnFirefox, SharersAreKnown, AloneKnows, Running
<1>3. QED
  BY <1>1, <1>2, RequestKeeps, RestartKeeps DEF OffscreenNext

\* A proof knows at each of its awaits what the document is, if nobody else has one in
\* progress and no restart has left a document behind.
THEOREM OffscreenInvHolds == OffscreenSpec => []OffscreenInv
<1>1. QED
  BY InitHasInv, NextKeepsInv, PTL DEF OffscreenSpec

\* Jobs, document and histories are well formed.
THEOREM OffscreenTypesHold == OffscreenSpec => []OffscreenTypeOK
<1>1. OffscreenInv => OffscreenTypeOK
  BY DEF OffscreenInv
<1>2. QED
  BY <1>1, OffscreenInvHolds, PTL

\* createChromeOffscreen and closeChromeOffscreen, whose calls nothing orders, leave no
\* document behind when the last proof is over, unless a restart has dropped a proof.
THEOREM DocumentGetsClosed == OffscreenSpec => []DocumentIsClosed
<1>1. OffscreenInv => DocumentIsClosed
  BY DEF OffscreenInv
<1>2. QED
  BY <1>1, OffscreenInvHolds, PTL

\* On Chrome a site that asks for a proof nobody refuses, beside no other, gets it.
THEOREM AloneAlwaysProves == OffscreenSpec => []AloneProves
<1>1. OffscreenInv => AloneProves
  BY DEF OffscreenInv, AloneKnows, AloneProves, At
<1>2. QED
  BY <1>1, OffscreenInvHolds, PTL
=============================================================================
