------------------------ MODULE DocumentIngestion_proofs -----------------------
(***************************************************************************)
(* Proofs about DocumentIngestion, for every set of rows and sweeps, every *)
(* number of pages and every bound on faults.                              *)
(***************************************************************************)
EXTENDS DocumentIngestion, FiniteSetTheorems, TLAPS

--------------------------------------------------------------------------------
(* Types.                                                                  *)

\* A row reserved or inserted by a resume request has a page to resume from;
\* without it resume_from_page - 1 could leave the range of items_processed.
ResumeHasCheckpoint == \A k \in Jobs : kind[k] = "resume" => resumeFrom[k] >= 1

\* A sweep past its staleness check is working on a row.
SweepHasTarget == \A s \in Sweepers : sweep[s] \in {"stale", "marked", "starting"}
                                          => target[s] \in Jobs

TypeInv == TypeOK /\ ResumeHasCheckpoint /\ SweepHasTarget

LEMMA AfterFailureType == \A j : AfterFailure(j) \in {"processing", "queued", "failed"}
  BY DEF AfterFailure

LEMMA StageOfType == \A d \in DocStatuses : StageOf(d) \in Stages
  BY DEF StageOf, DocStatuses, Stages

LEMMA ReserveType ==
  ASSUME TypeInv, NEW k \in Jobs, NEW what \in {"retry", "resume"},
         NEW j \in Jobs, NEW who \in Sweepers \cup {"api"}, NEW from \in 0..NumPages,
         what = "resume" => from >= 1,
         Reserve(k, what, j, who, from)
  PROVE  /\ phase' \in [Jobs -> Phases] /\ kind' \in [Jobs -> Kinds]
         /\ source' \in [Jobs -> Jobs \cup {NoJob}]
         /\ owner' \in [Jobs -> Sweepers \cup {"api"}]
         /\ resumeFrom' \in [Jobs -> 0..NumPages]
         /\ ResumeHasCheckpoint'
  BY DEF TypeInv, TypeOK, ResumeHasCheckpoint, Reserve, Phases, Kinds

LEMMA RequestType ==
  ASSUME TypeInv, NEW k \in Jobs, Request(k)
  PROVE  TypeInv'
<1> USE NumPagesAssumption, LimitAssumption
<1> USE DEF TypeInv, TypeOK, contentVars, sweepVars, rowVars, SweepHasTarget
<1>1. CASE Upload(k)
  BY <1>1 DEF Upload, ResumeHasCheckpoint, DocStatuses, Stages, JobStatuses, Kinds, Phases
<1>2. ASSUME NEW j \in Jobs, RetryCheck(j, k) PROVE TypeInv'
  <2>1. 0 \in 0..NumPages
    OBVIOUS
  <2> QED
    BY <1>2, <2>1, ReserveType DEF RetryCheck
<1>3. ASSUME NEW j \in Jobs, ResumeCheck(j, k) PROVE TypeInv'
  BY <1>3, ReserveType DEF ResumeCheck, ResumePage
<1>4. CASE RejectStart(k)
  BY <1>4 DEF RejectStart, Fault, ResumeHasCheckpoint, Kinds, Phases
<1>5. CASE RetryCommit(k)
  BY <1>5 DEF RetryCommit, RowTouched, ResumeHasCheckpoint, DocStatuses, JobStatuses, Phases, Idleness
<1>6. CASE ResumeCommit(k)
  BY <1>6 DEF ResumeCommit, ResumeHasCheckpoint, DocStatuses, JobStatuses, Phases
<1>7. CASE Enqueue(k)
  BY <1>7 DEF Enqueue, ResumeHasCheckpoint, Phases
<1>8. CASE MarkQueued(k)
  BY <1>8 DEF MarkQueued, ResumeHasCheckpoint, DocStatuses, Phases
<1>9. CASE SyncQueued(k)
  BY <1>9, StageOfType DEF SyncQueued, ResumeHasCheckpoint, Phases
<1>10. CASE StartFails(k)
  BY <1>10, AfterFailureType
  DEF StartFails, Fault, ResumeHasCheckpoint, NewEvent, DocStatuses, JobStatuses, Phases, Idleness
<1>11. CASE AbandonRequest(k)
  BY <1>11 DEF AbandonRequest, Fault, ResumeHasCheckpoint, Phases
<1> QED
  BY <1>1, <1>2, <1>3, <1>4, <1>5, <1>6, <1>7, <1>8, <1>9, <1>10, <1>11 DEF Request

LEMMA PublishedType ==
  ASSUME TypeInv, NEW counts \in [PageNumbers -> Nat]
  PROVE  Published(counts) \in [PageNumbers -> Nat]
  BY DEF Published, TypeInv, TypeOK

LEMMA WorkerType ==
  ASSUME TypeInv, NEW j \in Jobs, Worker(j)
  PROVE  TypeInv'
<1> USE NumPagesAssumption, LimitAssumption
<1> USE DEF TypeInv, TypeOK, contentVars, sweepVars, rowVars, ResumeHasCheckpoint,
           SweepHasTarget
<1>1. CASE Start(j)
  BY <1>1, StageOfType DEF Start, InitialProcessed, IsResumeJob, NewEvent,
     DocStatuses, JobStatuses, RunStates, Working, Idleness
<1>2. CASE Download(j)
  BY <1>2 DEF Download, NewEvent, RunStates, Working, Idleness
<1>3. CASE Prepare(j)
  <2>1. InitialProcessed(j) \in 0..NumPages
    BY DEF InitialProcessed, IsResumeJob
  <2>2. pages' \subseteq PageNumbers /\ slice' \in [PageNumbers -> Nat]
    BY <1>3 DEF Prepare
  <2>3. global' \in [PageNumbers -> Nat]
    BY <1>3, <2>2, PublishedType DEF Prepare
  <2>4. idle' \in [Jobs -> Idleness]
    BY <1>3 DEF Prepare, RowTouched, Idleness
  <2> QED
    BY <1>3, <2>1, <2>2, <2>3, <2>4 DEF Prepare, RunStates, Working
<1>4. CASE StorePage(j)
  <2>1. NextPage(j) \in PageNumbers
    BY <1>4 DEF StorePage, NextPage, PageNumbers
  <2>2. NextPage(j) \in 0..NumPages
    BY <2>1 DEF PageNumbers
  <2>3. slice' \in [PageNumbers -> Nat]
    BY <1>4, <2>1 DEF StorePage
  <2>4. run' \in [Jobs -> RunStates]
    BY <1>4 DEF StorePage, RunStates, Working
  <2>5. idle' \in [Jobs -> Idleness]
    BY <1>4 DEF StorePage, RowTouched, Idleness
  <2> QED
    BY <1>4, <2>1, <2>2, <2>3, <2>4, <2>5 DEF StorePage
<1>5. CASE SaveIndex(j)
  <2>1. slice' \in [PageNumbers -> Nat]
    BY <1>5 DEF SaveIndex
  <2>2. global' \in [PageNumbers -> Nat]
    BY <1>5, <2>1, PublishedType DEF SaveIndex
  <2> QED
    BY <1>5, <2>1, <2>2 DEF SaveIndex, NewEvent, RunStates, Working, Idleness
<1>6. CASE Finish(j)
  BY <1>6, StageOfType DEF Finish, NewEvent, DocStatuses, JobStatuses, RunStates, Idleness
<1>7. CASE FailRun(j)
  BY <1>7, AfterFailureType, StageOfType
  DEF FailRun, Fault, NewEvent, DocStatuses, JobStatuses, RunStates, Idleness
<1>8. CASE CrashRun(j)
  BY <1>8 DEF CrashRun, Fault, RunStates
<1>9. CASE LoseMessage(j)
  BY <1>9 DEF LoseMessage, Fault
<1> QED
  BY <1>1, <1>2, <1>3, <1>4, <1>5, <1>6, <1>7, <1>8, <1>9 DEF Worker

LEMMA SweepType ==
  ASSUME TypeInv, NEW s \in Sweepers, Sweep(s)
  PROVE  TypeInv'
<1> USE NumPagesAssumption, LimitAssumption
<1> USE DEF TypeInv, TypeOK, contentVars, rowVars, SweepStates, SweepHasTarget
<1>1. CASE SweepCollect(s)
  BY <1>1 DEF SweepCollect, ActiveJobs, ResumeHasCheckpoint
<1>2. ASSUME NEW j \in Jobs, SweepCheck(s, j) PROVE TypeInv'
  BY <1>2 DEF SweepCheck, NextRow, ResumeHasCheckpoint
<1>3. CASE SweepMark(s)
  BY <1>3, AfterFailureType
  DEF SweepMark, NewEvent, DocStatuses, JobStatuses, Idleness, ResumeHasCheckpoint
<1>4. CASE SweepSkip(s)
  BY <1>4 DEF SweepSkip, NextRow, ResumeHasCheckpoint
<1>5. ASSUME NEW k \in Jobs, SweepRetryCheck(s, k) PROVE TypeInv'
  <2>1. target[s] \in Jobs /\ 0 \in 0..NumPages
    BY <1>5 DEF SweepRetryCheck
  <2> QED
    BY <1>5, <2>1, ReserveType DEF SweepRetryCheck
<1>6. CASE SweepRetrySkip(s)
  BY <1>6 DEF SweepRetrySkip, NextRow, ResumeHasCheckpoint
<1>7. CASE SweepRetryDone(s)
  BY <1>7 DEF SweepRetryDone, NextRow, ResumeHasCheckpoint
<1>8. CASE CrashSweep(s)
  BY <1>8 DEF CrashSweep, Fault, Phases, Kinds, ResumeHasCheckpoint
<1> QED
  BY <1>1, <1>2, <1>3, <1>4, <1>5, <1>6, <1>7, <1>8 DEF Sweep

LEMMA TypeStep == TypeInv /\ [Next]_vars => TypeInv'
<1> SUFFICES ASSUME TypeInv, [Next]_vars PROVE TypeInv'
  OBVIOUS
<1>1. ASSUME NEW j \in Jobs, Request(j) PROVE TypeInv'
  BY <1>1, RequestType
<1>2. ASSUME NEW j \in Jobs, Worker(j) PROVE TypeInv'
  BY <1>2, WorkerType
<1>3. ASSUME NEW j \in Jobs, TimeOut(j) PROVE TypeInv'
  BY <1>3 DEF TimeOut, TypeInv, TypeOK, ResumeHasCheckpoint, SweepHasTarget, Idleness,
     rowVars, contentVars, sweepVars
<1>4. ASSUME NEW s \in Sweepers, Sweep(s) PROVE TypeInv'
  BY <1>4, SweepType
<1>5. CASE UNCHANGED vars
  BY <1>5 DEF TypeInv, TypeOK, ResumeHasCheckpoint, SweepHasTarget, vars, rowVars,
     contentVars, sweepVars
<1> QED
  BY <1>1, <1>2, <1>3, <1>4, <1>5 DEF Next

LEMMA TypeInit == Init => TypeInv
  BY NumPagesAssumption, LimitAssumption
  DEF Init, TypeInv, TypeOK, ResumeHasCheckpoint, SweepHasTarget, DocStatuses, Stages,
      JobStatuses, Kinds, Idleness, Phases, RunStates, PageNumbers, SweepStates

\* Every variable keeps to the values its column or control state can have; in
\* particular items_processed and resume_from_page stay within the document.
THEOREM TypeCorrect == Spec => []TypeOK
<1>1. TypeInv => TypeOK
  BY DEF TypeInv
<1> QED
  BY TypeInit, TypeStep, <1>1, PTL DEF Spec

--------------------------------------------------------------------------------
(* documents.status against ingestion_jobs.status.  The three invariants   *)
(* are inductive together with the types: every transaction that ends a    *)
(* job recomputes documents.status from the other jobs of the document.    *)

StatusInv == /\ FailedDocumentIsIdle
             /\ CompletedDocumentHasCompletedJob
             /\ ProcessingDocumentHasRunningJob

\* What the recomputed status says about the other jobs.
LEMMA AfterFailureMeaning ==
  ASSUME TypeOK, NEW j
  PROVE  /\ AfterFailure(j) = "processing" => \E k \in Jobs \ {j} : status[k] = "running"
         /\ AfterFailure(j) = "failed" => \A k \in Jobs \ {j} : status[k] \notin Active
         /\ AfterFailure(j) # "completed"
  BY DEF TypeOK, AfterFailure, Active

\* A transaction that fails row j and recomputes documents.status.
LEMMA FailingKeepsStatusInv ==
  ASSUME TypeOK, NEW j,
         status' = [status EXCEPT ![j] = "failed"], doc' = AfterFailure(j)
  PROVE  StatusInv'
<1>1. \A k \in Jobs : status'[k] = IF k = j THEN "failed" ELSE status[k]
  BY DEF TypeOK
<1>2. FailedDocumentIsIdle'
  BY <1>1, AfterFailureMeaning DEF FailedDocumentIsIdle, ActiveJobs, Active
<1>3. CompletedDocumentHasCompletedJob'
  BY AfterFailureMeaning DEF CompletedDocumentHasCompletedJob
<1>4. ProcessingDocumentHasRunningJob'
  BY <1>1, AfterFailureMeaning DEF ProcessingDocumentHasRunningJob
<1> QED
  BY <1>2, <1>3, <1>4 DEF StatusInv

\* A transaction that touches neither of the two columns.
LEMMA OthersKeepStatusInv ==
  ASSUME StatusInv, UNCHANGED <<doc, status>>
  PROVE  StatusInv'
  BY DEF StatusInv, FailedDocumentIsIdle, CompletedDocumentHasCompletedJob,
         ProcessingDocumentHasRunningJob, ActiveJobs

LEMMA StatusStep == TypeInv /\ StatusInv /\ [Next]_vars => StatusInv'
<1> SUFFICES ASSUME TypeInv, StatusInv, [Next]_vars PROVE StatusInv'
  OBVIOUS
<1>0. TypeOK
  BY DEF TypeInv
<1> USE DEF StatusInv, FailedDocumentIsIdle, CompletedDocumentHasCompletedJob,
            ProcessingDocumentHasRunningJob
<1>1. ASSUME NEW k \in Jobs, Request(k) PROVE StatusInv'
  <2>1. CASE Upload(k) \/ RetryCommit(k) \/ ResumeCommit(k) \/ MarkQueued(k)
    BY <2>1 DEF Upload, RetryCommit, ResumeCommit, MarkQueued
  <2>2. CASE StartFails(k)
    <3>1. CASE owner[k] = "api"
      BY <1>0, <2>2, <3>1, FailingKeepsStatusInv DEF StartFails
    <3>2. CASE owner[k] # "api"
      BY <2>2, <3>2, OthersKeepStatusInv DEF StartFails
    <3> QED
      BY <3>1, <3>2
  <2>3. CASE \E j \in Jobs : RetryCheck(j, k) \/ ResumeCheck(j, k)
    BY <2>3, OthersKeepStatusInv DEF RetryCheck, ResumeCheck
  <2>4. CASE RejectStart(k) \/ Enqueue(k) \/ SyncQueued(k) \/ AbandonRequest(k)
    BY <2>4, OthersKeepStatusInv DEF RejectStart, Enqueue, SyncQueued, AbandonRequest
  <2> QED
    BY <1>1, <2>1, <2>2, <2>3, <2>4 DEF Request
<1>2. ASSUME NEW j \in Jobs, Worker(j) PROVE StatusInv'
  <2>1. CASE Start(j)
    <3>1. status'[j] = "running" /\ doc' = "processing"
      BY <1>0, <2>1 DEF Start, TypeOK
    <3> QED
      BY <3>1
  <2>2. CASE Finish(j)
    <3>1. status'[j] = "completed" /\ doc' = "completed"
      BY <1>0, <2>2 DEF Finish, TypeOK
    <3> QED
      BY <3>1
  <2>3. CASE FailRun(j)
    BY <1>0, <2>3, FailingKeepsStatusInv DEF FailRun
  <2>4. CASE Download(j) \/ Prepare(j) \/ StorePage(j) \/ SaveIndex(j)
    BY <2>4, OthersKeepStatusInv DEF Download, Prepare, StorePage, SaveIndex
  <2>5. CASE CrashRun(j) \/ LoseMessage(j)
    BY <2>5, OthersKeepStatusInv DEF CrashRun, LoseMessage
  <2> QED
    BY <1>2, <2>1, <2>2, <2>3, <2>4, <2>5 DEF Worker
<1>3. ASSUME NEW j \in Jobs, TimeOut(j) PROVE StatusInv'
  BY <1>3, OthersKeepStatusInv DEF TimeOut
<1>4. ASSUME NEW s \in Sweepers, Sweep(s) PROVE StatusInv'
  <2>1. CASE SweepMark(s)
    BY <1>0, <2>1, FailingKeepsStatusInv DEF SweepMark
  <2>2. CASE SweepCollect(s) \/ SweepSkip(s) \/ SweepRetrySkip(s)
    BY <2>2, OthersKeepStatusInv DEF SweepCollect, SweepSkip, SweepRetrySkip
  <2>3. CASE SweepRetryDone(s) \/ CrashSweep(s)
    BY <2>3, OthersKeepStatusInv DEF SweepRetryDone, CrashSweep
  <2>4. CASE \E j \in Jobs : SweepCheck(s, j) \/ SweepRetryCheck(s, j)
    BY <2>4, OthersKeepStatusInv DEF SweepCheck, SweepRetryCheck
  <2> QED
    BY <1>4, <2>1, <2>2, <2>3, <2>4 DEF Sweep
<1>5. CASE UNCHANGED vars
  BY <1>5, OthersKeepStatusInv DEF vars
<1> QED
  BY <1>1, <1>2, <1>3, <1>4, <1>5 DEF Next

\* The status shown for a document is never one its jobs contradict: "failed"
\* with work left, "completed" with no completed job, or "processing" with no
\* running one, whatever is lost, killed, retried twice or swept too early.
THEOREM DocumentStatusIsTrue == Spec => []DocumentTellsOfItsJobs
<1>1. Init => StatusInv
  BY DEF Init, StatusInv, FailedDocumentIsIdle, CompletedDocumentHasCompletedJob,
         ProcessingDocumentHasRunningJob
<1>2. StatusInv => DocumentTellsOfItsJobs
  BY DEF StatusInv, DocumentTellsOfItsJobs
<1> QED
  BY TypeInit, TypeStep, StatusStep, <1>1, <1>2, PTL DEF Spec

--------------------------------------------------------------------------------
(* The automatic retries of a job.                                         *)

\* A retry row a sweep has inserted, and a row it has only checked for.
AutoRow(k)     == kind[k] = "retry" /\ owner[k] # "api" /\ phase[k] \notin {"none", "checked"}
CheckedAuto(k) == owner[k] # "api" /\ phase[k] = "checked"
AutoRetries(j) == {k \in Jobs : AutoRow(k) /\ source[k] = j}

\* A row about to be inserted is within the limit, and it is the only one: the
\* sweep that checked for it waits for it.
RetryInv ==
    /\ \A j \in Jobs : Cardinality(AutoRetries(j)) <= AutoRetryLimit
    /\ \A k \in Jobs : CheckedAuto(k) =>
          /\ source[k] \in Jobs => Cardinality(AutoRetries(source[k])) < AutoRetryLimit
          /\ sweep[owner[k]] = "starting"
          /\ \A l \in Jobs : CheckedAuto(l) => l = k

SweepsInTurn == SerialRequests \/ \A s, t \in Sweepers : s = t

\* A step that inserts no automatic retry and checks for none.
NoNewRetry ==
    \A k \in Jobs :
       /\ AutoRow(k)' => AutoRow(k) /\ source'[k] = source[k]
       /\ CheckedAuto(k)' => /\ CheckedAuto(k) /\ source'[k] = source[k]
                             /\ sweep'[owner'[k]] = "starting"

LEMMA AutoRetriesFinite ==
  \A j : /\ IsFiniteSet(AutoRetries(j)) /\ Cardinality(AutoRetries(j)) \in Nat
         /\ CountAutoRetries(j) \in Nat
         /\ Cardinality(AutoRetries(j)) <= CountAutoRetries(j)
<1> SUFFICES ASSUME NEW j
             PROVE  /\ IsFiniteSet(AutoRetries(j)) /\ Cardinality(AutoRetries(j)) \in Nat
                    /\ CountAutoRetries(j) \in Nat
                    /\ Cardinality(AutoRetries(j)) <= CountAutoRetries(j)
  OBVIOUS
<1>1. RetriesOf(j) \subseteq Jobs /\ AutoRetries(j) \subseteq RetriesOf(j)
  BY DEF RetriesOf, AutoRetries, AutoRow
<1>2. IsFiniteSet(RetriesOf(j))
  BY <1>1, JobsAssumption, FS_Subset
<1>3. IsFiniteSet(AutoRetries(j)) /\ Cardinality(AutoRetries(j)) <= Cardinality(RetriesOf(j))
  BY <1>1, <1>2, FS_Subset
<1> QED
  BY <1>2, <1>3, FS_CardinalityType DEF CountAutoRetries

LEMMA FewerRetries ==
  ASSUME NEW j, AutoRetries(j)' \subseteq AutoRetries(j)
  PROVE  Cardinality(AutoRetries(j)') <= Cardinality(AutoRetries(j))
  BY AutoRetriesFinite, FS_Subset

LEMMA NoNewRetryWorks == RetryInv /\ NoNewRetry => RetryInv'
<1> SUFFICES ASSUME RetryInv, NoNewRetry PROVE RetryInv'
  OBVIOUS
<1>1. \A j : AutoRetries(j)' \subseteq AutoRetries(j)
  BY DEF NoNewRetry, AutoRetries
<1>2. \A j : /\ Cardinality(AutoRetries(j)') <= Cardinality(AutoRetries(j))
             /\ Cardinality(AutoRetries(j)) \in Nat /\ Cardinality(AutoRetries(j)') \in Nat
  BY <1>1, FewerRetries, AutoRetriesFinite, FS_Subset, FS_CardinalityType
<1>3. \A j \in Jobs : Cardinality(AutoRetries(j)') <= AutoRetryLimit
  BY <1>2, LimitAssumption DEF RetryInv
<1>4. ASSUME NEW k \in Jobs, CheckedAuto(k)', source'[k] \in Jobs
      PROVE  Cardinality(AutoRetries(source[k])') < AutoRetryLimit
  <2>1. CheckedAuto(k) /\ source'[k] = source[k]
    BY <1>4 DEF NoNewRetry
  <2>2. PICK j \in Jobs : j = source[k] /\ j = source'[k]
    BY <1>4, <2>1
  <2>3. Cardinality(AutoRetries(j)) < AutoRetryLimit
    BY <2>1, <2>2 DEF RetryInv
  <2>4. Cardinality(AutoRetries(j)') < AutoRetryLimit
    BY <1>2, <2>3, LimitAssumption
  <2>5. AutoRetries(source[k])' = AutoRetries(j)'
    BY <2>2 DEF AutoRetries
  <2> QED
    BY <2>4, <2>5
<1>5. \A k \in Jobs : CheckedAuto(k)' => /\ sweep'[owner'[k]] = "starting"
                                         /\ \A l \in Jobs : CheckedAuto(l)' => l = k
  BY DEF RetryInv, NoNewRetry
<1> QED
  BY <1>3, <1>4, <1>5 DEF RetryInv

LEMMA RetryRequest ==
  ASSUME TypeOK, RetryInv, NEW k \in Jobs, Request(k), ~RetryCommit(k)
  PROVE  RetryInv'
<1> SUFFICES NoNewRetry
  BY NoNewRetryWorks
<1> USE DEF NoNewRetry, RetryInv, AutoRow, CheckedAuto, TypeOK, rowVars, sweepVars
<1>1. CASE Upload(k)
  BY <1>1 DEF Upload
<1>2. CASE \E j \in Jobs : RetryCheck(j, k) \/ ResumeCheck(j, k)
  <2>1. /\ phase[k] = "none" /\ phase' = [phase EXCEPT ![k] = "checked"]
        /\ owner' = [owner EXCEPT ![k] = "api"] /\ sweep' = sweep
        /\ \A l \in Jobs : l # k => kind'[l] = kind[l] /\ source'[l] = source[l]
    <3>1. ASSUME NEW j \in Jobs, NEW what, NEW from, Reserve(k, what, j, "api", from)
          PROVE  /\ phase[k] = "none" /\ phase' = [phase EXCEPT ![k] = "checked"]
                 /\ owner' = [owner EXCEPT ![k] = "api"]
                 /\ \A l \in Jobs : l # k => kind'[l] = kind[l] /\ source'[l] = source[l]
      BY <3>1 DEF Reserve
    <3> QED
      BY <1>2, <3>1 DEF RetryCheck, ResumeCheck
  <2>2. ~AutoRow(k)' /\ ~CheckedAuto(k)'
    BY <2>1
  <2>3. \A l \in Jobs : l # k => phase'[l] = phase[l] /\ owner'[l] = owner[l]
    BY <2>1
  <2> QED
    BY <2>1, <2>2, <2>3
<1>3. CASE RejectStart(k) \/ ResumeCommit(k)
  BY <1>3 DEF RejectStart, ResumeCommit
<1>4. CASE Enqueue(k) \/ MarkQueued(k) \/ SyncQueued(k)
  BY <1>4 DEF Enqueue, MarkQueued, SyncQueued
<1>5. CASE StartFails(k) \/ AbandonRequest(k)
  BY <1>5 DEF StartFails, AbandonRequest, Pending
<1> QED
  BY <1>1, <1>2, <1>3, <1>4, <1>5 DEF Request

\* The insert after the check: one more automatic retry of the source row.
LEMMA RetryInsert ==
  ASSUME TypeOK, RetryInv, NEW k \in Jobs, RetryCommit(k)
  PROVE  RetryInv'
<1>1. /\ phase[k] = "checked" /\ phase' = [phase EXCEPT ![k] = "created"]
      /\ UNCHANGED <<kind, source, owner, sweep>>
  BY DEF RetryCommit, rowVars, sweepVars
<1>2. CASE owner[k] = "api"
  BY <1>1, <1>2, NoNewRetryWorks DEF NoNewRetry, RetryInv, AutoRow, CheckedAuto, TypeOK
<1>3. CASE owner[k] # "api"
  <2>1. CheckedAuto(k)
    BY <1>1, <1>3 DEF CheckedAuto
  <2>2. \A l \in Jobs : ~CheckedAuto(l)'
    BY <1>1, <2>1 DEF RetryInv, CheckedAuto, TypeOK
  <2>3. \A l \in Jobs : l # k => (AutoRow(l)' <=> AutoRow(l)) /\ source'[l] = source[l]
    BY <1>1 DEF AutoRow, TypeOK
  <2>4. ASSUME NEW j \in Jobs PROVE Cardinality(AutoRetries(j)') <= AutoRetryLimit
    <3>0. Cardinality(AutoRetries(j)) \in Nat /\ Cardinality(AutoRetries(j)) <= AutoRetryLimit
      BY AutoRetriesFinite DEF RetryInv
    <3>1. CASE j = source[k]
      <4>1. Cardinality(AutoRetries(j)) < AutoRetryLimit
        BY <2>1, <3>1 DEF RetryInv
      <4>2. AutoRetries(j)' \subseteq AutoRetries(j) \cup {k}
        BY <2>3 DEF AutoRetries
      <4>3. /\ IsFiniteSet(AutoRetries(j) \cup {k})
            /\ Cardinality(AutoRetries(j) \cup {k}) <= Cardinality(AutoRetries(j)) + 1
        <5>1. IsFiniteSet(AutoRetries(j))
          BY AutoRetriesFinite
        <5>2. /\ IsFiniteSet(AutoRetries(j) \cup {k})
              /\ Cardinality(AutoRetries(j) \cup {k}) = IF k \in AutoRetries(j)
                   THEN Cardinality(AutoRetries(j)) ELSE Cardinality(AutoRetries(j)) + 1
          BY <5>1, FS_AddElement
        <5> QED
          BY <3>0, <5>2
      <4>4. Cardinality(AutoRetries(j)') <= Cardinality(AutoRetries(j) \cup {k})
        BY <4>2, <4>3, FS_Subset
      <4>5. Cardinality(AutoRetries(j)') \in Nat /\ Cardinality(AutoRetries(j) \cup {k}) \in Nat
        BY <4>2, <4>3, FS_Subset, FS_CardinalityType
      <4> QED
        BY <3>0, <4>1, <4>3, <4>4, <4>5, LimitAssumption
    <3>2. CASE j # source[k]
      <4>1. AutoRetries(j)' = AutoRetries(j)
        BY <1>1, <2>3, <3>2 DEF AutoRetries, AutoRow, TypeOK
      <4> QED
        BY <3>0, <4>1
    <3> QED
      BY <3>1, <3>2
  <2> QED
    BY <2>2, <2>4 DEF RetryInv
<1> QED
  BY <1>2, <1>3

LEMMA RetryWorker ==
  ASSUME TypeOK, RetryInv, NEW j \in Jobs, Worker(j) \/ TimeOut(j)
  PROVE  RetryInv'
<1> SUFFICES UNCHANGED <<kind, source, owner, phase, sweep>>
  BY NoNewRetryWorks DEF NoNewRetry, RetryInv, AutoRow, CheckedAuto
<1> USE DEF rowVars, sweepVars
<1>1. CASE Start(j) \/ Download(j) \/ Prepare(j) \/ StorePage(j)
  BY <1>1 DEF Start, Download, Prepare, StorePage
<1>2. CASE SaveIndex(j) \/ Finish(j) \/ FailRun(j)
  BY <1>2 DEF SaveIndex, Finish, FailRun
<1>3. CASE CrashRun(j) \/ LoseMessage(j) \/ TimeOut(j)
  BY <1>3 DEF CrashRun, LoseMessage, TimeOut
<1> QED
  BY <1>1, <1>2, <1>3 DEF Worker

LEMMA RetrySweep ==
  ASSUME SweepsInTurn, TypeInv, RetryInv, NEW s \in Sweepers, Sweep(s)
  PROVE  RetryInv'
<1> USE DEF RetryInv, AutoRow, CheckedAuto, TypeOK, TypeInv, rowVars
<1>1. CASE SweepCollect(s) \/ SweepMark(s) \/ SweepSkip(s) \/ SweepRetrySkip(s)
           \/ \E j \in Jobs : SweepCheck(s, j)
  <2>1. sweep[s] # "starting" /\ UNCHANGED <<kind, source, owner, phase>>
    BY <1>1 DEF SweepCollect, SweepMark, SweepSkip, SweepRetrySkip, SweepCheck
  <2>2. \A t \in Sweepers : t # s => sweep'[t] = sweep[t]
    BY <1>1 DEF SweepCollect, SweepMark, SweepSkip, SweepRetrySkip, SweepCheck, NextRow
  <2> QED
    BY <2>1, <2>2, NoNewRetryWorks DEF NoNewRetry
<1>2. CASE SweepRetryDone(s)
  <2>1. UNCHANGED <<kind, source, owner, phase>>
        /\ \A k \in Jobs : owner[k] = s => phase[k] # "checked"
    BY <1>2 DEF SweepRetryDone
  <2>2. \A t \in Sweepers : t # s => sweep'[t] = sweep[t]
    BY <1>2 DEF SweepRetryDone, NextRow
  <2> QED
    BY <2>1, <2>2, NoNewRetryWorks DEF NoNewRetry
<1>3. CASE CrashSweep(s)
  BY <1>3, NoNewRetryWorks DEF NoNewRetry, CrashSweep, Pending
<1>4. ASSUME NEW k \in Jobs, SweepRetryCheck(s, k) PROVE RetryInv'
  <2>1. /\ sweep[s] = "marked" /\ CountAutoRetries(target[s]) < AutoRetryLimit
        /\ target[s] \in Jobs /\ phase[k] = "none"
    BY <1>4 DEF SweepRetryCheck, MayAutoRetry, Reserve, SweepHasTarget
  <2>2. /\ phase' = [phase EXCEPT ![k] = "checked"]
        /\ source' = [source EXCEPT ![k] = target[s]]
        /\ owner' = [owner EXCEPT ![k] = s]
        /\ kind' = [kind EXCEPT ![k] = "retry"]
        /\ sweep' = [sweep EXCEPT ![s] = "starting"]
    BY <1>4 DEF SweepRetryCheck, Reserve
  <2>3. \A l \in Jobs : ~CheckedAuto(l)
    BY <1>4, <2>1 DEF SweepsInTurn, SweepRetryCheck, Reserve, RequestsClear
  <2>4. \A l \in Jobs : CheckedAuto(l)' => l = k
    BY <2>2, <2>3
  <2>5. \A j : AutoRetries(j)' = AutoRetries(j)
    BY <2>1, <2>2 DEF AutoRetries
  <2>6. Cardinality(AutoRetries(target[s])) < AutoRetryLimit
    BY <2>1, AutoRetriesFinite, LimitAssumption
  <2>7. source'[k] = target[s] /\ owner'[k] = s /\ sweep'[s] = "starting"
    BY <2>2
  <2> QED
    BY <2>4, <2>5, <2>6, <2>7
<1> QED
  BY <1>1, <1>2, <1>3, <1>4 DEF Sweep

\* Where sweeps run one after the other, or requests do not overlap, the sweep
\* starts at most AutoRetryLimit retries of a job, however often it is killed
\* half way and whatever users retry in between.
THEOREM AutoRetriesAreLimited == SweepsInTurn => (Spec => []AutoRetriesWithinLimit)
<1> SUFFICES ASSUME SweepsInTurn PROVE Spec => []AutoRetriesWithinLimit
  OBVIOUS
<1>1. Init => RetryInv
  <2> SUFFICES ASSUME Init PROVE RetryInv
    OBVIOUS
  <2>1. \A j \in Jobs : AutoRetries(j) = {} /\ ~CheckedAuto(j)
    BY DEF Init, AutoRetries, AutoRow, CheckedAuto
  <2> QED
    BY <2>1, FS_EmptySet, LimitAssumption DEF RetryInv
<1>2. TypeInv /\ RetryInv /\ [Next]_vars => RetryInv'
  <2> SUFFICES ASSUME TypeInv, RetryInv, [Next]_vars PROVE RetryInv'
    OBVIOUS
  <2>1. CASE UNCHANGED vars
    BY <2>1, NoNewRetryWorks
    DEF vars, rowVars, sweepVars, NoNewRetry, RetryInv, AutoRow, CheckedAuto
  <2> QED
    BY <2>1, RetryRequest, RetryInsert, RetryWorker, RetrySweep DEF Next, TypeInv
<1>3. RetryInv => AutoRetriesWithinLimit
  <2>1. \A j : AutoRetries(j) = {k \in RetriesOf(j) : owner[k] # "api"}
    BY DEF AutoRetries, AutoRow, RetriesOf
  <2> QED
    BY <2>1 DEF RetryInv, AutoRetriesWithinLimit
<1> QED
  BY TypeInit, TypeStep, <1>1, <1>2, <1>3, PTL DEF Spec

--------------------------------------------------------------------------------
(***************************************************************************)
(* Where Calm holds: nothing that still works looks stale, requests do not *)
(* overlap between check and insert, only failed jobs are resumed, and a   *)
(* start request does not fail after its message was sent.                 *)
(***************************************************************************)

(* The inductive invariant, in three parts.                                *)

\* A row a request has only checked for is not in the table yet; a row it has
\* inserted and not sent is queued; neither has a message or a worker.
RowsFollowRequests ==
    \A k \in Jobs :
        /\ phase[k] \in {"none", "checked"} => status[k] = "none"
        /\ phase[k] = "created" => status[k] = "queued"
        /\ phase[k] \in {"none", "checked", "created"}
               => k \notin broker /\ run[k] = "none"

\* A job has a message or a worker, never both.
OneDelivery == \A j \in Jobs : j \in broker => run[j] = "none"

NothingBeforeUpload == doc = "none" => \A k \in Jobs : phase[k] = "none"

RowInv == LiveWorkIsActive /\ RowsFollowRequests /\ OneDelivery /\ NothingBeforeUpload

\* Between check and insert no job of the document is active, and there is one
\* such request at most.
CheckedIsAlone ==
    \A k \in Jobs : phase[k] = "checked" =>
        /\ \A j \in Jobs : status[j] \notin Active
        /\ \A l \in Jobs : phase[l] = "checked" => l = k

AloneInv == OneActiveJob /\ CheckedIsAlone

\* Only orphans look stale, and a sweep only works on orphans: jobs that nobody
\* else will change, except another sweep that fails them first.
Abandoned(j) == Orphaned(j) /\ status[j] \in {"queued", "running", "failed"}

OrphanInv ==
    /\ \A j \in Jobs : idle[j] = "all" => Orphaned(j)
    /\ \A s \in Sweepers :
          /\ \A j \in todo[s] : Abandoned(j)
          /\ sweep[s] \in {"stale", "marked"} => Abandoned(target[s])
          /\ sweep[s] = "marked" => status[target[s]] = "failed"

CalmInv == RowInv /\ AloneInv /\ OrphanInv

\* The part of the type invariant the proofs below need.
RowTypes ==
    /\ status \in [Jobs -> JobStatuses] /\ phase \in [Jobs -> Phases]
    /\ run \in [Jobs -> RunStates] /\ idle \in [Jobs -> Idleness]
    /\ broker \subseteq Jobs
    /\ sweep \in [Sweepers -> SweepStates]
    /\ todo \in [Sweepers -> SUBSET Jobs]
    /\ target \in [Sweepers -> Jobs \cup {NoJob}]
    /\ SweepHasTarget

LEMMA RowTypesHold == TypeInv => RowTypes
  BY DEF TypeInv, TypeOK, RowTypes

LEMMA OneActiveMeans ==
  OneActiveJob <=> \A i, j \in Jobs : status[i] \in Active /\ status[j] \in Active => i = j
  BY DEF OneActiveJob, ActiveJobs

--------------------------------------------------------------------------------
(* RowInv is preserved.                                                    *)

LEMMA RowRequest ==
  ASSUME Calm, RowTypes, CalmInv, NEW k \in Jobs, Request(k)
  PROVE  RowInv'
<1> USE DEF CalmInv, RowInv, LiveWorkIsActive, RowsFollowRequests, OneDelivery,
            NothingBeforeUpload, RowTypes, rowVars, contentVars, sweepVars, Working
<1>1. CASE Upload(k)
  BY <1>1 DEF Upload
<1>2. CASE \E j \in Jobs : RetryCheck(j, k) \/ ResumeCheck(j, k)
  BY <1>2, AfterFailureType DEF RetryCheck, ResumeCheck, Reserve
<1>3. CASE RejectStart(k)
  BY <1>3 DEF RejectStart
<1>4. CASE RetryCommit(k) \/ ResumeCommit(k)
  BY <1>4 DEF RetryCommit, ResumeCommit
<1>5. CASE Enqueue(k)
  BY <1>5 DEF Enqueue
<1>6. CASE MarkQueued(k) \/ SyncQueued(k)
  BY <1>6 DEF MarkQueued, SyncQueued
<1>7. CASE StartFails(k)
  <2>1. phase[k] = "created"
    BY <1>7 DEF StartFails, Fault, Calm
  <2> QED
    BY <1>7, <2>1, AfterFailureType DEF StartFails
<1>8. CASE AbandonRequest(k)
  BY <1>8 DEF AbandonRequest, Pending
<1> QED
  BY <1>1, <1>2, <1>3, <1>4, <1>5, <1>6, <1>7, <1>8 DEF Request

LEMMA RowWorker ==
  ASSUME Calm, RowTypes, CalmInv, NEW j \in Jobs, Worker(j) \/ TimeOut(j)
  PROVE  RowInv'
<1> USE DEF CalmInv, RowInv, LiveWorkIsActive, RowsFollowRequests, OneDelivery,
            NothingBeforeUpload, RowTypes, rowVars, contentVars, sweepVars, Working
<1>1. CASE Start(j)
  BY <1>1 DEF Start
<1>2. CASE Download(j) \/ Prepare(j) \/ StorePage(j) \/ SaveIndex(j)
  BY <1>2 DEF Download, Prepare, StorePage, SaveIndex
<1>3. CASE Finish(j)
  BY <1>3 DEF Finish
<1>4. CASE FailRun(j)
  BY <1>4, AfterFailureType DEF FailRun, PageConflict
<1>5. CASE CrashRun(j) \/ LoseMessage(j) \/ TimeOut(j)
  BY <1>5 DEF CrashRun, LoseMessage, TimeOut
<1> QED
  BY <1>1, <1>2, <1>3, <1>4, <1>5 DEF Worker

LEMMA RowSweep ==
  ASSUME Calm, RowTypes, CalmInv, NEW s \in Sweepers, Sweep(s)
  PROVE  RowInv'
<1> USE DEF CalmInv, RowInv, LiveWorkIsActive, RowsFollowRequests, OneDelivery,
            NothingBeforeUpload, RowTypes, rowVars, contentVars, Working
<1>1. CASE SweepCollect(s) \/ SweepSkip(s) \/ SweepRetrySkip(s) \/ SweepRetryDone(s)
  BY <1>1 DEF SweepCollect, SweepSkip, SweepRetrySkip, SweepRetryDone
<1>2. CASE SweepMark(s)
  BY <1>2, AfterFailureType DEF SweepMark, SweepHasTarget, OrphanInv, Abandoned, Orphaned
<1>3. CASE CrashSweep(s)
  BY <1>3 DEF CrashSweep, Pending
<1>4. CASE \E j \in Jobs : SweepCheck(s, j)
  BY <1>4 DEF SweepCheck
<1>5. ASSUME NEW k \in Jobs, SweepRetryCheck(s, k) PROVE RowInv'
  <2>1. phase[target[s]] = "done" /\ target[s] \in Jobs
    BY <1>5 DEF SweepRetryCheck, SweepHasTarget, OrphanInv, Abandoned, Orphaned
  <2> QED
    BY <1>5, <2>1 DEF SweepRetryCheck, Reserve
<1> QED
  BY <1>1, <1>2, <1>3, <1>4, <1>5 DEF Sweep

--------------------------------------------------------------------------------
(* AloneInv is preserved.                                                  *)

\* A step that makes no job active and starts no request.
NoNewWork ==
    \A j \in Jobs : /\ status'[j] \in Active => status[j] \in Active
                    /\ phase'[j] = "checked" => phase[j] = "checked"

LEMMA NoNewWorkKeepsAlone == AloneInv /\ NoNewWork => AloneInv'
  BY OneActiveMeans DEF AloneInv, CheckedIsAlone, NoNewWork, OneActiveJob, ActiveJobs

\* Row k becomes active when no job is, and no request is between check and
\* insert afterwards.
LEMMA InsertKeepsAlone ==
  ASSUME RowTypes, NEW k \in Jobs, \A j \in Jobs : status[j] \notin Active,
         status' = [status EXCEPT ![k] = "queued"],
         \A l \in Jobs : phase'[l] # "checked"
  PROVE  AloneInv'
  BY DEF AloneInv, CheckedIsAlone, OneActiveJob, ActiveJobs, RowTypes

\* A request passes its checks: the only job it tolerates is not active.
LEMMA ReserveKeepsAlone ==
  ASSUME Calm, RowTypes, NEW k \in Jobs, NEW j \in Jobs, NEW what, NEW who, NEW from,
         NoOtherActive(j), status[j] \notin Active, UNCHANGED status,
         Reserve(k, what, j, who, from)
  PROVE  AloneInv'
<1>1. \A i \in Jobs : status'[i] \notin Active
  BY DEF NoOtherActive, ActiveJobs
<1>2. \A l \in Jobs : phase'[l] = "checked" => l = k
  BY DEF Reserve, RequestsClear, Calm, RowTypes
<1> QED
  BY <1>1, <1>2 DEF AloneInv, CheckedIsAlone, OneActiveJob, ActiveJobs

LEMMA AloneRequest ==
  ASSUME Calm, RowTypes, CalmInv, NEW k \in Jobs, Request(k)
  PROVE  AloneInv'
<1>0. AloneInv
  BY DEF CalmInv
<1>1. CASE Upload(k)
  <2>1. \A j \in Jobs : phase[j] = "none" /\ status[j] \notin Active
    BY <1>1 DEF Upload, CalmInv, RowInv, NothingBeforeUpload, RowsFollowRequests, Active
  <2>2. \A l \in Jobs : phase'[l] # "checked"
    BY <1>1, <2>1 DEF Upload, RowTypes
  <2> QED
    BY <1>1, <2>1, <2>2, InsertKeepsAlone DEF Upload
<1>2. ASSUME NEW j \in Jobs, RetryCheck(j, k) PROVE AloneInv'
  BY <1>2, ReserveKeepsAlone DEF RetryCheck, Active
<1>3. ASSUME NEW j \in Jobs, ResumeCheck(j, k) PROVE AloneInv'
  <2>1. status[j] = "failed"
    BY <1>3 DEF ResumeCheck, Calm
  <2> QED
    BY <1>3, <2>1, ReserveKeepsAlone DEF ResumeCheck, Active
<1>4. CASE RetryCommit(k) \/ ResumeCommit(k)
  <2>1. \A j \in Jobs : status[j] \notin Active
    BY <1>0, <1>4 DEF RetryCommit, ResumeCommit, AloneInv, CheckedIsAlone
  <2>2. \A l \in Jobs : phase'[l] # "checked"
    BY <1>0, <1>4 DEF RetryCommit, ResumeCommit, AloneInv, CheckedIsAlone, RowTypes
  <2> QED
    BY <1>4, <2>1, <2>2, InsertKeepsAlone DEF RetryCommit, ResumeCommit
<1>5. CASE RejectStart(k) \/ Enqueue(k) \/ MarkQueued(k) \/ SyncQueued(k)
           \/ StartFails(k) \/ AbandonRequest(k)
  <2>1. NoNewWork
    BY <1>5 DEF NoNewWork, RowTypes, RejectStart, Enqueue, MarkQueued, SyncQueued,
       StartFails, AbandonRequest, Active
  <2> QED
    BY <1>0, <2>1, NoNewWorkKeepsAlone
<1> QED
  BY <1>1, <1>2, <1>3, <1>4, <1>5 DEF Request

LEMMA AloneWorker ==
  ASSUME Calm, RowTypes, CalmInv, NEW j \in Jobs, Worker(j) \/ TimeOut(j)
  PROVE  AloneInv'
<1>1. CASE Start(j)
  <2>1. status[j] = "queued"
    BY <1>1 DEF Start, CalmInv, RowInv, LiveWorkIsActive
  <2> QED
    BY <1>1, <2>1, NoNewWorkKeepsAlone DEF Start, CalmInv, NoNewWork, RowTypes, Active
<1>2. CASE Download(j) \/ Prepare(j) \/ StorePage(j) \/ SaveIndex(j) \/ Finish(j)
  BY <1>2, NoNewWorkKeepsAlone
  DEF Download, Prepare, StorePage, SaveIndex, Finish, CalmInv, NoNewWork, RowTypes, Active
<1>3. CASE FailRun(j) \/ CrashRun(j) \/ LoseMessage(j) \/ TimeOut(j)
  BY <1>3, NoNewWorkKeepsAlone
  DEF FailRun, CrashRun, LoseMessage, TimeOut, CalmInv, NoNewWork, RowTypes, Active
<1> QED
  BY <1>1, <1>2, <1>3 DEF Worker

LEMMA AloneSweep ==
  ASSUME Calm, RowTypes, CalmInv, NEW s \in Sweepers, Sweep(s)
  PROVE  AloneInv'
<1>1. CASE SweepCollect(s) \/ SweepSkip(s) \/ SweepRetrySkip(s) \/ SweepRetryDone(s)
  BY <1>1, NoNewWorkKeepsAlone
  DEF SweepCollect, SweepSkip, SweepRetrySkip, SweepRetryDone, CalmInv, NoNewWork
<1>2. CASE SweepMark(s) \/ CrashSweep(s)
  BY <1>2, NoNewWorkKeepsAlone
  DEF SweepMark, CrashSweep, CalmInv, NoNewWork, RowTypes, Active
<1>3. CASE \E j \in Jobs : SweepCheck(s, j)
  BY <1>3, NoNewWorkKeepsAlone DEF SweepCheck, CalmInv, NoNewWork
<1>4. ASSUME NEW k \in Jobs, SweepRetryCheck(s, k) PROVE AloneInv'
  <2>1. target[s] \in Jobs /\ status[target[s]] = "failed"
    BY <1>4 DEF SweepRetryCheck, RowTypes, SweepHasTarget, CalmInv, OrphanInv
  <2> QED
    BY <1>4, <2>1, ReserveKeepsAlone DEF SweepRetryCheck, MayAutoRetry, Active
<1> QED
  BY <1>1, <1>2, <1>3, <1>4 DEF Sweep

--------------------------------------------------------------------------------
(* OrphanInv is preserved.                                                 *)

\* A step outside the sweeps that at most fails an orphan, and ages no job.
LeavesOrphans ==
    /\ \A j \in Jobs :
          /\ Orphaned(j) => Orphaned(j)' /\ status'[j] \in {status[j], "failed"}
          /\ idle'[j] = "all" => idle[j] = "all"
    /\ UNCHANGED sweepVars

LEMMA LeavingOrphansKeepsOrphanInv == RowTypes /\ OrphanInv /\ LeavesOrphans => OrphanInv'
<1> SUFFICES ASSUME RowTypes, OrphanInv, LeavesOrphans PROVE OrphanInv'
  OBVIOUS
<1>1. \A j \in Jobs : Abandoned(j) => Abandoned(j)'
  BY DEF LeavesOrphans, Abandoned
<1>2. \A j \in Jobs : idle'[j] = "all" => Orphaned(j)'
  BY DEF LeavesOrphans, OrphanInv
<1>3. ASSUME NEW s \in Sweepers
      PROVE  /\ \A j \in todo'[s] : Abandoned(j)'
             /\ sweep'[s] \in {"stale", "marked"} => Abandoned(target[s])' /\ target' = target
             /\ sweep'[s] = "marked" => status'[target'[s]] = "failed"
  <2>1. UNCHANGED <<sweep, todo, target>>
    BY DEF LeavesOrphans, sweepVars
  <2>2. todo[s] \subseteq Jobs
    BY DEF RowTypes
  <2>3. \A j \in todo'[s] : Abandoned(j)'
    BY <1>1, <2>1, <2>2 DEF OrphanInv
  <2>4. CASE sweep[s] \in {"stale", "marked"}
    <3>1. target[s] \in Jobs /\ Abandoned(target[s])
      BY <2>4 DEF RowTypes, SweepHasTarget, OrphanInv
    <3>2. Abandoned(target[s])'
      BY <1>1, <2>1, <3>1
    <3>3. status[target[s]] = "failed" => status'[target[s]] = "failed"
      BY <3>1 DEF LeavesOrphans, Abandoned
    <3> QED
      BY <2>1, <2>3, <3>2, <3>3 DEF OrphanInv
  <2> QED
    BY <2>1, <2>3, <2>4
<1> QED
  BY <1>2, <1>3 DEF OrphanInv

LEMMA OrphanRequest ==
  ASSUME Calm, RowTypes, CalmInv, NEW k \in Jobs, Request(k)
  PROVE  OrphanInv'
<1> SUFFICES LeavesOrphans
  BY LeavingOrphansKeepsOrphanInv DEF CalmInv
<1> USE DEF RowTypes, LeavesOrphans, Orphaned, sweepVars
<1>1. CASE Upload(k)
  BY <1>1 DEF Upload, CalmInv, RowInv, NothingBeforeUpload
<1>2. CASE \E j \in Jobs : RetryCheck(j, k) \/ ResumeCheck(j, k)
  BY <1>2 DEF RetryCheck, ResumeCheck, Reserve
<1>3. CASE RejectStart(k) \/ ResumeCommit(k)
  BY <1>3 DEF RejectStart, ResumeCommit
<1>4. CASE RetryCommit(k)
  BY <1>4 DEF RetryCommit, RowTouched
<1>5. CASE Enqueue(k) \/ MarkQueued(k) \/ SyncQueued(k) \/ AbandonRequest(k)
  BY <1>5 DEF Enqueue, MarkQueued, SyncQueued, AbandonRequest, Pending
<1>6. CASE StartFails(k)
  <2>1. phase[k] = "created"
    BY <1>6 DEF StartFails, Fault, Calm
  <2> QED
    BY <1>6, <2>1 DEF StartFails, NewEvent
<1> QED
  BY <1>1, <1>2, <1>3, <1>4, <1>5, <1>6 DEF Request

LEMMA OrphanWorker ==
  ASSUME Calm, RowTypes, CalmInv, NEW j \in Jobs, Worker(j)
  PROVE  OrphanInv'
<1> SUFFICES LeavesOrphans
  BY LeavingOrphansKeepsOrphanInv DEF CalmInv
<1> USE DEF RowTypes, LeavesOrphans, Orphaned, sweepVars, Working
<1>1. CASE Start(j)
  BY <1>1 DEF Start, NewEvent
<1>2. CASE Download(j) \/ SaveIndex(j) \/ Finish(j)
  BY <1>2 DEF Download, SaveIndex, Finish, NewEvent
<1>3. CASE Prepare(j) \/ StorePage(j)
  BY <1>3 DEF Prepare, StorePage, RowTouched
<1>4. CASE FailRun(j)
  BY <1>4 DEF FailRun, PageConflict, NewEvent
<1>5. CASE CrashRun(j) \/ LoseMessage(j)
  BY <1>5 DEF CrashRun, LoseMessage
<1> QED
  BY <1>1, <1>2, <1>3, <1>4, <1>5 DEF Worker

LEMMA OrphanTimeOut ==
  ASSUME Calm, RowTypes, CalmInv, NEW j \in Jobs, TimeOut(j)
  PROVE  OrphanInv'
<1>1. Orphaned(j)
  BY DEF TimeOut, Calm
<1>2. \A i \in Jobs : Orphaned(i)' <=> Orphaned(i)
  BY DEF TimeOut, Orphaned
<1>3. \A i \in Jobs : idle'[i] = "all" => idle[i] = "all" \/ i = j
  BY DEF TimeOut, RowTypes
<1> QED
  BY <1>1, <1>2, <1>3 DEF TimeOut, CalmInv, OrphanInv, Abandoned, Orphaned, RowTypes, sweepVars

LEMMA OrphanSweep ==
  ASSUME Calm, RowTypes, CalmInv, NEW s \in Sweepers, Sweep(s)
  PROVE  OrphanInv'
<1> USE DEF CalmInv, OrphanInv, Abandoned, Orphaned, RowTypes, rowVars, contentVars
<1>1. CASE SweepCollect(s)
  BY <1>1 DEF SweepCollect, ActiveJobs, Active, IsJobStale
<1>2. CASE SweepSkip(s) \/ SweepRetrySkip(s) \/ SweepRetryDone(s)
  BY <1>2 DEF SweepSkip, SweepRetrySkip, SweepRetryDone, NextRow
<1>3. ASSUME NEW j \in Jobs, SweepCheck(s, j) PROVE OrphanInv'
  BY <1>3 DEF SweepCheck, NextRow
<1>4. CASE SweepMark(s)
  <2>1. target[s] \in Jobs /\ Abandoned(target[s])
    BY <1>4 DEF SweepMark, SweepHasTarget
  <2>2. \A j \in Jobs : status'[j] = IF j = target[s] THEN "failed" ELSE status[j]
    BY <1>4 DEF SweepMark
  <2>3. \A j \in Jobs : Abandoned(j) => Abandoned(j)'
    BY <1>4, <2>2 DEF SweepMark
  <2>4. \A j \in Jobs : idle'[j] = "all" => Orphaned(j)'
    BY <1>4 DEF SweepMark, NewEvent
  <2>5. \A t \in Sweepers : \A j \in todo'[t] : Abandoned(j)'
    BY <1>4, <2>3 DEF SweepMark
  <2>6. ASSUME NEW t \in Sweepers, sweep'[t] \in {"stale", "marked"}
        PROVE  /\ Abandoned(target[t])'
               /\ target' = target
               /\ sweep'[t] = "marked" => status'[target[t]] = "failed"
    <3>1. sweep[t] \in {"stale", "marked"}
      BY <1>4, <2>6 DEF SweepMark
    <3>2. target[t] \in Jobs /\ Abandoned(target[t])
      BY <3>1 DEF SweepHasTarget
    <3>3. t # s => sweep'[t] = sweep[t]
      BY <1>4 DEF SweepMark
    <3>4. sweep'[t] = "marked" => status'[target[t]] = "failed"
      BY <2>2, <3>2, <3>3
    <3> QED
      BY <1>4, <2>3, <3>2, <3>4 DEF SweepMark
  <2> QED
    BY <2>4, <2>5, <2>6
<1>5. ASSUME NEW k \in Jobs, SweepRetryCheck(s, k) PROVE OrphanInv'
  BY <1>5 DEF SweepRetryCheck, Reserve, SweepHasTarget
<1>6. CASE CrashSweep(s)
  BY <1>6 DEF CrashSweep, Pending, SweepHasTarget
<1> QED
  BY <1>1, <1>2, <1>3, <1>4, <1>5, <1>6 DEF Sweep

--------------------------------------------------------------------------------
(* CalmInv is an invariant.                                                *)

LEMMA CalmInit == Init => CalmInv
  BY DEF Init, CalmInv, RowInv, LiveWorkIsActive, RowsFollowRequests, OneDelivery,
         NothingBeforeUpload, AloneInv, CheckedIsAlone, OneActiveJob, ActiveJobs, Active,
         OrphanInv, Working

LEMMA CalmStep == Calm /\ TypeInv /\ CalmInv /\ [Next]_vars => CalmInv'
<1> SUFFICES ASSUME Calm, TypeInv, CalmInv, [Next]_vars PROVE CalmInv'
  OBVIOUS
<1>0. RowTypes
  BY RowTypesHold
<1>1. ASSUME NEW k \in Jobs, Request(k) PROVE CalmInv'
  BY <1>0, <1>1, RowRequest, AloneRequest, OrphanRequest DEF CalmInv
<1>2. ASSUME NEW j \in Jobs, Worker(j) PROVE CalmInv'
  BY <1>0, <1>2, RowWorker, AloneWorker, OrphanWorker DEF CalmInv
<1>3. ASSUME NEW j \in Jobs, TimeOut(j) PROVE CalmInv'
  BY <1>0, <1>3, RowWorker, AloneWorker, OrphanTimeOut DEF CalmInv
<1>4. ASSUME NEW s \in Sweepers, Sweep(s) PROVE CalmInv'
  BY <1>0, <1>4, RowSweep, AloneSweep, OrphanSweep DEF CalmInv
<1>5. CASE UNCHANGED vars
  BY <1>5 DEF vars, rowVars, contentVars, sweepVars, CalmInv, RowInv, LiveWorkIsActive,
     RowsFollowRequests, OneDelivery, NothingBeforeUpload, AloneInv, CheckedIsAlone,
     OneActiveJob, ActiveJobs, OrphanInv, Abandoned, Orphaned
<1> QED
  BY <1>1, <1>2, <1>3, <1>4, <1>5 DEF Next

LEMMA CalmInvHolds == Calm => (Spec => [](TypeInv /\ CalmInv))
<1> SUFFICES ASSUME Calm PROVE Spec => [](TypeInv /\ CalmInv)
  OBVIOUS
<1>1. Init => TypeInv /\ CalmInv
  BY TypeInit, CalmInit
<1>2. TypeInv /\ CalmInv /\ [Next]_vars => TypeInv' /\ CalmInv'
  BY TypeStep, CalmStep
<1> QED
  BY <1>1, <1>2, PTL DEF Spec

\* In calm conditions a document never has two jobs that are queued or running,
\* whatever is lost or killed and however often it is retried, resumed and swept.
THEOREM OneJobAtATime == Calm => (Spec => []OneActiveJob)
<1>1. CalmInv => OneActiveJob
  BY DEF CalmInv, AloneInv
<1> QED
  BY <1>1, CalmInvHolds, PTL

\* In calm conditions two workers never write the pages and the index of a document,
\* whatever is lost, killed, retried, resumed and swept.
THEOREM OneWriterAtATime == Calm => (Spec => []OneWriter)
<1>1. CalmInv => OneWriter
  <2> SUFFICES ASSUME CalmInv, NEW i \in Jobs, NEW j \in Jobs,
                      run[i] \in Working, run[j] \in Working
               PROVE  i = j
    BY DEF OneWriter
  <2>1. status[i] = "running" /\ status[j] = "running"
    BY DEF CalmInv, RowInv, LiveWorkIsActive
  <2>2. OneActiveJob
    BY DEF CalmInv, AloneInv
  <2> QED
    BY <2>1, <2>2, OneActiveMeans DEF Active
<1> QED
  BY <1>1, CalmInvHolds, PTL

--------------------------------------------------------------------------------
(* The jobs implement IngestionJobs.                                       *)

LEMMA CreateMeans ==
  ASSUME NEW k \in Jobs, \A j \in Jobs : status[j] \notin Active, status[k] = "none",
         status' = [status EXCEPT ![k] = "queued"]
  PROVE  Lifecycle!Next
<1>1. Lifecycle!ActiveJobs = {}
  BY DEF Lifecycle!ActiveJobs, Lifecycle!Active, Active
<1> QED
  BY <1>1 DEF Lifecycle!Next, Lifecycle!Create

LEMMA FailMeans ==
  ASSUME NEW j \in Jobs, status[j] \in {"queued", "running"},
         status' = [status EXCEPT ![j] = "failed"]
  PROVE  Lifecycle!Next
  BY DEF Lifecycle!Next, Lifecycle!Fail, Lifecycle!Active

LEMMA LifecycleRequest ==
  ASSUME Calm, RowTypes, CalmInv, NEW k \in Jobs, Request(k)
  PROVE  Lifecycle!Next \/ UNCHANGED status
<1> USE DEF CalmInv, RowInv, RowsFollowRequests
<1>1. CASE Upload(k)
  <2>1. \A j \in Jobs : status[j] = "none"
    BY <1>1 DEF Upload, NothingBeforeUpload
  <2> QED
    BY <1>1, <2>1, CreateMeans DEF Upload, Active
<1>2. CASE RetryCommit(k) \/ ResumeCommit(k)
  <2>1. phase[k] = "checked" /\ status' = [status EXCEPT ![k] = "queued"]
    BY <1>2 DEF RetryCommit, ResumeCommit
  <2>2. status[k] = "none" /\ \A j \in Jobs : status[j] \notin Active
    BY <2>1 DEF AloneInv, CheckedIsAlone
  <2> QED
    BY <2>1, <2>2, CreateMeans
<1>3. CASE StartFails(k)
  <2>1. phase[k] = "created"
    BY <1>3 DEF StartFails, Fault, Calm
  <2>2. status[k] = "queued"
    BY <2>1
  <2> QED
    BY <1>3, <2>2, FailMeans DEF StartFails
<1>4. CASE \E j \in Jobs : RetryCheck(j, k) \/ ResumeCheck(j, k)
  BY <1>4 DEF RetryCheck, ResumeCheck
<1>5. CASE RejectStart(k) \/ Enqueue(k) \/ MarkQueued(k) \/ SyncQueued(k) \/ AbandonRequest(k)
  BY <1>5 DEF RejectStart, Enqueue, MarkQueued, SyncQueued, AbandonRequest
<1> QED
  BY <1>1, <1>2, <1>3, <1>4, <1>5 DEF Request

LEMMA LifecycleWorker ==
  ASSUME Calm, RowTypes, CalmInv, NEW j \in Jobs, Worker(j)
  PROVE  Lifecycle!Next \/ UNCHANGED status
<1> USE DEF CalmInv, RowInv, LiveWorkIsActive
<1>1. CASE Start(j)
  <2>1. status[j] = "queued"
    BY <1>1 DEF Start
  <2> QED
    BY <1>1, <2>1 DEF Start, Lifecycle!Next, Lifecycle!Begin
<1>2. CASE Finish(j)
  <2>1. status[j] = "running"
    BY <1>2 DEF Finish, Working
  <2> QED
    BY <1>2, <2>1 DEF Finish, Lifecycle!Next, Lifecycle!Complete
<1>3. CASE FailRun(j)
  <2>1. status[j] \in {"queued", "running"}
    BY <1>3 DEF FailRun, PageConflict, Working
  <2> QED
    BY <1>3, <2>1, FailMeans DEF FailRun
<1>4. CASE Download(j) \/ Prepare(j) \/ StorePage(j) \/ SaveIndex(j)
  BY <1>4 DEF Download, Prepare, StorePage, SaveIndex
<1>5. CASE CrashRun(j) \/ LoseMessage(j)
  BY <1>5 DEF CrashRun, LoseMessage
<1> QED
  BY <1>1, <1>2, <1>3, <1>4, <1>5 DEF Worker

LEMMA LifecycleSweep ==
  ASSUME Calm, RowTypes, CalmInv, NEW s \in Sweepers, Sweep(s)
  PROVE  Lifecycle!Next \/ UNCHANGED status
<1>1. CASE SweepMark(s)
  <2>1. target[s] \in Jobs /\ status[target[s]] \in {"queued", "running", "failed"}
    BY <1>1 DEF SweepMark, RowTypes, SweepHasTarget, CalmInv, OrphanInv, Abandoned
  <2>2. status' = [status EXCEPT ![target[s]] = "failed"]
    BY <1>1 DEF SweepMark
  <2>3. CASE status[target[s]] = "failed"
    BY <2>1, <2>2, <2>3 DEF RowTypes
  <2> QED
    BY <2>1, <2>2, <2>3, FailMeans
<1>2. CASE SweepCollect(s) \/ SweepSkip(s) \/ SweepRetrySkip(s) \/ SweepRetryDone(s)
           \/ CrashSweep(s)
  BY <1>2 DEF SweepCollect, SweepSkip, SweepRetrySkip, SweepRetryDone, CrashSweep
<1>3. CASE \E j \in Jobs : SweepCheck(s, j) \/ SweepRetryCheck(s, j)
  BY <1>3 DEF SweepCheck, SweepRetryCheck
<1> QED
  BY <1>1, <1>2, <1>3 DEF Sweep

LEMMA LifecycleStep ==
  Calm /\ TypeInv /\ CalmInv /\ [Next]_vars => [Lifecycle!Next]_status
<1> SUFFICES ASSUME Calm, TypeInv, CalmInv, [Next]_vars
             PROVE  Lifecycle!Next \/ UNCHANGED status
  OBVIOUS
<1>0. RowTypes
  BY RowTypesHold
<1>1. ASSUME NEW j \in Jobs, TimeOut(j) PROVE UNCHANGED status
  BY <1>1 DEF TimeOut
<1>2. UNCHANGED vars => UNCHANGED status
  BY DEF vars
<1> QED
  BY <1>0, <1>1, <1>2, LifecycleRequest, LifecycleWorker, LifecycleSweep DEF Next

\* In calm conditions the status column keeps the promise of IngestionJobs: a
\* row is inserted only when no other job of the document is active, a worker
\* starts it once, and it ends once, by the worker, by the request or by a sweep.
THEOREM JobsKeepLifecycle == Calm => (Spec => KeepsLifecycle)
<1> SUFFICES ASSUME Calm PROVE Spec => Lifecycle!Spec
  BY DEF KeepsLifecycle
<1>1. Init => TypeInv /\ CalmInv
  BY TypeInit, CalmInit
<1>2. TypeInv /\ CalmInv /\ [Next]_vars => TypeInv' /\ CalmInv'
  BY TypeStep, CalmStep
<1>3. Init => Lifecycle!Init
  BY DEF Init, Lifecycle!Init
<1>4. TypeInv /\ CalmInv /\ [Next]_vars => [Lifecycle!Next]_status
  BY LifecycleStep
<1> QED
  BY <1>1, <1>2, <1>3, <1>4, PTL DEF Spec, Lifecycle!Spec

--------------------------------------------------------------------------------
(* Pages and index.  What the one worker has done so far determines what   *)
(* pages, slice and global hold; after the last page nobody changes them   *)
(* as long as the document is completed.                                   *)

SliceMatches  == \A p \in PageNumbers : slice[p] = IF p \in pages THEN 1 ELSE 0
GlobalMatches == \A p \in PageNumbers : p \in pages => global[p] = slice[p]

PartStored(j, last) == (InitialProcessed(j) + 1)..last \subseteq pages

\* How far job j is with pages and index, while it works on them.
WorkDone(j) ==
    /\ run[j] = "pages" =>
          /\ processed[j] \in InitialProcessed(j)..(NumPages - 1)
          /\ PartStored(j, processed[j])
          /\ \A p \in pages : p <= processed[j]
    /\ run[j] \in {"index", "finish"} => PartStored(j, NumPages)
    /\ run[j] \in {"pages", "index"} /\ ~IsResumeJob(j) => SliceMatches
    /\ run[j] = "finish" => SliceMatches /\ GlobalMatches

CompletedInv ==
    doc = "completed" =>
        /\ \A j \in Jobs : status[j] \notin Active
        /\ SliceMatches /\ GlobalMatches
        /\ \E j \in Jobs : status[j] = "completed" /\ PartStored(j, NumPages)

ContentInv == CompletedInv /\ \A j \in Jobs : WorkDone(j)

\* A step that leaves pages and index alone, gives no job a new place in the
\* page loop, and completes neither the document nor a job.
LeavesContent ==
    /\ UNCHANGED contentVars
    /\ \A j \in Jobs :
          /\ run'[j] \in {"pages", "index", "finish"} =>
                run'[j] = run[j] /\ processed'[j] = processed[j]
                                 /\ resumeFrom'[j] = resumeFrom[j]
          /\ status[j] = "completed" => status'[j] = "completed"
                                        /\ resumeFrom'[j] = resumeFrom[j]
    /\ doc' = "completed" =>
          doc = "completed" /\ \A j \in Jobs : status'[j] \in Active => status[j] \in Active

LEMMA LeavesContentWorks == ContentInv /\ LeavesContent => ContentInv'
<1> SUFFICES ASSUME ContentInv, LeavesContent PROVE ContentInv'
  OBVIOUS
<1>1. UNCHANGED <<pages, slice, global>>
  BY DEF LeavesContent, contentVars
<1>2. (SliceMatches <=> SliceMatches') /\ (GlobalMatches <=> GlobalMatches')
  BY <1>1 DEF SliceMatches, GlobalMatches
<1>3. ASSUME NEW j \in Jobs, NEW n, resumeFrom'[j] = resumeFrom[j]
      PROVE  /\ PartStored(j, n) => (InitialProcessed(j)' + 1)..n \subseteq pages'
             /\ InitialProcessed(j)' = InitialProcessed(j) /\ IsResumeJob(j)' = IsResumeJob(j)
  BY <1>1, <1>3 DEF PartStored, InitialProcessed, IsResumeJob
<1>4. ASSUME NEW j \in Jobs, run'[j] \in {"pages", "index", "finish"} PROVE WorkDone(j)'
  <2>1. run'[j] = run[j] /\ processed'[j] = processed[j] /\ resumeFrom'[j] = resumeFrom[j]
    BY <1>4 DEF LeavesContent
  <2>2. WorkDone(j)
    BY DEF ContentInv
  <2> QED
    BY <1>1, <1>2, <1>3, <2>1, <2>2 DEF WorkDone, PartStored
<1>5. \A j \in Jobs : run'[j] \notin {"pages", "index", "finish"} => WorkDone(j)'
  BY DEF WorkDone
<1>6. CompletedInv'
  <2> SUFFICES ASSUME doc' = "completed"
               PROVE  /\ \A j \in Jobs : status'[j] \notin Active
                      /\ SliceMatches' /\ GlobalMatches'
                      /\ \E j \in Jobs : status'[j] = "completed" /\ PartStored(j, NumPages)'
    BY DEF CompletedInv, Active
  <2>1. doc = "completed"
    BY DEF LeavesContent
  <2>2. PICK j \in Jobs : status[j] = "completed" /\ PartStored(j, NumPages)
    BY <2>1 DEF ContentInv, CompletedInv
  <2>3. status'[j] = "completed" /\ resumeFrom'[j] = resumeFrom[j]
    BY <2>2 DEF LeavesContent
  <2>4. PartStored(j, NumPages)'
    BY <1>3, <2>2, <2>3 DEF PartStored
  <2> QED
    BY <1>2, <2>1, <2>3, <2>4 DEF LeavesContent, ContentInv, CompletedInv
<1> QED
  BY <1>4, <1>5, <1>6 DEF ContentInv

LEMMA ContentRequest ==
  ASSUME Calm, RowTypes, CalmInv, ContentInv, NEW k \in Jobs, Request(k)
  PROVE  ContentInv'
<1> SUFFICES LeavesContent
  BY LeavesContentWorks
<1> USE DEF LeavesContent, RowTypes, CalmInv, RowInv, RowsFollowRequests, rowVars
<1>1. CASE Upload(k)
  BY <1>1 DEF Upload, NothingBeforeUpload
<1>2. CASE \E j \in Jobs : RetryCheck(j, k) \/ ResumeCheck(j, k)
  <2>1. UNCHANGED <<doc, status, run, processed, contentVars>> /\ phase[k] = "none"
    BY <1>2 DEF RetryCheck, ResumeCheck, Reserve
  <2>2. PICK from : resumeFrom' = [resumeFrom EXCEPT ![k] = from]
    BY <1>2 DEF RetryCheck, ResumeCheck, Reserve
  <2>3. \A j \in Jobs : j # k => resumeFrom'[j] = resumeFrom[j]
    BY <2>2
  <2> QED
    BY <2>1, <2>3
<1>3. CASE RejectStart(k)
  BY <1>3 DEF RejectStart
<1>4. CASE RetryCommit(k)
  BY <1>4 DEF RetryCommit
<1>5. CASE ResumeCommit(k)
  <2>1. status[k] = "none" /\ run[k] = "none"
    BY <1>5 DEF ResumeCommit
  <2>2. /\ run' = run /\ UNCHANGED <<contentVars, resumeFrom>> /\ doc' = "queued"
        /\ processed' = [processed EXCEPT ![k] = resumeFrom[k] - 1]
        /\ status' = [status EXCEPT ![k] = "queued"]
    BY <1>5 DEF ResumeCommit
  <2>3. \A j \in Jobs : j # k => processed'[j] = processed[j] /\ status'[j] = status[j]
    BY <2>2
  <2> QED
    BY <2>1, <2>2, <2>3
<1>6. CASE Enqueue(k) \/ MarkQueued(k) \/ SyncQueued(k) \/ AbandonRequest(k)
  BY <1>6 DEF Enqueue, MarkQueued, SyncQueued, AbandonRequest
<1>7. CASE StartFails(k)
  <2>1. phase[k] = "created"
    BY <1>7 DEF StartFails, Fault, Calm
  <2> QED
    BY <1>7, <2>1, AfterFailureType DEF StartFails, Active
<1> QED
  BY <1>1, <1>2, <1>3, <1>4, <1>5, <1>6, <1>7 DEF Request

LEMMA ContentSweep ==
  ASSUME Calm, RowTypes, CalmInv, ContentInv, NEW s \in Sweepers, Sweep(s)
  PROVE  ContentInv'
<1> SUFFICES LeavesContent
  BY LeavesContentWorks
<1> USE DEF LeavesContent, RowTypes, rowVars
<1>1. CASE SweepCollect(s) \/ SweepSkip(s) \/ SweepRetrySkip(s) \/ SweepRetryDone(s)
           \/ CrashSweep(s)
  BY <1>1 DEF SweepCollect, SweepSkip, SweepRetrySkip, SweepRetryDone, CrashSweep
<1>2. CASE \E j \in Jobs : SweepCheck(s, j)
  BY <1>2 DEF SweepCheck
<1>3. CASE SweepMark(s)
  <2>1. target[s] \in Jobs /\ status[target[s]] \in {"queued", "running", "failed"}
    BY <1>3 DEF SweepMark, SweepHasTarget, CalmInv, OrphanInv, Abandoned
  <2> QED
    BY <1>3, <2>1, AfterFailureType DEF SweepMark
<1>4. CASE \E k \in Jobs : SweepRetryCheck(s, k)
  BY <1>4 DEF SweepRetryCheck, Reserve, CalmInv, RowInv, RowsFollowRequests
<1> QED
  BY <1>1, <1>2, <1>3, <1>4 DEF Sweep

\* While job j works on the content, no other worker does, and the document is
\* not completed.
LEMMA WriterIsAlone ==
  ASSUME RowTypes, CalmInv, ContentInv, NEW j \in Jobs, run[j] \in Working
  PROVE  /\ status[j] = "running" /\ doc # "completed"
         /\ \A i \in Jobs : i # j => run[i] \notin Working /\ status[i] \notin Active
<1>1. status[j] = "running"
  BY DEF CalmInv, RowInv, LiveWorkIsActive
<1>2. \A i \in Jobs : i # j => status[i] \notin Active
  BY <1>1, OneActiveMeans DEF CalmInv, AloneInv, Active
<1>3. \A i \in Jobs : run[i] \in Working => status[i] \in Active
  BY DEF CalmInv, RowInv, LiveWorkIsActive, Active
<1>4. doc # "completed"
  BY <1>1 DEF ContentInv, CompletedInv, Active
<1> QED
  BY <1>1, <1>2, <1>3, <1>4

\* To show ContentInv after a step of the writer, its own WorkDone is enough
\* as long as the document does not become completed.
LEMMA WriterStep ==
  ASSUME RowTypes, CalmInv, ContentInv, NEW j \in Jobs, run[j] \in Working,
         \A i \in Jobs : i # j => run'[i] = run[i],
         doc' = doc, WorkDone(j)'
  PROVE  ContentInv'
<1>1. doc' # "completed" /\ \A i \in Jobs : i # j => run'[i] \notin Working
  BY WriterIsAlone
<1>2. \A i \in Jobs : i # j => WorkDone(i)'
  BY <1>1 DEF WorkDone, Working
<1> QED
  BY <1>1, <1>2 DEF ContentInv, CompletedInv

LEMMA InitialProcessedRange ==
  ASSUME TypeInv, NEW j \in Jobs
  PROVE  InitialProcessed(j) \in 0..(NumPages - 1)
  BY NumPagesAssumption DEF TypeInv, TypeOK, InitialProcessed, IsResumeJob

LEMMA ContentPrepare ==
  ASSUME Calm, TypeInv, RowTypes, CalmInv, ContentInv, NEW j \in Jobs, Prepare(j)
  PROVE  ContentInv'
<1>1. /\ run[j] \in Working /\ doc' = doc /\ resumeFrom' = resumeFrom
      /\ run' = [run EXCEPT ![j] = "pages"]
      /\ processed'[j] = InitialProcessed(j)
  BY DEF Prepare, Working, rowVars, TypeInv, TypeOK
<1>2. run'[j] = "pages" /\ \A i \in Jobs : i # j => run'[i] = run[i]
  BY <1>1 DEF RowTypes
<1>3. InitialProcessed(j)' = InitialProcessed(j) /\ (IsResumeJob(j)' <=> IsResumeJob(j))
  BY <1>1 DEF InitialProcessed, IsResumeJob
<1>4. processed'[j] \in InitialProcessed(j)'..(NumPages - 1)
  BY <1>1, <1>3, InitialProcessedRange, NumPagesAssumption
<1>5. PartStored(j, processed[j])'
  BY <1>1, <1>3, InitialProcessedRange DEF PartStored
<1>6. \A p \in pages' : p <= processed'[j]
  <2>1. CASE IsResumeJob(j)
    <3>1. processed'[j] = resumeFrom[j] - 1
      BY <1>1, <2>1 DEF InitialProcessed
    <3>2. pages' = {p \in pages : p < resumeFrom[j]} /\ resumeFrom[j] \in Nat
      BY <2>1 DEF Prepare, TypeInv, TypeOK
    <3>3. \A p \in pages : p \in Nat
      BY DEF TypeInv, TypeOK, PageNumbers
    <3> QED
      BY <3>1, <3>2, <3>3
  <2>2. CASE ~IsResumeJob(j)
    BY <2>2 DEF Prepare
  <2> QED
    BY <2>1, <2>2
<1>7. ~IsResumeJob(j)' => SliceMatches'
  BY <1>3 DEF Prepare, SliceMatches
<1>8. WorkDone(j)'
  BY <1>2, <1>4, <1>5, <1>6, <1>7 DEF WorkDone
<1> QED
  BY <1>1, <1>2, <1>8, WriterStep

LEMMA ContentStorePage ==
  ASSUME Calm, TypeInv, RowTypes, CalmInv, ContentInv, NEW j \in Jobs, StorePage(j)
  PROVE  ContentInv'
<1> DEFINE n == processed[j] + 1
<1>1. /\ run[j] = "pages" /\ doc' = doc /\ resumeFrom' = resumeFrom
      /\ n <= NumPages /\ n \notin pages /\ pages' = pages \cup {n}
      /\ slice' = [slice EXCEPT ![n] = @ + 1] /\ global' = global
      /\ processed'[j] = n
      /\ run' = [run EXCEPT ![j] = IF n = NumPages THEN "index" ELSE @]
  BY DEF StorePage, PageConflict, NextPage, IsLastPage, rowVars, TypeInv, TypeOK
<1>2. run'[j] = (IF n = NumPages THEN "index" ELSE "pages")
      /\ \A i \in Jobs : i # j => run'[i] = run[i]
  BY <1>1 DEF RowTypes
<1>3. InitialProcessed(j)' = InitialProcessed(j) /\ (IsResumeJob(j)' <=> IsResumeJob(j))
  BY <1>1 DEF InitialProcessed, IsResumeJob
<1>4. /\ processed[j] \in InitialProcessed(j)..(NumPages - 1)
      /\ PartStored(j, processed[j]) /\ \A p \in pages : p <= processed[j]
      /\ ~IsResumeJob(j) => SliceMatches
  BY <1>1 DEF ContentInv, WorkDone
<1>5. InitialProcessed(j) \in Nat /\ processed[j] \in Nat /\ NumPages \in Nat
  BY InitialProcessedRange, NumPagesAssumption DEF TypeInv, TypeOK
<1>6. (InitialProcessed(j) + 1)..n \subseteq pages'
  <2>1. (InitialProcessed(j) + 1)..processed[j] \subseteq pages
    BY <1>4 DEF PartStored
  <2> QED
    BY <1>1, <1>5, <2>1
<1>7. \A p \in pages' : p <= n
  <2>1. \A p \in pages : p \in Nat
    BY DEF TypeInv, TypeOK, PageNumbers
  <2> QED
    BY <1>1, <1>4, <1>5, <2>1
<1>8. ~IsResumeJob(j)' => SliceMatches'
  <2> SUFFICES ASSUME ~IsResumeJob(j), NEW p \in PageNumbers
               PROVE  slice'[p] = IF p \in pages' THEN 1 ELSE 0
    BY <1>3 DEF SliceMatches
  <2>1. slice[p] = IF p \in pages THEN 1 ELSE 0
    BY <1>4 DEF SliceMatches
  <2>2. slice'[p] = IF p = n THEN slice[p] + 1 ELSE slice[p]
    BY <1>1 DEF TypeInv, TypeOK
  <2> QED
    BY <1>1, <2>1, <2>2
<1>9. n # NumPages => n \in InitialProcessed(j)'..(NumPages - 1)
  BY <1>1, <1>3, <1>4, <1>5
<1>10. WorkDone(j)'
  <2> HIDE DEF n
  <2>1. CASE n = NumPages
    <3>1. PartStored(j, NumPages)'
      BY <1>3, <1>6, <2>1 DEF PartStored
    <3> QED
      BY <1>2, <1>8, <2>1, <3>1 DEF WorkDone
  <2>2. CASE n # NumPages
    <3>1. PartStored(j, processed[j])'
      BY <1>1, <1>3, <1>6 DEF PartStored
    <3> QED
      BY <1>1, <1>2, <1>7, <1>8, <1>9, <2>2, <3>1 DEF WorkDone
  <2> QED
    BY <2>1, <2>2
<1> QED
  BY <1>1, <1>2, <1>10, WriterStep DEF Working

LEMMA ContentSaveIndex ==
  ASSUME Calm, RowTypes, CalmInv, ContentInv, NEW j \in Jobs, SaveIndex(j)
  PROVE  ContentInv'
<1>1. /\ run[j] = "index" /\ doc' = doc /\ resumeFrom' = resumeFrom /\ pages' = pages
      /\ run' = [run EXCEPT ![j] = "finish"] /\ global' = Published(slice')
      /\ slice' = IF IsResumeJob(j)
                  THEN [p \in PageNumbers |-> IF p \in pages THEN 1 ELSE 0] ELSE slice
  BY DEF SaveIndex, rowVars
<1>2. run'[j] = "finish" /\ \A i \in Jobs : i # j => run'[i] = run[i]
  BY <1>1 DEF RowTypes
<1>3. PartStored(j, NumPages)'
  BY <1>1 DEF ContentInv, WorkDone, PartStored, InitialProcessed, IsResumeJob
<1>4. ~IsResumeJob(j) => SliceMatches
  BY <1>1 DEF ContentInv, WorkDone
<1>5. SliceMatches'
  <2>1. CASE IsResumeJob(j)
    BY <1>1, <2>1 DEF SliceMatches
  <2>2. CASE ~IsResumeJob(j)
    BY <1>1, <1>4, <2>2 DEF SliceMatches
  <2> QED
    BY <2>1, <2>2
<1>6. GlobalMatches'
  <2> SUFFICES ASSUME NEW p \in PageNumbers, p \in pages'
               PROVE  global'[p] = slice'[p]
    BY DEF GlobalMatches
  <2>1. slice'[p] = 1
    BY <1>5 DEF SliceMatches
  <2>2. global'[p] = IF slice'[p] > 0 THEN slice'[p] ELSE global[p]
    BY <1>1 DEF Published
  <2> QED
    BY <2>1, <2>2
<1>7. WorkDone(j)'
  BY <1>2, <1>3, <1>5, <1>6 DEF WorkDone
<1> QED
  BY <1>1, <1>2, <1>7, WriterStep DEF Working

LEMMA ContentFinish ==
  ASSUME Calm, RowTypes, CalmInv, ContentInv, NEW j \in Jobs, Finish(j)
  PROVE  ContentInv'
<1>1. /\ run[j] = "finish" /\ UNCHANGED <<resumeFrom, pages, slice, global>>
      /\ run' = [run EXCEPT ![j] = "ended"]
      /\ status' = [status EXCEPT ![j] = "completed"]
  BY DEF Finish, rowVars, contentVars
<1>2. /\ run'[j] = "ended" /\ status'[j] = "completed"
      /\ \A i \in Jobs : i # j => run'[i] = run[i] /\ status'[i] = status[i]
  BY <1>1 DEF RowTypes
<1>3. \A i \in Jobs : i # j => run[i] \notin Working /\ status[i] \notin Active
  BY <1>1, WriterIsAlone DEF Working
<1>4. PartStored(j, NumPages) /\ SliceMatches /\ GlobalMatches
  BY <1>1 DEF ContentInv, WorkDone
<1>5. PartStored(j, NumPages)' /\ SliceMatches' /\ GlobalMatches'
  BY <1>1, <1>4 DEF PartStored, InitialProcessed, IsResumeJob, SliceMatches, GlobalMatches
<1>6. \A i \in Jobs : status'[i] \notin Active
  BY <1>2, <1>3 DEF Active
<1>7. \A i \in Jobs : run'[i] \notin {"pages", "index", "finish"}
  BY <1>2, <1>3 DEF Working
<1>8. \A i \in Jobs : WorkDone(i)'
  BY <1>7 DEF WorkDone
<1>9. CompletedInv'
  BY <1>2, <1>5, <1>6 DEF CompletedInv
<1> QED
  BY <1>8, <1>9 DEF ContentInv

LEMMA ContentWorker ==
  ASSUME Calm, TypeInv, RowTypes, CalmInv, ContentInv, NEW j \in Jobs,
         Worker(j) \/ TimeOut(j)
  PROVE  ContentInv'
<1>1. CASE Start(j)
  <2>1. status[j] = "queued"
    BY <1>1 DEF Start, CalmInv, RowInv, LiveWorkIsActive
  <2> QED
    BY <1>1, <2>1, LeavesContentWorks DEF LeavesContent, Start, RowTypes
<1>2. CASE FailRun(j)
  <2>1. status[j] # "completed"
    BY <1>2 DEF FailRun, PageConflict, Working, CalmInv, RowInv, LiveWorkIsActive
  <2> QED
    BY <1>2, <2>1, AfterFailureType, LeavesContentWorks
    DEF LeavesContent, FailRun, RowTypes
<1>3. CASE Download(j) \/ CrashRun(j)
  BY <1>3, LeavesContentWorks DEF LeavesContent, Download, CrashRun, RowTypes, rowVars
<1>4. CASE LoseMessage(j) \/ TimeOut(j)
  BY <1>4, LeavesContentWorks DEF LeavesContent, LoseMessage, TimeOut, rowVars
<1> QED
  BY <1>1, <1>2, <1>3, <1>4, ContentPrepare, ContentStorePage, ContentSaveIndex,
     ContentFinish DEF Worker

LEMMA ContentInit == Init => ContentInv
  BY DEF Init, ContentInv, CompletedInv, WorkDone

LEMMA ContentStep ==
  Calm /\ TypeInv /\ CalmInv /\ ContentInv /\ [Next]_vars => ContentInv'
<1> SUFFICES ASSUME Calm, TypeInv, CalmInv, ContentInv, [Next]_vars PROVE ContentInv'
  OBVIOUS
<1>0. RowTypes
  BY RowTypesHold
<1>1. CASE UNCHANGED vars
  BY <1>1, LeavesContentWorks DEF vars, rowVars, LeavesContent
<1> QED
  BY <1>0, <1>1, ContentRequest, ContentWorker, ContentSweep DEF Next

LEMMA ContentInvHolds == Calm => (Spec => []ContentInv)
<1> SUFFICES ASSUME Calm PROVE Spec => []ContentInv
  OBVIOUS
<1>1. Init => TypeInv /\ CalmInv /\ ContentInv
  BY TypeInit, CalmInit, ContentInit
<1>2. TypeInv /\ CalmInv /\ ContentInv /\ [Next]_vars => TypeInv' /\ CalmInv' /\ ContentInv'
  BY TypeStep, CalmStep, ContentStep
<1> QED
  BY <1>1, <1>2, PTL DEF Spec

\* In calm conditions the index of a completed document counts each stored page once and
\* the document's own rows count no other page, however often ingestion failed half way,
\* was retried or resumed.
THEOREM CompletedContentIsRight == Calm => (Spec => []CompletedIndexMatchesPages)
<1>1. ContentInv => CompletedIndexMatchesPages
  BY DEF ContentInv, CompletedInv, SliceMatches, GlobalMatches, CompletedIndexMatchesPages
<1> QED
  BY <1>1, ContentInvHolds, PTL

\* In calm conditions every page of the part that some completed job worked on is stored,
\* also when a resume took over pages of a job that failed.
THEOREM CompletedPartsAreStored == Calm => (Spec => []CompletedPartIsStored)
<1>1. ContentInv => CompletedPartIsStored
  BY DEF ContentInv, CompletedInv, PartStored, CompletedPartIsStored
<1> QED
  BY <1>1, ContentInvHolds, PTL

================================================================================
