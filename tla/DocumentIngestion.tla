--------------------------- MODULE DocumentIngestion ---------------------------
(***************************************************************************)
(* The ingestion pipeline of one document: the upload request, the retry   *)
(* and resume requests, the Celery worker that runs a job, and the         *)
(* periodic sweep that declares silent jobs failed and retries them.       *)
(*                                                                         *)
(* An action is one committed database transaction, or one step outside    *)
(* the database (a message sent or lost, a process killed, time passing).  *)
(* A handler that commits several times, or that reads in one place and    *)
(* writes in another with slow work between, is several actions.           *)
(***************************************************************************)
EXTENDS Integers, FiniteSets

CONSTANTS
    Jobs,             \* ids of ingestion job rows; bounds how many a document gets
    NoJob,            \* "no row": retry_of_job_id or resume_of_job_id is NULL
    Sweepers,         \* executions of the sweep task that may overlap
    NumPages,         \* pages of the document
    AutoRetryLimit,   \* settings.job_stale_auto_retry_limit
    UserActions,      \* which of AllUserActions the user takes
    FaultKinds,       \* which of AllFaultKinds may happen
    MaxFaults,        \* bound on the faults of a behaviour
    SlowWork,         \* TRUE: a job with a worker or a message may look stale
    SerialRequests    \* TRUE: no two requests are between check and insert

AllUserActions == {"retry", "resume failed", "resume stale"}
AllFaultKinds  == {"enqueue", "mark", "message", "source", "run", "worker",
                   "request", "sweep"}

ASSUME JobsAssumption     == IsFiniteSet(Jobs)
ASSUME NumPagesAssumption == NumPages \in Nat \ {0}
ASSUME LimitAssumption    == AutoRetryLimit \in Nat /\ MaxFaults \in Nat
ASSUME NoJobAssumption    == NoJob \notin Jobs
ASSUME ApiAssumption      == "api" \notin Sweepers
ASSUME SwitchAssumption   == /\ UserActions \subseteq AllUserActions
                             /\ FaultKinds \subseteq AllFaultKinds
                             /\ SlowWork \in BOOLEAN
                             /\ SerialRequests \in BOOLEAN

VARIABLES
    doc,          \* documents.status ("none": not uploaded yet)
    workflow,     \* document_workflow.stage, as the last sync left it
    status,       \* status[j]: ingestion_jobs.status
    canRetry,     \* canRetry[j]: ingestion_jobs.can_retry
    kind,         \* kind[j]: what created the row
    source,       \* source[j]: retry_of_job_id or resume_of_job_id
    owner,        \* owner[j]: "api", or the sweep that creates the row
    resumeFrom,   \* resumeFrom[j]: resume_from_page (0 for NULL)
    processed,    \* processed[j]: items_processed (0 for NULL)
    idle,         \* idle[j]: how stale the row looks, see Idleness
    phase,        \* phase[j]: how far the request that creates row j got
    broker,       \* jobs whose Celery message waits in the queue
    run,          \* run[j]: how far the worker got with job j
    pages,        \* page numbers stored in document_pages
    slice,        \* slice[p]: times page p is counted in the document's index
    global,       \* global[p]: the same count in the user's global index rows
    sweep,        \* sweep[s]: control state of a sweep
    todo,         \* todo[s]: rows sweep s read that looked stale, not visited yet
    target,       \* target[s]: the row sweep s is working on
    faults        \* faults so far, bounded by MaxFaults

rowVars     == <<canRetry, kind, source, owner, resumeFrom>>
contentVars == <<pages, slice, global>>
sweepVars   == <<sweep, todo, target>>
vars == <<doc, workflow, status, rowVars, processed, idle, phase, broker, run,
          contentVars, sweepVars, faults>>

PageNumbers == 1..NumPages

DocStatuses == {"none", "uploaded", "queued", "processing", "completed", "failed"}
JobStatuses == {"none", "queued", "running", "completed", "failed"}
Active      == {"queued", "running"}
Terminal    == {"completed", "failed"}
Stages      == {"none", "uploaded", "ingesting", "review", "failed"}
Kinds       == {"none", "upload", "retry", "resume"}
Phases      == {"none", "checked", "created", "sent", "marked", "done"}
Pending     == {"created", "sent", "marked"}       \* row inserted, handler not done
Working     == {"loading", "prepare", "pages", "index", "finish"}
RunStates   == Working \cup {"none", "ended", "dead"}
SweepStates == {"idle", "scanning", "stale", "marked", "starting"}

(***************************************************************************)
(* How long nothing was recorded for a job, against the stale threshold.   *)
(*   "no"     its newest stage event is recent;                            *)
(*   "events" its events are old, its row was updated recently;            *)
(*   "all"    neither is recent: the job looks stale.                      *)
(***************************************************************************)
Idleness == {"no", "events", "all"}

TypeOK ==
    /\ doc \in DocStatuses /\ workflow \in Stages
    /\ status \in [Jobs -> JobStatuses]
    /\ canRetry \in [Jobs -> BOOLEAN]
    /\ kind \in [Jobs -> Kinds]
    /\ source \in [Jobs -> Jobs \cup {NoJob}]
    /\ owner \in [Jobs -> Sweepers \cup {"api"}]
    /\ resumeFrom \in [Jobs -> 0..NumPages]
    /\ processed \in [Jobs -> 0..NumPages]
    /\ idle \in [Jobs -> Idleness]
    /\ phase \in [Jobs -> Phases]
    /\ broker \subseteq Jobs
    /\ run \in [Jobs -> RunStates]
    /\ pages \subseteq PageNumbers
    /\ slice \in [PageNumbers -> Nat] /\ global \in [PageNumbers -> Nat]
    /\ sweep \in [Sweepers -> SweepStates]
    /\ todo \in [Sweepers -> SUBSET Jobs]
    /\ target \in [Sweepers -> Jobs \cup {NoJob}]
    /\ faults \in 0..MaxFaults

Init ==
    /\ doc = "none" /\ workflow = "none"
    /\ status = [j \in Jobs |-> "none"]
    /\ canRetry = [j \in Jobs |-> TRUE]
    /\ kind = [j \in Jobs |-> "none"]
    /\ source = [j \in Jobs |-> NoJob]
    /\ owner = [j \in Jobs |-> "api"]
    /\ resumeFrom = [j \in Jobs |-> 0]
    /\ processed = [j \in Jobs |-> 0]
    /\ idle = [j \in Jobs |-> "no"]
    /\ phase = [j \in Jobs |-> "none"]
    /\ broker = {}
    /\ run = [j \in Jobs |-> "none"]
    /\ pages = {}
    /\ slice = [p \in PageNumbers |-> 0] /\ global = [p \in PageNumbers |-> 0]
    /\ sweep = [s \in Sweepers |-> "idle"]
    /\ todo = [s \in Sweepers |-> {}]
    /\ target = [s \in Sweepers |-> NoJob]
    /\ faults = 0

--------------------------------------------------------------------------------
(* Shared by the handlers.                                                 *)

Fault(f) == f \in FaultKinds /\ faults < MaxFaults /\ faults' = faults + 1

ActiveJobs == {j \in Jobs : status[j] \in Active}

\* Faulty variant of AfterFailure: queued jobs are overlooked.
AfterFailureNoQueued(j) ==
    IF \E k \in Jobs \ {j} : status[k] = "running" THEN "processing" ELSE "failed"

\* DocumentService._document_status_after_job_failure: job j has just failed.
AfterFailure(j) ==
    LET other == {status[k] : k \in Jobs \ {j}}
    IN  IF "running" \in other THEN "processing"
        ELSE IF "queued" \in other THEN "queued" ELSE "failed"

\* DocumentWorkflowService._resolve_stage; the three review stages are one here.
StageOf(d) == IF d = "completed" THEN "review"
              ELSE IF d \in {"queued", "processing"} THEN "ingesting"
              ELSE IF d = "failed" THEN "failed" ELSE "uploaded"

\* updated_at and job_stage_events, the two clocks of get_last_progress_at.
NewEvent(j)  == [idle EXCEPT ![j] = "no"]
RowTouched(j) == [idle EXCEPT ![j] = IF @ = "all" THEN "events" ELSE @]
IsJobStale(j) == idle[j] = "all"

--------------------------------------------------------------------------------
(* Starting a job: upload, retry and resume requests.                      *)

\* POST /documents/upload up to create_document_and_job and its two commits.
Upload(k) ==
    /\ doc = "none"
    /\ doc' = "uploaded" /\ workflow' = "uploaded"
    /\ status' = [status EXCEPT ![k] = "queued"]
    /\ kind' = [kind EXCEPT ![k] = "upload"]
    /\ phase' = [phase EXCEPT ![k] = "created"]
    /\ UNCHANGED <<canRetry, source, owner, resumeFrom, processed, idle, broker,
                   run, contentVars, sweepVars, faults>>

RequestsClear == SerialRequests => \A k \in Jobs : phase[k] # "checked"

\* Faulty variants of NoOtherActive: only running jobs are looked for; none is.
NoOtherRunning(j) == {k \in Jobs : status[k] = "running"} \subseteq {j}
AnyActive(j) == TRUE

NoOtherActive(j) == ActiveJobs \subseteq {j}

\* The checks passed: row k is decided on, and inserted only after the source
\* file was downloaded (_ensure_source_file_exists).
Reserve(k, what, j, who, from) ==
    /\ RequestsClear
    /\ phase[k] = "none"
    /\ phase' = [phase EXCEPT ![k] = "checked"]
    /\ kind' = [kind EXCEPT ![k] = what]
    /\ source' = [source EXCEPT ![k] = j]
    /\ owner' = [owner EXCEPT ![k] = who]
    /\ resumeFrom' = [resumeFrom EXCEPT ![k] = from]

\* Faulty variant of RetryCheck: a job that has not failed can be retried.
RetryCheckAnyStatus(j, k) ==
    /\ "retry" \in UserActions
    /\ status[j] # "none" /\ canRetry[j]
    /\ NoOtherActive(j)
    /\ Reserve(k, "retry", j, "api", 0)
    /\ UNCHANGED <<doc, workflow, status, canRetry, processed, idle, broker, run,
                   contentVars, sweepVars, faults>>

\* create_retry_job, called by a retry request, up to the file check.
RetryCheck(j, k) ==
    /\ "retry" \in UserActions
    /\ status[j] = "failed" /\ canRetry[j]
    /\ NoOtherActive(j)
    /\ Reserve(k, "retry", j, "api", 0)
    /\ UNCHANGED <<doc, workflow, status, canRetry, processed, idle, broker, run,
                   contentVars, sweepVars, faults>>

\* Faulty variant of ResumePage: the page after the checkpoint, past the end too.
ResumePageAfter(j) == processed[j] + 1

\* compute_resume_from_page: max(1, items_processed), or 0 for "no checkpoint".
ResumePage(j) == processed[j]

\* create_resume_job up to the file check: can_retry is not looked at, and a
\* running source stays running.
ResumeCheck(j, k) ==
    /\ ResumePage(j) >= 1
    /\ \/ status[j] = "failed" /\ "resume failed" \in UserActions
       \/ status[j] = "running" /\ IsJobStale(j) /\ "resume stale" \in UserActions
    /\ NoOtherActive(j)
    /\ Reserve(k, "resume", j, "api", ResumePage(j))
    /\ UNCHANGED <<doc, workflow, status, canRetry, processed, idle, broker, run,
                   contentVars, sweepVars, faults>>

\* The source file is missing: 409 for a request, a skipped retry for a sweep.
RejectStart(k) ==
    /\ Fault("source")
    /\ phase[k] = "checked"
    /\ phase' = [phase EXCEPT ![k] = "none"]
    /\ kind' = [kind EXCEPT ![k] = "none"]
    /\ source' = [source EXCEPT ![k] = NoJob]
    /\ owner' = [owner EXCEPT ![k] = "api"]
    /\ resumeFrom' = [resumeFrom EXCEPT ![k] = 0]
    /\ UNCHANGED <<doc, workflow, status, canRetry, processed, idle, broker, run,
                   contentVars, sweepVars>>

\* create_retry_job from the insert on; last_retried_at touches the source row.
RetryCommit(k) ==
    /\ phase[k] = "checked" /\ kind[k] = "retry"
    /\ phase' = [phase EXCEPT ![k] = "created"]
    /\ status' = [status EXCEPT ![k] = "queued"]
    /\ doc' = "queued"
    /\ idle' = RowTouched(source[k])
    /\ UNCHANGED <<workflow, rowVars, processed, broker, run, contentVars,
                   sweepVars, faults>>

\* create_resume_job from the insert on.
ResumeCommit(k) ==
    /\ phase[k] = "checked" /\ kind[k] = "resume"
    /\ phase' = [phase EXCEPT ![k] = "created"]
    /\ status' = [status EXCEPT ![k] = "queued"]
    /\ processed' = [processed EXCEPT ![k] = resumeFrom[k] - 1]
    /\ doc' = "queued"
    /\ UNCHANGED <<workflow, rowVars, idle, broker, run, contentVars, sweepVars,
                   faults>>

\* JobOrchestrator.enqueue, in the request or sweep that created the row.
Enqueue(k) ==
    /\ phase[k] = "created"
    /\ phase' = [phase EXCEPT ![k] = "sent"]
    /\ broker' = broker \cup {k}
    /\ UNCHANGED <<doc, workflow, status, rowVars, processed, idle, run,
                   contentVars, sweepVars, faults>>

\* mark_document_queued, first commit: whatever the document became meanwhile.
MarkQueued(k) ==
    /\ phase[k] = "sent"
    /\ phase' = [phase EXCEPT ![k] = "marked"]
    /\ doc' = "queued"
    /\ UNCHANGED <<workflow, status, rowVars, processed, idle, broker, run,
                   contentVars, sweepVars, faults>>

\* mark_document_queued, refresh and second commit.
SyncQueued(k) ==
    /\ phase[k] = "marked"
    /\ phase' = [phase EXCEPT ![k] = "done"]
    /\ workflow' = StageOf(doc)
    /\ UNCHANGED <<doc, status, rowVars, processed, idle, broker, run,
                   contentVars, sweepVars, faults>>

\* The except branches of the upload, retry and resume handlers
\* (mark_job_failed); _auto_retry_stale_job swallows the exception instead.
StartFails(k) ==
    /\ \/ Fault("enqueue") /\ phase[k] = "created"
       \/ Fault("mark") /\ phase[k] \in {"sent", "marked"}
    /\ phase' = [phase EXCEPT ![k] = "done"]
    /\ IF owner[k] = "api"
       THEN /\ status' = [status EXCEPT ![k] = "failed"]
            /\ \E again \in BOOLEAN : canRetry' = [canRetry EXCEPT ![k] = again]
            /\ idle' = NewEvent(k)
            /\ doc' = AfterFailure(k)
       ELSE UNCHANGED <<status, canRetry, idle, doc>>
    /\ UNCHANGED <<workflow, kind, source, owner, resumeFrom, processed, broker,
                   run, contentVars, sweepVars>>

\* The API process dies inside a request.
AbandonRequest(k) ==
    /\ Fault("request")
    /\ owner[k] = "api" /\ phase[k] \in Pending
    /\ phase' = [phase EXCEPT ![k] = "done"]
    /\ UNCHANGED <<doc, workflow, status, rowVars, processed, idle, broker, run,
                   contentVars, sweepVars>>

--------------------------------------------------------------------------------
(* The worker: process_job, one action per transaction.                    *)

IsResumeJob(j) == resumeFrom[j] >= 1
InitialProcessed(j) == IF IsResumeJob(j) THEN resumeFrom[j] - 1 ELSE 0

\* First transaction.  The job's status is not looked at.
Start(j) ==
    /\ j \in broker
    /\ broker' = broker \ {j}
    /\ run' = [run EXCEPT ![j] = "loading"]
    /\ status' = [status EXCEPT ![j] = "running"]
    /\ canRetry' = [canRetry EXCEPT ![j] = TRUE]
    /\ processed' = [processed EXCEPT ![j] = InitialProcessed(j)]
    /\ doc' = "processing" /\ workflow' = StageOf("processing")
    /\ idle' = NewEvent(j)
    /\ UNCHANGED <<kind, source, owner, resumeFrom, phase, contentVars,
                   sweepVars, faults>>

\* The original file is downloaded; stage event "extracting_pages".
Download(j) ==
    /\ run[j] = "loading"
    /\ run' = [run EXCEPT ![j] = "prepare"]
    /\ idle' = NewEvent(j)
    /\ UNCHANGED <<doc, workflow, status, rowVars, processed, phase, broker,
                   contentVars, sweepVars, faults>>

\* rebuild_global_rows_sql: a row for each form the document's rows count; the
\* row of a form they no longer count stays as it is.
Published(counts) ==
    [p \in PageNumbers |-> IF counts[p] > 0 THEN counts[p] ELSE global[p]]

\* Earlier content is removed: all of it and the document's index rows, or, for
\* a resumed job, the pages from the checkpoint on and no index row.  On
\* PostgreSQL the recount of the global rows finds no row of the document to
\* count, so it leaves them (rebuild_global_rows_sql only upserts).
Prepare(j) ==
    /\ run[j] = "prepare"
    /\ run' = [run EXCEPT ![j] = "pages"]
    /\ IF IsResumeJob(j)
       THEN /\ pages' = {p \in pages : p < resumeFrom[j]}
            /\ UNCHANGED <<slice, global, idle>>
       ELSE /\ pages' = {}
            /\ slice' = [p \in PageNumbers |-> 0]
            /\ global' = Published(slice')
            /\ idle' = RowTouched(j)
    /\ processed' = [processed EXCEPT ![j] = InitialProcessed(j)]
    /\ UNCHANGED <<doc, workflow, status, rowVars, phase, broker, sweepVars,
                   faults>>

NextPage(j) == processed[j] + 1

\* Faulty variant of IsLastPage: the loop ends one page early.
IsLastPageEarly(j) == NextPage(j) >= NumPages - 1

\* The page iterator has nothing after this page.
IsLastPage(j) == NextPage(j) = NumPages

\* (document_id, page_number) is unique in document_pages.
PageConflict(j) == run[j] = "pages" /\ NextPage(j) \in pages

\* One page: its row, its occurrences, their addition to the document's index.
StorePage(j) ==
    /\ run[j] = "pages" /\ NextPage(j) <= NumPages
    /\ ~PageConflict(j)
    /\ pages' = pages \cup {NextPage(j)}
    /\ slice' = [slice EXCEPT ![NextPage(j)] = @ + 1]
    /\ processed' = [processed EXCEPT ![j] = NextPage(j)]
    /\ run' = [run EXCEPT ![j] = IF IsLastPage(j) THEN "index" ELSE @]
    /\ idle' = RowTouched(j)
    /\ UNCHANGED <<doc, workflow, status, rowVars, phase, broker, global,
                   sweepVars, faults>>

\* Faulty variant of SaveIndex: a resumed job publishes its counts like others.
SaveIndexNoRecount(j) ==
    /\ run[j] = "index"
    /\ run' = [run EXCEPT ![j] = "finish"]
    /\ global' = Published(slice)
    /\ idle' = NewEvent(j)
    /\ UNCHANGED <<doc, workflow, status, rowVars, processed, phase, broker,
                   pages, slice, sweepVars, faults>>

\* "saving_results": a resumed job recounts the document from its stored pages
\* (rebuild_document), a fresh one publishes its counts (rebuild_global_rows).
SaveIndex(j) ==
    /\ run[j] = "index"
    /\ run' = [run EXCEPT ![j] = "finish"]
    /\ slice' = IF IsResumeJob(j)
                THEN [p \in PageNumbers |-> IF p \in pages THEN 1 ELSE 0]
                ELSE slice
    /\ global' = Published(slice')
    /\ idle' = NewEvent(j)
    /\ UNCHANGED <<doc, workflow, status, rowVars, processed, phase, broker,
                   pages, sweepVars, faults>>

\* Last transaction: document and job completed, whatever they became meanwhile.
Finish(j) ==
    /\ run[j] = "finish"
    /\ run' = [run EXCEPT ![j] = "ended"]
    /\ status' = [status EXCEPT ![j] = "completed"]
    /\ doc' = "completed" /\ workflow' = StageOf("completed")
    /\ idle' = NewEvent(j)
    /\ UNCHANGED <<rowVars, processed, phase, broker, contentVars, sweepVars,
                   faults>>

\* An exception in process_job: _mark_failed.  It may come from anything the
\* steps call, and comes from the unique constraint when the page is there.
FailRun(j) ==
    /\ \/ Fault("run") /\ (run[j] \in Working \/ j \in broker)
       \/ PageConflict(j) /\ UNCHANGED faults
    /\ broker' = broker \ {j}
    /\ run' = [run EXCEPT ![j] = "ended"]
    /\ status' = [status EXCEPT ![j] = "failed"]
    /\ \E again \in BOOLEAN : canRetry' = [canRetry EXCEPT ![j] = again]
    /\ doc' = AfterFailure(j) /\ workflow' = StageOf(doc')
    /\ idle' = NewEvent(j)
    /\ UNCHANGED <<kind, source, owner, resumeFrom, processed, phase,
                   contentVars, sweepVars>>

\* The worker process dies, or cannot reach the database to mark the failure.
\* The message was acknowledged when the task started.
CrashRun(j) ==
    /\ Fault("worker")
    /\ run[j] \in Working
    /\ run' = [run EXCEPT ![j] = "dead"]
    /\ UNCHANGED <<doc, workflow, status, rowVars, processed, idle, phase,
                   broker, contentVars, sweepVars>>

\* The broker loses the message, or a worker dies holding it.
LoseMessage(j) ==
    /\ Fault("message")
    /\ j \in broker
    /\ broker' = broker \ {j}
    /\ UNCHANGED <<doc, workflow, status, rowVars, processed, idle, phase, run,
                   contentVars, sweepVars>>

--------------------------------------------------------------------------------
(* Time and the sweep.                                                     *)

\* Nothing will touch the job again: no message, no worker, no request.
Orphaned(j) == j \notin broker /\ run[j] \notin Working /\ phase[j] = "done"

\* JOB_STALE_AFTER_MINUTES pass without a record of job j.
TimeOut(j) ==
    /\ status[j] \in Active /\ idle[j] # "all"
    /\ SlowWork \/ Orphaned(j)
    /\ idle' = [idle EXCEPT ![j] = "all"]
    /\ UNCHANGED <<doc, workflow, status, rowVars, processed, phase, broker,
                   run, contentVars, sweepVars, faults>>

\* Faulty variant of SweepCollect: queued rows are not collected.
SweepCollectRunning(s) ==
    LET stale == {j \in Jobs : status[j] = "running" /\ IsJobStale(j)}
    IN  /\ sweep[s] = "idle" /\ stale # {}
        /\ sweep' = [sweep EXCEPT ![s] = "scanning"]
        /\ todo' = [todo EXCEPT ![s] = stale]
        /\ UNCHANGED <<doc, workflow, status, rowVars, processed, idle, phase,
                       broker, run, contentVars, target, faults>>

\* _collect_active_jobs: the rows as read here are what the sweep works with.
\* A row that was updated recently cannot look stale from this copy, and a
\* sweep that reads no stale row changes nothing and is left out.
SweepCollect(s) ==
    LET stale == {j \in ActiveJobs : IsJobStale(j)}
    IN  /\ sweep[s] = "idle" /\ stale # {}
        /\ sweep' = [sweep EXCEPT ![s] = "scanning"]
        /\ todo' = [todo EXCEPT ![s] = stale]
        /\ UNCHANGED <<doc, workflow, status, rowVars, processed, idle, phase,
                       broker, run, contentVars, target, faults>>

\* The loop of sweep_stale_jobs goes on with the rows in rest, or ends.
NextRow(s, rest) ==
    /\ sweep' = [sweep EXCEPT ![s] = IF rest = {} THEN "idle" ELSE "scanning"]
    /\ target' = [target EXCEPT ![s] = NoJob]

\* is_job_stale: updated_at from the copy, the newest event from the database.
SweepCheck(s, j) ==
    /\ sweep[s] = "scanning" /\ j \in todo[s]
    /\ todo' = [todo EXCEPT ![s] = @ \ {j}]
    /\ IF idle[j] = "no"
       THEN NextRow(s, todo[s] \ {j})
       ELSE /\ sweep' = [sweep EXCEPT ![s] = "stale"]
            /\ target' = [target EXCEPT ![s] = j]
    /\ UNCHANGED <<doc, workflow, status, rowVars, processed, idle, phase,
                   broker, run, contentVars, faults>>

\* _mark_job_stale: mark_job_failed, whatever the row became since it was read.
\* can_retry is TRUE in the copy, so the column is not written.
SweepMark(s) ==
    LET j == target[s]
    IN  /\ sweep[s] = "stale"
        /\ sweep' = [sweep EXCEPT ![s] = "marked"]
        /\ status' = [status EXCEPT ![j] = "failed"]
        /\ doc' = AfterFailure(j)
        /\ idle' = NewEvent(j)
        /\ UNCHANGED <<workflow, rowVars, processed, phase, broker, run,
                       contentVars, todo, target, faults>>

\* The row stays locked by the worker's transaction for the 5s of lock_timeout.
\* The rollback expires every copy: the remaining rows are read again.
SweepSkip(s) ==
    LET again == {j \in todo[s] : status[j] \in Active /\ IsJobStale(j)}
    IN  /\ sweep[s] = "stale" /\ run[target[s]] \in Working
        /\ todo' = [todo EXCEPT ![s] = again]
        /\ NextRow(s, again)
        /\ UNCHANGED <<doc, workflow, status, rowVars, processed, idle, phase,
                       broker, run, contentVars, faults>>

\* _count_auto_retries: every retry row of job j, whoever asked for it.
RetriesOf(j) == {k \in Jobs : kind[k] = "retry" /\ source[k] = j
                              /\ phase[k] \notin {"none", "checked"}}
CountAutoRetries(j) == Cardinality(RetriesOf(j))

\* Faulty variant of MayAutoRetry: the limit itself is let through.
MayAutoRetryOnce(j) == CountAutoRetries(j) <= AutoRetryLimit /\ NoOtherActive(j)

MayAutoRetry(j) == CountAutoRetries(j) < AutoRetryLimit /\ NoOtherActive(j)

\* _auto_retry_stale_job up to the file check.  The status create_retry_job
\* looks at is the copy's, FAILED since SweepMark.
SweepRetryCheck(s, k) ==
    /\ sweep[s] = "marked" /\ MayAutoRetry(target[s])
    /\ sweep' = [sweep EXCEPT ![s] = "starting"]
    /\ Reserve(k, "retry", target[s], s, 0)
    /\ UNCHANGED <<doc, workflow, status, canRetry, processed, idle, broker, run,
                   contentVars, todo, target, faults>>

\* No automatic retry; also when the model has no row left to insert.
SweepRetrySkip(s) ==
    /\ sweep[s] = "marked"
    /\ ~MayAutoRetry(target[s]) \/ \A k \in Jobs : phase[k] # "none"
    /\ NextRow(s, todo[s])
    /\ UNCHANGED <<doc, workflow, status, rowVars, processed, idle, phase,
                   broker, run, contentVars, todo, faults>>

\* The retry it started is through (Enqueue, MarkQueued, ...): next row.
SweepRetryDone(s) ==
    /\ sweep[s] = "starting"
    /\ \A k \in Jobs : owner[k] = s => phase[k] \notin Pending \cup {"checked"}
    /\ NextRow(s, todo[s])
    /\ UNCHANGED <<doc, workflow, status, rowVars, processed, idle, phase,
                   broker, run, contentVars, todo, faults>>

\* The worker running the sweep dies, in the middle of a retry or not.
CrashSweep(s) ==
    LET mine    == {k \in Jobs : owner[k] = s}
        dropped == {k \in mine : phase[k] = "checked"}
    IN  /\ Fault("sweep")
        /\ sweep[s] # "idle"
        /\ sweep' = [sweep EXCEPT ![s] = "idle"]
        /\ todo' = [todo EXCEPT ![s] = {}]
        /\ target' = [target EXCEPT ![s] = NoJob]
        /\ phase' = [k \in Jobs |->
                       IF k \in dropped THEN "none"
                       ELSE IF k \in mine /\ phase[k] \in Pending THEN "done"
                       ELSE phase[k]]
        /\ kind' = [k \in Jobs |-> IF k \in dropped THEN "none" ELSE kind[k]]
        /\ source' = [k \in Jobs |-> IF k \in dropped THEN NoJob ELSE source[k]]
        /\ owner' = [k \in Jobs |-> IF k \in dropped THEN "api" ELSE owner[k]]
        /\ UNCHANGED <<doc, workflow, status, canRetry, resumeFrom, processed,
                       idle, broker, run, contentVars>>

--------------------------------------------------------------------------------
Request(k) ==
    \/ Upload(k)
    \/ \E j \in Jobs : RetryCheck(j, k) \/ ResumeCheck(j, k)
    \/ RejectStart(k) \/ RetryCommit(k) \/ ResumeCommit(k)
    \/ Enqueue(k) \/ MarkQueued(k) \/ SyncQueued(k)
    \/ StartFails(k) \/ AbandonRequest(k)

Worker(j) ==
    \/ Start(j) \/ Download(j) \/ Prepare(j) \/ StorePage(j) \/ SaveIndex(j)
    \/ Finish(j) \/ FailRun(j) \/ CrashRun(j) \/ LoseMessage(j)

Sweep(s) ==
    \/ SweepCollect(s) \/ SweepMark(s) \/ SweepSkip(s)
    \/ SweepRetrySkip(s) \/ SweepRetryDone(s) \/ CrashSweep(s)
    \/ \E j \in Jobs : SweepCheck(s, j) \/ SweepRetryCheck(s, j)

Next == \/ \E j \in Jobs : Request(j) \/ Worker(j) \/ TimeOut(j)
        \/ \E s \in Sweepers : Sweep(s)

Spec == Init /\ [][Next]_vars

(***************************************************************************)
(* Fairness.  A request handler, a worker and a sweep that are not killed  *)
(* take their next step; a message that is not lost is delivered; time     *)
(* passes; and celery_app.py's beat_schedule starts the sweep again and    *)
(* again.  (docker-compose.yml starts no beat process: where none runs,    *)
(* nothing below about orphaned jobs is promised.)  Users owe nothing.     *)
(***************************************************************************)
RequestFairness == \A k \in Jobs :
    /\ WF_vars(RetryCommit(k)) /\ WF_vars(ResumeCommit(k))
    /\ WF_vars(Enqueue(k)) /\ WF_vars(MarkQueued(k)) /\ WF_vars(SyncQueued(k))

WorkerFairness == \A j \in Jobs :
    /\ WF_vars(Start(j)) /\ WF_vars(Download(j)) /\ WF_vars(Prepare(j))
    /\ WF_vars(StorePage(j)) /\ WF_vars(SaveIndex(j)) /\ WF_vars(Finish(j))
    /\ WF_vars(PageConflict(j) /\ FailRun(j))
    /\ WF_vars(TimeOut(j))

SweepFairness == \A s \in Sweepers :
    /\ WF_vars(SweepCollect(s)) /\ WF_vars(SweepMark(s))
    /\ WF_vars(SweepRetrySkip(s)) /\ WF_vars(SweepRetryDone(s))
    /\ WF_vars(\E j \in Jobs : SweepCheck(s, j))
    /\ WF_vars(\E k \in Jobs : SweepRetryCheck(s, k))

FairSpec == Spec /\ RequestFairness /\ WorkerFairness /\ SweepFairness

--------------------------------------------------------------------------------
(* What holds whatever goes wrong.                                         *)

\* A document is shown as failed only when none of its jobs is queued or
\* running, although uploads, retries, workers and sweeps write documents.status
\* independently (_document_status_after_job_failure and its callers).
FailedDocumentIsIdle == doc = "failed" => ActiveJobs = {}

\* A document is shown as completed only while one of its jobs is: a sweep that
\* takes the completion back from the job takes it from the document too.
CompletedDocumentHasCompletedJob ==
    doc = "completed" => \E j \in Jobs : status[j] = "completed"

\* A document is shown as being processed only while a job is marked running,
\* whichever of two workers or sweeps wrote last.
ProcessingDocumentHasRunningJob ==
    doc = "processing" => \E j \in Jobs : status[j] = "running"

\* The status of a document is never one its jobs contradict, in any order in
\* which requests, workers and sweeps end and restart them.
DocumentTellsOfItsJobs == /\ FailedDocumentIsIdle
                          /\ CompletedDocumentHasCompletedJob
                          /\ ProcessingDocumentHasRunningJob

\* The sweep creates at most AutoRetryLimit retries of a job, also when it is
\* killed between insert and enqueue and swept rows are swept again
\* (_count_auto_retries).  Two overlapping sweeps can exceed the limit.
AutoRetriesWithinLimit ==
    \A j \in Jobs :
        Cardinality({k \in RetriesOf(j) : owner[k] # "api"}) <= AutoRetryLimit

--------------------------------------------------------------------------------
(* What holds when nothing that still works looks stale, requests do not   *)
(* overlap between check and insert, only failed jobs are resumed, and a   *)
(* start request does not fail after its message was sent.                 *)

Calm == /\ ~SlowWork /\ SerialRequests
        /\ "mark" \notin FaultKinds
        /\ "resume stale" \notin UserActions

\* A job with a message in the queue is queued and one with a worker is
\* running: neither a sweep nor a failing request ends a job under its worker.
LiveWorkIsActive ==
    \A j \in Jobs : /\ j \in broker => status[j] = "queued"
                    /\ run[j] \in Working => status[j] = "running"

\* Pages and index of the document are written by one worker at a time.
OneWriter ==
    \A i, j \in Jobs : run[i] \in Working /\ run[j] \in Working => i = j

\* The document has at most one job that is queued or running ("An ingestion
\* job is already running for this document.").
OneActiveJob == \A i, j \in ActiveJobs : i = j

\* The jobs keep the promise of IngestionJobs: started once, ended once, final.
Lifecycle == INSTANCE IngestionJobs WITH Jobs <- Jobs, status <- status
KeepsLifecycle == Lifecycle!Spec

\* The index of a completed document counts each stored page once, in the
\* document's rows and in the user's, and no other page in the document's,
\* however often ingestion failed half way, was retried or resumed before.
CompletedIndexMatchesPages ==
    doc = "completed" =>
        \A p \in PageNumbers :
            /\ slice[p] = (IF p \in pages THEN 1 ELSE 0)
            /\ p \in pages => global[p] = slice[p]

\* A completed document has every page of the part a completed job worked on.
CompletedPartIsStored ==
    doc = "completed" =>
        \E j \in Jobs : /\ status[j] = "completed"
                        /\ (InitialProcessed(j) + 1)..NumPages \subseteq pages

\* A completed document has all its pages.  Not so once checkpoints are resumed.
CompletedDocumentIsWhole == doc = "completed" => pages = PageNumbers

\* Every job that is started ends, whatever is lost or killed (MaxFaults times).
EveryJobEnds ==
    \A j \in Jobs : status[j] \in Active ~> status[j] \in Terminal

--------------------------------------------------------------------------------
(* What the repository says and its code does not keep.                    *)

\* Where a job ended it stays: the progress streams close on a status in
\* TERMINAL_JOB_STATUSES and enqueueing is called idempotent by job id.
EndedJobStaysEnded ==
    [][\A j \in Jobs : status[j] \in Terminal => status'[j] = status[j]]_vars

\* A queued document "is waiting to be processed" (stage "queued"): by a job
\* still to run, or by the request that is about to say so.
QueuedDocumentIsWaiting ==
    doc = "queued" => \/ ActiveJobs # {}
                      \/ \E k \in Jobs : phase[k] \in Pending

\* No global row counts what no document contains: clear_document_index leaves
\* no global row behind, so that a failed retry leaves nothing in the user's
\* lexicon that its documents do not hold.
GlobalRowsHaveSlices == \A p \in PageNumbers : global[p] > 0 => slice[p] > 0

================================================================================
