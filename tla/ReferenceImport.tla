---------------------------- MODULE ReferenceImport ----------------------------
(***************************************************************************)
(* The imports of files into one reference source: the import and retry    *)
(* requests, the Celery workers of the evidence_io queue, and the sweep    *)
(* that declares silent imports failed and retries them.                   *)
(*                                                                         *)
(* An entry is its (surface_form, normalized_form) pair, a file is the set *)
(* of pairs its parser returns.  An action is one committed transaction,   *)
(* or one read of a transaction whose result is used in a later step.      *)
(***************************************************************************)
EXTENDS Integers, FiniteSets

CONSTANTS
    Imports,          \* ids of reference_source_imports rows; bounds their number
    NoImport,         \* retry_of_job_id is NULL, or no row
    Pairs,            \* the pairs that can be in a file
    Files,            \* the files users import, each a set of pairs
    Workers,          \* worker processes of the evidence_io queue
    Sweepers,         \* executions of the sweep task that may overlap
    AutoRetryLimit,   \* settings.job_stale_auto_retry_limit
    MaxFaults         \* bound on the faults of a behaviour

ASSUME ImportsAssumption == IsFiniteSet(Imports) /\ NoImport \notin Imports
ASSUME FilesAssumption   == Files \subseteq SUBSET Pairs
ASSUME PairsAssumption   == IsFiniteSet(Pairs)
ASSUME BoundsAssumption  == AutoRetryLimit \in Nat /\ MaxFaults \in Nat
ASSUME ApiAssumption     == "api" \notin Sweepers

VARIABLES
    status,       \* status[i]: reference_source_imports.status
    canRetry,     \* canRetry[i]: can_retry
    file,         \* file[i]: the stored file of row i
    retryOf,      \* retryOf[i]: retry_of_job_id
    owner,        \* owner[i]: "api", or the sweep that creates row i
    phase,        \* phase[i]: how far the request that creates row i got
    added,        \* added[i]: the entries import i inserted (rows_imported of them)
    broker,       \* imports whose Celery message waits in the queue
    entries,      \* the pairs in reference_entries
    entryCount,   \* reference_sources.entry_count
    step,         \* step[w]: where worker w is in process_import_run
    job,          \* job[w]: the import worker w runs
    loaded,       \* loaded[w]: entry_count of the source row w loaded
    seen,         \* seen[w]: existing_pairs
    sweep,        \* sweep[s]: control state of a sweep
    todo,         \* todo[s]: rows sweep s read and did not visit yet
    target,       \* target[s]: the row sweep s is working on
    faults,       \* faults so far
    overlap       \* history: an import was saved over a stale existing_pairs

rowVars     == <<status, canRetry, file, retryOf, owner, phase>>
resultVars  == <<added, entries, entryCount, overlap>>
workerVars  == <<step, job, loaded, seen>>
sweepVars   == <<sweep, todo, target>>
vars == <<rowVars, resultVars, workerVars, broker, sweepVars, faults>>

Statuses    == {"none", "queued", "running", "completed", "failed"}
Active      == {"queued", "running"}
Phases      == {"none", "checked", "created", "done"}
Steps       == {"idle", "downloading", "parsing", "saving", "failing"}
SweepStates == {"idle", "scanning", "marked", "starting"}

TypeOK ==
    /\ status \in [Imports -> Statuses]
    /\ canRetry \in [Imports -> BOOLEAN]
    /\ file \in [Imports -> SUBSET Pairs]
    /\ retryOf \in [Imports -> Imports \cup {NoImport}]
    /\ owner \in [Imports -> Sweepers \cup {"api"}]
    /\ phase \in [Imports -> Phases]
    /\ added \in [Imports -> SUBSET Pairs]
    /\ broker \subseteq Imports
    /\ entries \subseteq Pairs /\ entryCount \in Nat
    /\ step \in [Workers -> Steps]
    /\ job \in [Workers -> Imports \cup {NoImport}]
    /\ loaded \in [Workers -> Nat]
    /\ seen \in [Workers -> SUBSET Pairs]
    /\ sweep \in [Sweepers -> SweepStates]
    /\ todo \in [Sweepers -> SUBSET Imports]
    /\ target \in [Sweepers -> Imports \cup {NoImport}]
    /\ faults \in 0..MaxFaults
    /\ overlap \in BOOLEAN

Init ==
    /\ status = [i \in Imports |-> "none"]
    /\ canRetry = [i \in Imports |-> TRUE]
    /\ file = [i \in Imports |-> {}]
    /\ retryOf = [i \in Imports |-> NoImport]
    /\ owner = [i \in Imports |-> "api"]
    /\ phase = [i \in Imports |-> "none"]
    /\ added = [i \in Imports |-> {}]
    /\ broker = {}
    /\ entries = {} /\ entryCount = 0
    /\ step = [w \in Workers |-> "idle"]
    /\ job = [w \in Workers |-> NoImport]
    /\ loaded = [w \in Workers |-> 0]
    /\ seen = [w \in Workers |-> {}]
    /\ sweep = [s \in Sweepers |-> "idle"]
    /\ todo = [s \in Sweepers |-> {}]
    /\ target = [s \in Sweepers |-> NoImport]
    /\ faults = 0
    /\ overlap = FALSE

Fault == faults < MaxFaults /\ faults' = faults + 1

--------------------------------------------------------------------------------
(* Starting an import.                                                     *)

\* POST /{source_id}/import: row and stored file, in one commit.  Other imports
\* of the source, active or not, are not looked at.
CreateImport(i, f) ==
    /\ phase[i] = "none"
    /\ phase' = [phase EXCEPT ![i] = "created"]
    /\ status' = [status EXCEPT ![i] = "queued"]
    /\ file' = [file EXCEPT ![i] = f]
    /\ UNCHANGED <<canRetry, retryOf, owner, resultVars, workerVars, broker,
                   sweepVars, faults>>

RetriesOf(j) == {i \in Imports : retryOf[i] = j /\ phase[i] \in {"created", "done"}}

\* existing_active_retry is None.
NoActiveRetry(j) == \A i \in RetriesOf(j) : status[i] \notin Active

\* The checks of create_retry_import_run passed; the file is looked up next.
Reserve(i, j, who) ==
    /\ phase[i] = "none"
    /\ phase' = [phase EXCEPT ![i] = "checked"]
    /\ retryOf' = [retryOf EXCEPT ![i] = j]
    /\ owner' = [owner EXCEPT ![i] = who]

\* A user's retry, up to _ensure_source_file_exists.
RetryCheck(j, i) ==
    /\ status[j] = "failed" /\ canRetry[j]
    /\ NoActiveRetry(j)
    /\ Reserve(i, j, "api")
    /\ UNCHANGED <<status, canRetry, file, resultVars, workerVars, broker,
                   sweepVars, faults>>

\* The file cannot be downloaded (409), or the process dies: nothing inserted.
RejectRetry(i) ==
    /\ Fault
    /\ phase[i] = "checked"
    /\ phase' = [phase EXCEPT ![i] = "none"]
    /\ retryOf' = [retryOf EXCEPT ![i] = NoImport]
    /\ owner' = [owner EXCEPT ![i] = "api"]
    /\ UNCHANGED <<status, canRetry, file, resultVars, workerVars, broker,
                   sweepVars>>

\* The rest of create_retry_import_run.
RetryCommit(i) ==
    /\ phase[i] = "checked"
    /\ phase' = [phase EXCEPT ![i] = "created"]
    /\ status' = [status EXCEPT ![i] = "queued"]
    /\ file' = [file EXCEPT ![i] = file[retryOf[i]]]
    /\ UNCHANGED <<canRetry, retryOf, owner, resultVars, workerVars, broker,
                   sweepVars, faults>>

Enqueue(i) ==
    /\ phase[i] = "created"
    /\ phase' = [phase EXCEPT ![i] = "done"]
    /\ broker' = broker \cup {i}
    /\ UNCHANGED <<status, canRetry, file, retryOf, owner, resultVars,
                   workerVars, sweepVars, faults>>

\* A request marks the row failed and leaves can_retry TRUE; the sweep only logs.
EnqueueFails(i) ==
    /\ Fault
    /\ phase[i] = "created"
    /\ phase' = [phase EXCEPT ![i] = "done"]
    /\ status' = IF owner[i] = "api" THEN [status EXCEPT ![i] = "failed"] ELSE status
    /\ UNCHANGED <<canRetry, file, retryOf, owner, resultVars, workerVars,
                   broker, sweepVars>>

\* The API process dies between commit and enqueue.
AbandonRequest(i) ==
    /\ Fault
    /\ phase[i] = "created" /\ owner[i] = "api"
    /\ phase' = [phase EXCEPT ![i] = "done"]
    /\ UNCHANGED <<status, canRetry, file, retryOf, owner, resultVars,
                   workerVars, broker, sweepVars>>

--------------------------------------------------------------------------------
(* The worker: process_import_run.                                         *)

\* First transaction: RUNNING, whatever the row was.
Take(w, i) ==
    /\ step[w] = "idle" /\ i \in broker
    /\ broker' = broker \ {i}
    /\ step' = [step EXCEPT ![w] = "downloading"]
    /\ job' = [job EXCEPT ![w] = i]
    /\ status' = [status EXCEPT ![i] = "running"]
    /\ UNCHANGED <<canRetry, file, retryOf, owner, phase, resultVars, loaded,
                   seen, sweepVars, faults>>

\* The file is there; the last transaction loads the row and its source, and
\* parses the file.
Load(w) ==
    /\ step[w] = "downloading"
    /\ step' = [step EXCEPT ![w] = "parsing"]
    /\ loaded' = [loaded EXCEPT ![w] = entryCount]
    /\ UNCHANGED <<rowVars, resultVars, job, seen, broker, sweepVars, faults>>

\* The stage event "extracting_entries" flushes the row, which stays locked from
\* here on; then existing_pairs is read.
ReadExisting(w) ==
    /\ step[w] = "parsing"
    /\ step' = [step EXCEPT ![w] = "saving"]
    /\ seen' = [seen EXCEPT ![w] = entries]
    /\ UNCHANGED <<rowVars, resultVars, job, loaded, broker, sweepVars, faults>>

Locked(i) == \E w \in Workers : step[w] = "saving" /\ job[w] = i

\* Faulty variant of RowsToInsert: existing_pairs is not consulted.
RowsToInsertAll(w) == file[job[w]]

RowsToInsert(w) == file[job[w]] \ seen[w]

\* Faulty variant of Conflicts: no unique constraint on the entries.
ConflictsNever(w) == FALSE

\* uq_reference_entries_source_surface_normalized.
Conflicts(w) == RowsToInsert(w) \cap entries # {}

\* Faulty variants of NewCount: the loaded count is increased; the existing pairs
\* are taken off.
NewCountIncreased(w) == loaded[w] + Cardinality(RowsToInsert(w))
NewCountLess(w)      == Cardinality(RowsToInsert(w)) - Cardinality(seen[w])

NewCount(w) == Cardinality(seen[w]) + Cardinality(RowsToInsert(w))

\* Entries, source row and COMPLETED in one commit.  SQLAlchemy writes a column
\* only when its value differs from the one it loaded.
Save(w) ==
    /\ step[w] = "saving" /\ ~Conflicts(w)
    /\ step' = [step EXCEPT ![w] = "idle"]
    /\ entries' = entries \cup RowsToInsert(w)
    /\ added' = [added EXCEPT ![job[w]] = RowsToInsert(w)]
    /\ entryCount' = IF NewCount(w) = loaded[w] THEN entryCount ELSE NewCount(w)
    /\ status' = [status EXCEPT ![job[w]] = "completed"]
    /\ overlap' = (overlap \/ seen[w] # entries)
    /\ UNCHANGED <<canRetry, file, retryOf, owner, phase, job, loaded, seen,
                   broker, sweepVars, faults>>

\* An exception: from anything the worker calls, and from the unique constraint.
\* The transaction is rolled back.
Fail(w) ==
    /\ \/ step[w] \in {"downloading", "parsing", "saving"} /\ Fault
       \/ step[w] = "saving" /\ Conflicts(w) /\ UNCHANGED faults
    /\ step' = [step EXCEPT ![w] = "failing"]
    /\ UNCHANGED <<rowVars, resultVars, job, loaded, seen, broker, sweepVars>>

\* Faulty variant of FailureStatus: a file with known pairs counts as imported.
FailureStatusOfDuplicate(w) == IF Conflicts(w) THEN "completed" ELSE "failed"

FailureStatus(w) == "failed"

\* _mark_import_failed, in a transaction of its own.
MarkFailed(w) ==
    /\ step[w] = "failing"
    /\ step' = [step EXCEPT ![w] = "idle"]
    /\ status' = [status EXCEPT ![job[w]] = FailureStatus(w)]
    /\ \E again \in BOOLEAN : canRetry' = [canRetry EXCEPT ![job[w]] = again]
    /\ UNCHANGED <<file, retryOf, owner, phase, resultVars, job, loaded, seen,
                   broker, sweepVars, faults>>

\* The worker process dies, or cannot reach the database to mark the failure.
CrashWorker(w) ==
    /\ Fault
    /\ step[w] # "idle"
    /\ step' = [step EXCEPT ![w] = "idle"]
    /\ UNCHANGED <<rowVars, resultVars, job, loaded, seen, broker, sweepVars>>

\* The message is lost, or the first transaction fails: nothing catches that.
LoseMessage(i) ==
    /\ Fault
    /\ i \in broker
    /\ broker' = broker \ {i}
    /\ UNCHANGED <<rowVars, resultVars, workerVars, sweepVars>>

--------------------------------------------------------------------------------
(* The sweep.  Nothing an import does is visible between its first and its *)
(* last commit, so any active import may look stale.                       *)

\* _collect_active_jobs: the copies the sweep works with.
SweepCollect(s) ==
    LET active == {i \in Imports : status[i] \in Active}
    IN  /\ sweep[s] = "idle" /\ active # {}
        /\ sweep' = [sweep EXCEPT ![s] = "scanning"]
        /\ todo' = [todo EXCEPT ![s] = active]
        /\ UNCHANGED <<rowVars, resultVars, workerVars, broker, target, faults>>

\* The loop of sweep_stale_jobs goes on with the rows in rest, or ends.
NextRow(s, rest) ==
    /\ sweep' = [sweep EXCEPT ![s] = IF rest = {} THEN "idle" ELSE "scanning"]
    /\ todo' = [todo EXCEPT ![s] = rest]
    /\ target' = [target EXCEPT ![s] = NoImport]

\* The row does not look stale; or it stays locked for lock_timeout, and the
\* rollback makes the loop read the remaining rows again.
SweepPass(s, i) ==
    /\ sweep[s] = "scanning" /\ i \in todo[s]
    /\ \/ NextRow(s, todo[s] \ {i})
       \/ Locked(i) /\ NextRow(s, {k \in todo[s] : k # i /\ status[k] \in Active})
    /\ UNCHANGED <<rowVars, resultVars, workerVars, broker, faults>>

\* _mark_job_stale, whatever the row became since it was read.  can_retry is
\* TRUE in the copy, so the column is not written.
SweepMark(s, i) ==
    /\ sweep[s] = "scanning" /\ i \in todo[s] /\ ~Locked(i)
    /\ sweep' = [sweep EXCEPT ![s] = "marked"]
    /\ todo' = [todo EXCEPT ![s] = @ \ {i}]
    /\ target' = [target EXCEPT ![s] = i]
    /\ status' = [status EXCEPT ![i] = "failed"]
    /\ UNCHANGED <<canRetry, file, retryOf, owner, phase, resultVars,
                   workerVars, broker, faults>>

\* _count_auto_retries counts the retries users asked for too.
MayAutoRetry(j) == /\ Cardinality(RetriesOf(j)) < AutoRetryLimit
                   /\ NoActiveRetry(j)

\* _auto_retry_stale_job up to the file check.
SweepRetryCheck(s, i) ==
    /\ sweep[s] = "marked" /\ MayAutoRetry(target[s])
    /\ sweep' = [sweep EXCEPT ![s] = "starting"]
    /\ Reserve(i, target[s], s)
    /\ UNCHANGED <<status, canRetry, file, resultVars, workerVars, broker, todo,
                   target, faults>>

\* No automatic retry; also when the model has no row left to insert.
SweepRetrySkip(s) ==
    /\ sweep[s] = "marked"
    /\ ~MayAutoRetry(target[s]) \/ \A i \in Imports : phase[i] # "none"
    /\ NextRow(s, todo[s])
    /\ UNCHANGED <<rowVars, resultVars, workerVars, broker, faults>>

\* The retry it started is through (Enqueue and the like): next row.
SweepRetryDone(s) ==
    /\ sweep[s] = "starting"
    /\ \A i \in Imports : owner[i] = s => phase[i] = "done"
    /\ NextRow(s, todo[s])
    /\ UNCHANGED <<rowVars, resultVars, workerVars, broker, faults>>

\* The process running the sweep dies; a row it inserted stays, not enqueued.
CrashSweep(s) ==
    LET dropped == {i \in Imports : owner[i] = s /\ phase[i] = "checked"}
        kept    == {i \in Imports : owner[i] = s /\ phase[i] = "created"}
    IN  /\ Fault
        /\ sweep[s] # "idle"
        /\ NextRow(s, {})
        /\ phase' = [i \in Imports |-> IF i \in dropped THEN "none"
                                       ELSE IF i \in kept THEN "done" ELSE phase[i]]
        /\ retryOf' = [i \in Imports |-> IF i \in dropped THEN NoImport ELSE retryOf[i]]
        /\ owner' = [i \in Imports |-> IF i \in dropped THEN "api" ELSE owner[i]]
        /\ UNCHANGED <<status, canRetry, file, resultVars, workerVars, broker>>

--------------------------------------------------------------------------------
Request(i) ==
    \/ \E f \in Files : CreateImport(i, f)
    \/ \E j \in Imports : RetryCheck(j, i)
    \/ RejectRetry(i) \/ RetryCommit(i)
    \/ Enqueue(i) \/ EnqueueFails(i) \/ AbandonRequest(i) \/ LoseMessage(i)

Work(w) ==
    \/ \E i \in Imports : Take(w, i)
    \/ Load(w) \/ ReadExisting(w) \/ Save(w)
    \/ Fail(w) \/ MarkFailed(w) \/ CrashWorker(w)

Sweep(s) ==
    \/ SweepCollect(s) \/ SweepRetrySkip(s) \/ SweepRetryDone(s) \/ CrashSweep(s)
    \/ \E i \in Imports : SweepPass(s, i) \/ SweepMark(s, i) \/ SweepRetryCheck(s, i)

Next == \/ \E i \in Imports : Request(i)
        \/ \E w \in Workers : Work(w)
        \/ \E s \in Sweepers : Sweep(s)

Spec == Init /\ [][Next]_vars

--------------------------------------------------------------------------------
(* What holds however imports, retries and sweeps overlap.                 *)

\* Every pair of a completed import's file is in the source, also when it was
\* already there, when another worker ran the same file, or when the import was
\* declared failed while its worker went on (process_import_run).
CompletedImportIsStored ==
    \A i \in Imports : status[i] = "completed" => file[i] \subseteq entries

\* Every entry was inserted by exactly one import: the rows_imported of all
\* imports, failed ones included, add up to the number of entries, although
\* existing_pairs is stale when two imports of the source overlap.
EntriesImportedOnce ==
    /\ entries = UNION {added[i] : i \in Imports}
    /\ \A i, j \in Imports : i # j => added[i] \cap added[j] = {}

\* reference_sources.entry_count may miss entries but never invents one, in any
\* overlap of imports: the page "imported, matched, unmatched" of the source
\* never shows an unmatched entry that does not exist.
EntryCountNeverOverstates == entryCount <= Cardinality(entries)

\* entry_count is the number of entries: also after failed, retried and swept
\* imports, until two imports overlap between reading and saving.
CountIsTrueWithoutOverlap == ~overlap => entryCount = Cardinality(entries)

\* What the page of a source tells of its entries: not one too many, and all of
\* them as long as no import was saved over entries it had not read.
EntryCountAgrees == EntryCountNeverOverstates /\ CountIsTrueWithoutOverlap

--------------------------------------------------------------------------------
(* What the repository says and its code does not keep.                    *)

\* entry_count is the number of entries, as migration 0007 filled it in.
EntryCountIsTrue == entryCount = Cardinality(entries)

================================================================================
