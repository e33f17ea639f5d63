# A verification project for Maten

Maten is the backend of an Armenian book workbench: a FastAPI service over
PostgreSQL, object storage and Redis, with Celery workers. Users upload books;
workers extract pages (PDF text or OCR), split them into word occurrences and
keep an index of words; further runs analyse the words (morphology, discovery
candidates, external dictionaries, reference word lists) and users curate them
into lexemes.

Almost every hard question about this code has one shape: a long job is a row,
several processes change it without talking to each other (API requests, Celery
workers, a periodic sweep that declares silent jobs dead), and the results of
the job live in other rows that must agree with it. This project models that.

Paths below are relative to the repository (`src/` is its root); unless they say
otherwise they are under `src/app/services/`.

## 1. Inventory

| Component | Code | State | Operations | Hard parts |
|---|---|---|---|---|
| Ingestion pipeline | `ingestion_service`, `document_service`, `ingestion_job_service`, `job_retry_service`, `job_resume_service`, routers `documents`, `jobs` | `documents.status`, `ingestion_jobs`, `document_pages`, `occurrences` | upload, retry, resume, `process_job`, `mark_job_failed` | several commits per handler, check then insert, workers that overlap, checkpoints, redelivery |
| Stale-job sweep | `stale_job_recovery_service`, task `sweep_stale_jobs` | job rows of six kinds, `job_stage_events` | collect, `is_job_stale`, fail, automatic retry | works on copies, races the worker it declares dead, may overlap itself |
| Job progress | `job_progress_service`, `job_progress_notifier` | `job_stage_events`, `updated_at`, Redis channel | `set_stage`, `append_event`, `complete`, `fail` | the only clock the sweep has |
| Job streams | `job_stream_service` | per-connection queue and set of seen events | snapshot, Redis listener, database poller | two sources feeding one queue; subscribe after snapshot; events published before they are committed |
| Admission | `backpressure_service`, `long_running_job_service` | counts of active rows | `ensure_*_capacity` | count then insert |
| Document workflow | `document_workflow_service` | `document_workflow.stage` | `sync_for_document`, `sync_for_normalized_forms` | a cache of what other tables say |
| Lexicon index | `lexicon_group_index_service`, `lexicon_index_projection`, `lexicon_index_rebuild_service` | per-document and per-user index rows, metadata | add page, clear, recount, publish, rebuild user | global rows shared by documents; read-modify-write |
| Discovery | `discovery/` | build runs, candidates, evidence | start, `process_run`, refresh, review | run status against sweep, results replaced while read |
| Morphology | `morphology/` | runs, analyses | create, `process_run` | external PIE process, partial results |
| Trusted lookup | `document_nayiri_lookup_service`, `external_lookup_service` | runs, lookup cache | start, per-word transactions | network, stale runs replaced while alive |
| Reference sources | `reference_import_service`, `reference_source_service`, `reference_parsers` | sources, imports, entries | create, import, retry | duplicates, counts |
| Reference matching | `reference_matching_service`, `reference_status_service` | match runs, results | start, run, retry, review | one long transaction |
| Curation | `lexeme_service`, `lexicon_review_service`, `lexicon_action_service`, `source_word_review_service` | lexemes, links, reviews, ignored groups | create, merge, review | links against index metadata |
| Search and evidence | `word_search_service`, `word_evidence_service` | none | queries | read only |
| Resolution, validation | `lexeme_resolution/`, `validation/`, `discovery/resolution_engine` | none | pure decisions | many cases |
| Text extraction | `page_extraction_service`, `ocr_service`, `tokenization_service`, `occurrence_service` | none | pages to words | characters |
| Adapters | `auth_service`, `storage_service`, `health_service`, `core/` | none | calls out | their failures |
| Scripts, NER, migrations | `app/scripts`, `ner/`, `src/alembic` | none of their own | run by hand | |

How they meet: the API inserts a row and sends the row's id to Celery
(`JobOrchestrator.enqueue`, task id = row id); the worker loads the row and
writes its results in several transactions; progress is written to the row and
to `job_stage_events`, from which the sweep computes how long a job has been
silent; a finished ingestion starts morphology and discovery; ingestion,
curation and maintenance all write the lexicon index.

Facts about this commit that shape the models: documents are never deleted;
sessions use `autoflush=False, expire_on_commit=False`
(`src/app/core/database.py`); Celery acknowledges a message when the task
starts (no `acks_late`), and a job is stale after 30 minutes without an event
or a row update; the sweep is scheduled every 300 s but `docker-compose.yml`
starts no beat process.

What makes each component correct, beyond the hazards listed with their lines in
`PROJECT.json`:

- ingestion: what `documents.status` says is true of its jobs; one writer of its
  pages; a completed document is completely and exactly indexed; every job ends;
- sweep: never fails a job that is still worked on (as long as silence means
  death), bounded retries;
- streams: every event delivered, once, before the end;
- lexicon index: once writers rest, a global row is the sum of its documents' rows,
  and no row is left for a word that no document contains;
- evidence runs: one build at a time writes a document's candidates, the results
  follow the last change of what they were computed from, and a reviewer's
  decision outlives them;
- matching: counts and lists agree, stored matches come from one run;
- lookups: what was found of a word is shown while it is fresh;
- imports: no entry twice, `entry_count` is the number of entries;
- curation: a form belongs to at most one lexeme, lists follow the decisions.

## 2. Modules

| Module | What it is |
|---|---|
| `IngestionJobs` | abstract: the life of the `status` column, one active job at a time |
| `DocumentIngestion` | the pipeline of one document: requests, worker, sweep |
| `DocumentIngestion_proofs` | types, document status, automatic retries; Calm: one active job, refinement of `IngestionJobs`, content |
| `ReferenceImport` | the imports of one reference source: requests, workers, sweep |
| `LexiconIndex` | the lexicon index of one user: several documents, rebuilds |
| `LexiconIndex_proofs` | types, slices, listed words, merged rows, repair |
| `EvidenceRuns` | morphology runs and full builds of one document: starts, workers, sweep |
| `EvidenceRuns_proofs` | analyses of one save, the limit, one build at work, candidates that follow, tokens counted once; builds implement `IngestionJobs` |
| `FormEvidence` | operators: evidence of a form, classification, resolution, canonical form |
| `DiscoveryCandidates` | the candidate of one form: builds, refreshes, reviews, evidence states |
| `DiscoveryCandidates_proofs` | the rules for any evidence; types, up to date, trusted, decisions |
| `TrustedLookup` | lookup runs of one document and the cache of answers |
| `ImportsAndLookups_proofs` | imports: types, entry count, stored entries; lookups: types, known words, findings that stay |
| `ReferenceMatching` | matching runs of one user, of both directions |
| `ReferenceStatus` | extends it: summaries and filters that read what the runs stored |
| `ReferenceMatching_proofs` | types, counts, stored matches, summaries against filters |
| `LexemeCuration` | links, ignored words, the index rows and workflow stages that follow |
| `LexemeCuration_proofs` | types, one lexeme for a form, lists that follow the decisions |
| `JobStream` | one connection to a job stream beside the job's transactions |
| `JobStream_proofs` | types, each event once and before the end, the end is queued |
| `MC...` | constants of `DocumentIngestion`, `ReferenceImport`, `LexiconIndex`, `EvidenceRuns`, `DiscoveryCandidates`, `TrustedLookup`, `ReferenceMatching`, `LexemeCuration`, `JobStream` for TLC |

### DocumentIngestion and the code

An action is one committed transaction, or one event outside the database. A
handler that commits more than once is a chain of actions linked by `phase[k]`
(request or sweep creating row `k`), `run[j]` (worker on job `j`) or `sweep[s]`:

- upload: `Upload` (file stored, row committed), `Enqueue`, `MarkQueued`,
  `SyncQueued`; `StartFails` is the except branch, `AbandonRequest` a dead API
  process;
- retry and resume: `RetryCheck`/`ResumeCheck` (all checks, before the object
  store is asked for the file), `RejectStart` or `RetryCommit`/`ResumeCommit`,
  then as for upload. The gap between check and commit is a network call in the
  code, and is what lets two requests pass one check;
- `process_job`: `Start`, `Download`, `Prepare`, `StorePage` for each page,
  `SaveIndex`, `Finish`; `FailRun` is `_mark_failed`, `CrashRun` a killed process;
- sweep: `SweepCollect` (reads all rows at once), `SweepCheck` (looks at one),
  `SweepMark` (commits the failure), `SweepRetryCheck` and the retry's own
  actions, `SweepRetrySkip`, `SweepRetryDone`; `SweepSkip` is the lock timeout
  and its rollback, after which the remaining copies are read again.

`idle[j]` abstracts the two clocks of `get_last_progress_at` (newest event, row
`updated_at`) to what the sweep can tell apart. A page is a number; `slice[p]`
and `global[p]` say how often page `p` is counted in the document's and in the
user's index rows (each page has words of its own in the model). The index is
modelled as on PostgreSQL (`Published`): recounting the global rows updates the
words that the document's rows still count and leaves the others as they are;
the Python path, used on SQLite and in the tests, deletes them. The content of
a page, OCR, file formats and messages to the user are left out.

Abstractions a reader should know: interleavings inside one transaction under
READ COMMITTED appear only where the handler is split; the lexicon's
read-modify-write against other documents, Celery redelivery and the number of
worker processes are not in this module; a fresh run always finds words; only
one document; a sweep that finds nothing stale is left out; `SweepRetrySkip` also
happens when the model has no row left to insert. `mark_enqueue_failed` is never
called. The morphology and discovery runs started at the end are in
`EvidenceRuns`.

### ReferenceImport and the code

An entry is its (surface form, normalized form) pair, the columns of the unique
constraint; a file is the set of pairs its parser returns. Parsers, storage and
the creation of sources are outside.

- requests: `CreateImport` is the import endpoint, which looks at no other
  import; `RetryCheck`, `RejectRetry`, `RetryCommit` are `create_retry_import_run`
  around the check that the file exists; `Enqueue`, `EnqueueFails`,
  `AbandonRequest`, `LoseMessage` as for documents;
- `process_import_run`: `Take` is its first transaction, the rest is one
  transaction split at its reads: `Load` (the source row, with its `entry_count`),
  `ReadExisting` (`existing_pairs`), `Save` (entries, count and COMPLETED
  together). `Fail` is an exception, the unique constraint's included
  (`Conflicts`), and `MarkFailed` the transaction that records it;
- sweep: as in `DocumentIngestion`. From the flush of the `extracting_entries`
  event to the commit the row is locked (`Locked`), and the sweep passes over it.

Two details decide what the count can become. SQLAlchemy writes `entry_count`
only when the new value differs from the one it loaded, which is why `loaded` is
a variable. And nothing an import does is visible between its first and its last
commit, so a slow import and a dead one look the same to the sweep: any active
import may be failed, and then completes all the same. `overlap` is a history
variable, TRUE once an import was saved over a stale `existing_pairs`. The
`last_import_*` columns and `import_entries`, which only tests call, are left out.

### LexiconIndex and the code

Where `DocumentIngestion` asks how one document's jobs treat the index,
`LexiconIndex` asks what documents and rebuilds do to each other. The index has
two tables: per document and word (`slice`), and per word of the user. A row of
the second is computed from slices and from nothing else, so it is modelled by
the slices it was summed from: `merged[f]`, one count per document, and
`listed`, the words that have a row. Totals, page and document counts, samples
and scripts are functions of these.

- `txn[x]` is the open transaction of worker or task `x`. Its steps are the
  statements of `clear_document_index`, `rebuild_document`, `rebuild_user` and
  `rebuild_global_rows`: `Begin`, `ReplaceSlices` (DELETE, then INSERT of the
  occurrence counts), `StartPublish` (the snapshot of `REBUILD_GLOBAL_ROWS_SQL`),
  `WriteRow` once per word, `Commit` or `Rollback`.
- READ COMMITTED: a statement sees what is committed when it starts (`seen` keeps
  it while rows are written) and what its own transaction did (`View`). Rows stay
  locked until the end (`SliceHolders`, `Held`). A DELETE that waited (`Block`)
  and then goes on does not see the rows inserted meanwhile (`missed`).
  Transactions that wait for each other are broken by the database
  (`Deadlocked`). These rules are PostgreSQL's and marked external.
- ingestion of document `d` is reduced to what touches the index: `StartClear`,
  `CommitClear`, `StorePage`, `StorePageFails`, `StartSave`, `CommitSave`,
  `Finish`, `FailRun`, `FailTransaction`, `StartResume`. That one worker at a time
  does this for a document, and that the pages before a checkpoint are stored, is
  what `DocumentIngestion` shows for calm conditions (`OneWriter`,
  `CompletedPartIsStored`).
- `StartRebuild`, `CommitRebuild`, `FailRebuild` are the rebuild endpoint and
  task, of a document or of the user.

`stale` and `txn[x].alone` are history variables. Left out: the Python path of
SQLite; the columns `sync_metadata` copies from curation, which
`LexemeCuration` has. A user rebuild that waits for its first DELETE is taken to start
when the wait is over. A page is stored in one step: what it loads is what it
writes back, unless a rebuild holds those slices (`PageLocked`), and then it
fails.

`RebuildDuringClear = FALSE` keeps rebuilds away from a document while its
clear is open. Nothing in the code does. With TRUE, `SlicesAreExact` fails: the
clear's DELETE waits for a rebuild of the same document, does not see the slices
it inserted, and the new pages are counted on top of them. A rebuild repairs it.

### EvidenceRuns and the code

- starting a run is a chain of actions of a caller: the user (`UserAsks`), the
  ingestion worker after its last commit (`CompleteText`) or a morphology worker
  after its save. `Proceed` is the next step of `call[c]`: the active-run check
  and the user's count in one read (`CheckBuild`, `CheckMorphology` inside it),
  the insert in another transaction, the message last. `EnqueueFails` and
  `CallerDies` cut the chain; the run is committed by then, or not.
- workers: `Begin` takes a message, whatever the run's status is;
  `AnalyzeTokens` runs all PIE batches, `DeleteRows` and `SaveRows` are the two
  statements that replace the rows; `ReadEvidence` and `FinishBuild` are a
  build's. `FailBuild` and `SaveFails` are the exception paths, `Kill` a dead
  process.
- `Sweep` ends a run that nobody works on, `SweepEarly` one that is slow.
- `disturbed` and `missed` are history variables.

Left out: stages, progress and texts of a run; the sweep's copy of the rows
(it checks and fails in one step here, `DocumentIngestion` has the gap). A run
whose document was re-ingested while PIE worked violates a foreign key when it
saves, and its row stays `running` until the sweep: the exception handler uses
the same broken session.

### FormEvidence, DiscoveryCandidates and the code

`FormEvidence` is the decision a build takes for one form: providers and their
trust, `classify` of the match classifier, the evidence items the sources yield,
and the sixteen rules of `ResolutionEngine` in their order (`Rules`), the score,
the canonical form. Two forms are told apart, the judged one and its dictionary
lemma; what the sources know is a record over small sets.

`DiscoveryCandidates` uses it for the row of one form. `AskBuild` and
`StartBuild` are the two statements of `start_build_run`, `StartRefresh` those
of a reference-only refresh; `BeginRun`, `ReadEvidence`, `WriteCandidate`,
`FailRun` are `process_run`. SQLAlchemy writes the columns that differ from what
was read, so a run keeps the row it read (`read.row`) and `WriteCandidate`
changes what differs. Messages are delivered once here, and a run reads all its
evidence in one step; lost and doubled messages are in `EvidenceRuns`. `IsListed` and
`Summary` are the lists' filters and counts.

### TrustedLookup and the code

`CheckRun` is the start endpoint up to its checks, `InsertRun` with `EnqueueRun`
or `EnqueueRunFails` the rest; the endpoint is a plain `def`, so requests race in
threads. `BeginRun` takes a run and lists the words without a fresh answer;
`LookUp` is the next step of `task[w]`: the corpus, the web, the lemma, each
with its own transaction, in which a row is dated by the transaction's start
(`created_at` is `now()`), not by its commit. `Shown`, `FoundForms`,
`NotFoundForms`, `Summary` and `SearchStatus` are five readings of the same
rows. Corpus and lemma rows never expire; `Expire` lets the others expire.

Left out: several documents sharing the limit, a switched-off web lookup, a time
to live of 0 (never), redelivery, counters and progress. Words are taken in any
order. A late message restarts a failed run (`messages`).

A word can be asked for as the lemma of another (`IsLemma`). What the web says of
it then is cached as the answer about that word, past the corpus and past the
word's own lemma, and later runs skip it. `KnownWordsAreShown` says so: its
clauses about the corpus and about the lemma are for words that are no lemma.

### ReferenceMatching, ReferenceStatus and the code

A run is one transaction: `Take` loads it, `ReadTargets` and `ReadEntries` read,
`DeleteFoundMatches` or `DeleteMatches` remove what earlier runs stored and
`CompleteTargets` or `CompleteEntries` insert and commit; nobody sees `running`
before that. `FailRun` rolls back and `WriteFailure` records the failure in a
second transaction. From its first flush the worker holds the row of its run
(`Locked`); the sweep (`SweepRead`, `SweepFail`, `SweepSkip`, `SweepRetry`) holds
nothing between reading and failing and may fail a run that has completed
meanwhile (its rows stay). `Request` is `CreateRun` or `RetryRun`. `Near` is the
similarity of two forms above the threshold, with bucket and length window.

`ReferenceStatus` has the reading side: for groups, lexemes, entries and words
the summary shown beside each row, and the SQL filter that lists the rows with
that status. They are written separately in the code and disagree in several
cases, which `ShownAsMatchedIsListed` names one by one.

Left out: deletions (the code has none of entries, sources, lexemes or
documents), groups that are ignored, scores and explanations.

### LexemeCuration and the code

A request (`Request`) is one transaction in three steps: it reads, it flushes
its decision with the group counts it read before, it commits. The handlers are
`async def` with synchronous bodies, so a process runs one at a time and two
API processes are needed for two to overlap; `docker-compose.yml` starts one.
`Work` is the publication, clearing or rebuild of a document's index rows,
whose `sync_metadata` copies decision and link of each word. `ListGroups`,
`ListDocumentGroups`, `ReviewQueue` are the lists. `crossed` is the history of
words whose row was last written by one of two overlapping transactions.

Left out: changing names and notes of a lexeme, the review of source words,
samples. Occurrences that are ingested after a word was linked keep an empty
`lexeme_id` (`src/README.md:575` leaves that to the index, which has the link).

### JobStream and the code

The job's side is `WriteJob`: `AppendEvent` publishes to Redis, `Commit` or
`Rollback` follow. The connection's side: `OpenJob` or `OpenActive`, `Snapshot`,
then `Listen` (Redis), `Poll` (the database, every few seconds) and `Consume`,
which takes an item and sends in further steps because sending yields. The three share an event loop and a synchronous read of the database
holds it (`conn.reading`), so between the two statements of a read only the job
and Redis move. One connection is enough: connections change nothing.

Left out: pings; the branch for a job that does not exist, which the endpoint
excludes; the list of several active jobs. The queue is unbounded in the code;
`MaxQueue` stops the poller, not the listener.

## 3. Runs

| Run | Bounds | Shows |
|---|---|---|
| `hostile` | 2 rows, 2 pages, 1 sweep, 2 faults of any kind, slow workers, overlapping requests | types; the document's status is never contradicted by its jobs |
| `calm_resume` | 3 rows, 2 pages, 2 overlapping sweeps, 2 faults | one active job, one writer, exact index, stored part, bounded automatic retries, refinement of `IngestionJobs` |
| `ends` | 3 rows, 1 page, 2 sweeps, 1 fault, fairness | every active job ends |
| `old_checkpoint` | violation | an old checkpoint is resumed after its pages were removed |
| `imports_overlap` | 3 imports, 2 workers, 1 sweep, 1 fault | types; completed imports are stored, each entry once, the count never too high, and right without overlap |
| `index_shared` | 2 documents of 2 pages sharing 2 words, 2 jobs each, 1 task with 2 rebuilds, 1 fault | types; slices count the occurrences, completed words have rows, rows are merged from the slices unless publications overlapped, a rebuild that is alone repairs the rest |
| `evidence_runs` | 3 runs, 2 ingestions, 2 workers a queue, 1 fault, limit 1 | types; two builds work at once, analyses are of two saves, the limit is exceeded, and candidates miss a change only in the named ways |
| `candidates` | 2 runs, 2 sources with an import each, 2 changes | types; status and type agree unless runs overlapped, decisions outlive runs, a source that is reported up to date was read, only trusted sources resolve a form |
| `lookup` | 2 runs, 2 request threads, 2 workers, a word and its lemma, 1 expiry, 1 fault | types; what was found is shown as found, in every list alike |
| `matching` | 2 runs of either direction, 2 workers, 2 entries, 2 words, 1 lexeme, 2 changes, 1 fault | types; counts are those of the listed rows, stored matches of one run, summaries and filters agree but for the named cases |
| `curation` | 2 requests in 2 API processes, 2 documents, 2 words, 2 lexemes, 1 worker, 1 clearing or rebuild | types; a form has one lexeme, lists follow the decisions unless transactions overlapped |
| `streams` | 1 connection, 4 events, queue of 4, 1 fault, fairness | types; each event at most once from each side, all of them before the end; the client is told of the end |

*Calm* means: nothing that still works looks stale (`SlowWork = FALSE`), no two
requests are between check and insert (`SerialRequests`), only failed jobs are
resumed, and a start request does not fail after its message was sent. Faults
(lost messages, killed workers, requests and sweeps, exceptions) still happen.
`hostile` shows what survives without these conditions.

Why the bounds are enough: three rows give a source, its retry and a retry or
resume of either; two pages separate the first, the last and the checkpoint page;
two sweeps are all that can disagree; two faults make a fault during the
recovery from a fault. Two rows in `hostile` give every pair of jobs writing one
document. Rows and sweeps are interchangeable (symmetry in the safety runs
only). For imports, three rows give two imports and the retry of one while the
other runs; two workers are the default concurrency of the `evidence_io` queue in
`docker-compose.yml`; two pairs with the files {p1}, {p2}, {p1, p2} give
disjoint, equal and overlapping files. For the index, two documents are all
that can disagree about a row; the first page has one word and the second both,
so a word has its slice inserted by one page and updated by another, and two
publications can write the same two rows in opposite orders (a deadlock); two
jobs per document give every retry and resume, two rebuilds a second one after a
failed or overlapped first.

For the newer runs: three evidence runs are a morphology run, the build it
starts and one more by a user or by the second ingestion; two workers of the
`nlp` queue are one more than `docker-compose.yml` starts, the number is
configurable, and all overlap needs a second; one fault is enough for each way
in which the properties exempt a state to happen. Two builds are a read and a
write around another's. A word and its lemma are the only words whose answers
meet; two runs the limit tells apart, and one that was failed while it works.
Two matching runs are one of each direction, or a retry of the same. In
curation two requests and one index transaction are every pair that can overlap
and one more. Four events are a snapshot's, a published one, one that is rolled
back and the end; a job started again needs two more than a job that ends once.
Deadlock is not checked: when jobs have ended and rows and bounds are used up
nothing is left to do.

Fairness, of `ends` (`FairSpec`): handlers, workers and sweeps that are not
killed take their next step, a message that is not lost is delivered, time
passes, and beat starts the sweep again. Nothing is assumed of users or of
faults. Where no beat runs, as in `docker-compose.yml`, `EveryJobEnds` is not
promised. Of `streams`: the snapshot is read, the poller of a live connection
polls again after its sleep, and a queued item is sent. These are steps of the
connection's own tasks in its event loop, and weak fairness is enough: only the
full queue disables `Poll`, and only until `Consume` takes an item. Nothing is
assumed of Redis, of the listener or of the job's writers.

### Disagreements met

`old_checkpoint` is listed as a finding with the test it contradicts. The others
are definitions at the end of their module, under "What the repository says and
its code does not keep"; naming one in the configuration of that module shows a
trace (for `DocumentIngestion` in a configuration like `OldCheckpoint.cfg`, with
the user actions and faults that are mentioned):

- `EndedJobStaysEnded`: a message that arrives after the sweep failed its job
  starts it again (slow delivery, `EveryFault`);
- `QueuedDocumentIsWaiting`: the request writes "queued" over the worker's
  "completed" when the worker is faster;
- `GlobalRowsHaveSlices`: a run fails after `SaveIndex`, its retry clears the
  document's slices, the global rows of words nobody counts stay;
- `EntryCountIsTrue` (`ReferenceImport`): two overlapping imports leave
  `entry_count` too low;
- `RowsAreMerged` (`LexiconIndex`): two overlapping publications leave a row
  without the words of one document;
- `CandidatesAreQueued` (`LexemeCuration`): `lexicon_review_service.py:76` counts
  the groups before `sync_metadata` (`:83`) changes them, so ignoring the last
  candidate leaves the document in the queue and unignoring leaves it out.

Seen while modelling, without a definition of their own:

- ingestion: two requests between check and insert make two active jobs
  (`OneActiveJob` without `SerialRequests`); two overlapping sweeps can exceed `job_stale_auto_retry_limit` (both
  count before either inserts), and `_count_auto_retries` counts manual retries
  too; `src/README.md:543` says "retry is always manual", the sweep retries on its
  own; `IngestionRetryError` is not a `RetryStartError`, so a refused ingestion
  retry becomes a 500; resuming a stale running job leaves that job running; a
  link or an ignored form committed while a publication inserts the row for the
  first time does not reach the row's metadata; a rebuild beside a clear doubles
  counts (section 2);
- imports: two retries of one import can pass "A retry is already running";
- discovery: a full build and a refresh may work on one document at once; a
  request for a full build while a refresh is active returns the refresh; tier 2
  of `CanonicalFormResolver` tests for `reference` while the evidence is called
  `imported_dictionary`, so it never applies;
- lookup: an unavailable answer is fresh, so a new run skips the word until it
  expires while the summary counts it as unchecked; an answer "nothing" stored
  for a lemma keeps that word from the corpus; the unmatched count of
  `count_document_workspace_summary` ignores Nayiri, the unmatched filter does not;
- matching: `src/README.md:430` and `:446` say that progress is exposed, but the
  one transaction hides it until its end; a duplicate of a message fails a
  completed run and clears its results; the lexeme filter has no clause for
  entries, the group filter has;
- streams: `src/README.md:595` says that the stream also polls PostgreSQL. A
  stream of the active jobs that is opened while there are none starts no
  poller, and what Redis loses then is never shown; `ClientsAreTold` exempts it by
  its clause about `conn.poller`. A poller or listener that raises is noticed by
  nobody. Events that are rolled back were sent, and an event may be sent twice.

## 4. Proofs

For every number of rows, pages, sweeps and faults:

- `TypeCorrect`: `TypeOK`, strengthened with "a reserved resume has a checkpoint"
  and "a sweep past its check has a target".
- `DocumentStatusIsTrue`: the three parts of `DocumentTellsOfItsJobs` (failed,
  completed, processing) are inductive together with the types: every action that ends or starts a job writes the document in
  the same transaction (`AfterFailure` reads the other jobs).
- `AutoRetriesAreLimited`: where sweeps run in turn or requests do not overlap.
  `RetryInv` adds that a row a sweep has checked for is the only one, still
  below the limit, and that its sweep waits for it.
- `OneJobAtATime` (Calm). `CalmInv` has three parts. `RowInv`: messages belong to
  queued jobs, workers to running ones. `AloneInv`: no active job while a request
  is between check and insert. `OrphanInv`: only orphans (no message, worker or
  request) look stale, so the sweep only touches jobs nobody will change. Each
  needs the others.
- `JobsKeepLifecycle` (Calm): every step is a step of `IngestionJobs` or leaves
  `status` alone, by `CalmInv`.
- `OneWriterAtATime` (Calm): workers of two jobs are never at work together, from
  the same invariant.
- `CompletedContentIsRight` and `CompletedPartsAreStored` (Calm). `ContentInv` adds
  how far the one writer is (`WorkDone`): pages up to `items_processed` are stored,
  none above, a fresh run counts exactly what it stored.

For every number of imports, pairs, files, workers, sweeps and faults:

- `ImportTypeCorrect`: `TypeOK`; `loaded` is a natural number because
  `entry_count` is.
- `EntryCountIsRight`: both parts of `EntryCountAgrees`, never too high and true
  without overlap. `CountInv` adds `KnownIsStored`: what a worker
  about to save has seen is still stored, because entries are never removed. The
  constraint makes the new rows disjoint from everything stored, so the count
  written is at most the number of entries after the commit.
- `CompletedImportsAreStored`, from the same invariant: the seen part of a file is
  stored, the rest is inserted in the commit that completes the row.
- `EntriesAreImportedOnce`: `OnceInv` adds that a message is delivered once and a
  row has at most one worker, so `added[i]` is written at most once.

For every number of documents, words, tasks, pages, jobs, rebuilds and faults, and
every text (`LexiconIndex`; the last four where no rebuild runs beside a clear):

- `IndexTypeCorrect`: `TypeOK` is inductive.
- `SlicesStayExact`: `SliceInv` says of each open transaction (`Sound`) that a
  worker keeps to its document, that a clear sees and removes every slice of it,
  and that any other transaction holds the occurrence counts of what it replaced.
  A clear meets nobody (`NobodyHolds`); a page is stored only beside transactions
  that hold other words. So every commit leaves slices equal to occurrences.
- `WordsStayListed`: `RowInv`, on top of `SliceInv`. Transactions hold different
  rows (`HeldApart`), so a word deleted by a user rebuild cannot be published by
  anyone until it commits: documents with that word published before it began,
  and the rebuild writes the row again (`Restores`).
- `RowsStayMerged`: `MergeInv`, on top of `RowInv`. What the publish statement of a
  transaction read (`seen`) is what the transaction leaves as long as nobody
  commits beside it (`Reads`), and it writes the row of every word whose slices it
  changed; a clear publishes every word its document had (`ClearCovers`). So a
  commit that was alone makes its rows right and disturbs no other, and one that
  was not marks them `stale`.
- `RebuildsRepair`: an action property. `RepairInv` says that a user rebuild beside
  which nobody committed has deleted the rows there are and read the occurrences,
  and that unlisted words have no counts.

For every number of runs, saves, pages, tokens, ingestions and faults, every limit
and every size of a batch (`EvidenceRuns`):

- `RunTypeCorrect`: `TypeOK`. That a run has counted no token or each one once
  (`CountsInv`) rests on three lemmas about the recursive functions of the model: the
  batches hold the tokens of the pages (`BatchesKeepTokens`), a batch is counted under
  one outcome whatever PIE answers (`BatchIsCounted`), and so is all that the batches
  bring (`WorkIsCounted`). They are inductions over a list, done without an operator
  parameter: `Induction` takes the least number outside a set of numbers, and
  `Recursion` builds a function that solves the equation, so that the CHOOSE behind the
  recursive definition has something to choose. `MessagesInv`, that an inserted run has
  no message yet, bounds the messages.
- `AnalysesAreOfOneSave`: `SavesInv` says that of two saves of which both deleted,
  or one deleted and the other stored since, one saw the other under way; rows
  that stay are therefore of the text of the last save, or of two that overlapped.
- `RegularRunsStayWithinLimit`: `LimitInv` adds that who has counted and sees no
  newer row finds fewer active runs than the limit.
- `OneBuildIsAtWork`: while `disturbed` is empty (`OrderInv`) the active build is
  the newest one, a run that is worked on is running and has one worker, and an
  inserted run waits for its only message; `OwnersInv` says that a run has one
  inserter.
- `BuildsFollowPromise`: the builds, seen as job rows (`BuildStatus`), implement
  `IngestionJobs` while `disturbed` is empty, which is what `start_build_run` promises
  when it answers with the run that is active. `OrderInv` gives each step its abstract
  one: `Begin` of a build starts a queued row, its end ends the running one
  (`PromiseStep`); every step of a morphology run or of the analyses stutters.
- `CandidatesAreCurrent`: `FollowInv`: after a change a build is `Pending` with a
  caller, or a second message will start one again (`Doubled`), or the newest one
  is `Fresh`: it reads, has read or has written what is stored now.

For every set of tokens, sources, entries and backgrounds, every number of runs,
imports and changes (`FormEvidence`, `DiscoveryCandidates`):

- Lemmas about the rules: a verdict comes from a rule that applies
  (`ResolvedByRule`), every rule gives its status the type `TypeOf` says and only
  the first four suppress a form as known (`RulesAreGood`); an item that one of
  these accepts is a lexeme's, a defined entry's or an approved headword's,
  whatever the classifier made of the token (`EvidenceResolves`); the canonical
  form is one of the forms (`CanonicalForms`). So `RightVerdict` holds of what
  any run judges, and `ResolvedByTrusted` of every run.
- `CandidateTypeCorrect`: rows and runs keep their shape (`ShapeInv`).
- `TypesMatch`: `OverlapInv`: while runs did not overlap at most one has read and
  not written, and it finds status and type as it read them, so writing only the
  columns that differ is as good as writing all.
- `UpToDateIsRead`: `TimesInv`: a refresh is of a completed import and read its
  entries; a full build read those of every import that finished before it read;
  no run finished at the moment an import did.
- `DecisionsAreKept`: an action property, by case on what a run writes
  (`WriteEffect`): an update has read a row and leaves review and decision.

For every number of runs, workers, entries, words and lexemes, every choice of what
is near what, any order of imports and curation (`ReferenceMatching`):

- `MatchingTypeCorrect`: a worker keeps the shape of its transaction
  (`RightWork`), and its rows are rows its run may store (`AreRows`).
- `CountsAreThoseOfTheRows`: `CountsInv`, that only a completed run, or one failed
  while it completed (`raced`), has rows, needs that a worker about to fail a run
  has deleted its rows. The counts are cardinalities of filters of one set of rows.
- `StoredMatchesAreOfOneRun`: `ReplacedInv` says that a worker that replaces the
  matches of a target has deleted all there are unless another run crossed it.
- `ShownIsListed`: `SavedInv`, that the rows of the run that wrote a target last
  are what is stored for it, joins what the summary reads (stored matches) to what
  the filter reads (rows of the newest run with that target).

For every number of words, lexemes, documents, API processes and workers
(`LexemeCuration`):

- `CurationTypeCorrect` needs `WorkInv`: index transactions hold different words
  and documents, a publication holds all words of its document, and a published
  word has a row, so nobody publishes a word while its row is being made.
- `FormsKeepOneLexeme`: `FormsInv` says that a flushed link holds its new words:
  they have no lexeme, and no other flushed link has the same. The unique
  constraint is what keeps it; a request that only checked promises nothing.
- `ListsAreRight`: `RowsInv`: a row nobody crossed shows the decisions, and a
  transaction nobody crossed writes what is decided over the row it has read.

For every number of events and every size of the queue (`JobStream`):

- `StreamTypeCorrect`, and `EventsAreSent`: `OnceInv` (an event of one source
  stands once in inbox, queue and what was sent), `SeenInv` (what the poller has
  passed over was sent or waits in the queue) and `EndInv` (before each item that
  ends the stream stand all events committed with the final status that were not
  sent yet) are inductive only together with who reads in which phase (`PhaseInv`).
  `LeftEndInv` adds that a poller that has ended left a job event with a final status
  in the queue of an open stream: what `ClientsAreTold` needs besides fairness.

For every set of words and every lemma they have, every number of workers,
requests, runs, expiries and faults (`TrustedLookup`; the proofs are in
`ImportsAndLookups_proofs`, which extends it and `ReferenceImport`, so that names
both would use, as `TypeOK`, `Spec` or `Sweep`, carry "Lookup" or "Run" here):

- `LookupTypeCorrect`: `LookupTypeOK`. `DateInv` adds that each open lookup has a date of
  its own that no row has yet: `Fetch` gives up its date in the step that stores it.
- `KnownWordsStayShown`: all of `KnownWordsAreShown`. `LookupInv` says that the rows
  a lookup may be judged by are dated before it as long as nobody else looks up a
  word it concerns, so what it stores becomes the latest row; that it asks the web
  only for what had no fresh answer; and that the web is asked about a word of the
  corpus only if the word is somebody's lemma. `HistoryInv` says that the latest row
  lasts if any does and finds if any fresh one does, and that a word looked up in
  vain after its lemma was found has a lookup under way that will store the
  finding (`Assisted`). `OverlapsAreNoted` says which lookups `disturbed` stands for.
- `FindingsStayShown`: the action property `FindingsAreKept`. A row is never taken
  back (`RowsStay`), so a finding is still there after the step, still fresh unless
  time passed, and `HistoryInv` after the step makes the latest row one that finds.

Assumptions are the ASSUMEs of the modules: finitely many rows, pairs, words,
entries and lexemes where they are counted, at least one page, natural limits,
distinct names, lemmas that are words, requests with a direction the API accepts,
pages and skipped words of natural size, room for one ingestion at least, and
callers and workers of different names.

Every invariant and action property that a passing run checks is proved. Only
model-checked are `EveryJobEnds` and `ClientsAreTold` (liveness under fairness).
`BuildsFollowPromise` and `FindingsStayShown` are stated only as theorems. No
module has a RECURSIVE operator.

## 5. Plan

1. Several documents that share the limit of lookups.
2. The review of source words (`source_word_review_service`).

### Not modelled

Extraction, OCR and tokenisation work on bytes and characters and keep no state:
their result enters as numbered pages and words. Word search and evidence are
queries that decide nothing. Authentication, object storage, health checks,
logging and configuration are adapters; their failures are the faults of the
models. NER data, scripts and migrations are run by hand or declare the schema,
whose constraints are guards of the models. The PIE process and the pages of the
web dictionary are external: their answers are chosen.
