--------------------------- MODULE ReferenceMatching ---------------------------
(***************************************************************************)
(* The matching runs of one user: reference entries against the lexicon    *)
(* and the books (source_to_internal), or lexicon groups and lexemes       *)
(* against the reference entries (internal_to_reference).                  *)
(*                                                                         *)
(* A worker runs in ONE database transaction: what it does to its run is   *)
(* seen by nobody before it commits, and from its first flush on it holds  *)
(* the row of the run.  The sweep holds nothing between reading a run and  *)
(* failing it.                                                             *)
(***************************************************************************)
EXTENDS Integers, FiniteSets, Sequences, FiniteSetsExt

CONSTANTS
    Runs,           \* ids of reference_match_runs rows; bounds their number
    NoRun,          \* no run
    Requests,       \* what users ask for: direction, source, target, scope, view, fuzzy
    Words,          \* normalized forms
    Entries,        \* reference_entries rows imports may add
    SurfaceOf,      \* SurfaceOf[e]: surface_form of entry e
    NormOf,         \* NormOf[e]: normalized_form
    SourceOf,       \* SourceOf[e]: source_id; every source is active
    OcrSources,     \* sources whose last_import_method is pdf_ocr
    Near,           \* <<v, f>>: form f is in the bucket, the length window and above
                    \* the threshold of the target value v
    Lexemes,        \* ids of lexemes rows
    CanonOf,        \* CanonOf[l]: canonical_normalized_form
    StartBooks,     \* sets of words the documents may hold at the start
    Workers,        \* worker processes of the evidence_io queue
    AutoRetryLimit, \* settings.job_stale_auto_retry_limit
    MaxChanges,     \* bound on the changes of entries, lexemes and books
    MaxFaults       \* bound on the faults

ASSUME RunsAssumption  == IsFiniteSet(Runs) /\ NoRun \notin Runs
ASSUME NearAssumption  == \A w \in Words : <<w, w>> \notin Near
ASSUME EntryAssumption == \A e \in Entries : NormOf[e] \in Words
ASSUME DataAssumption  == IsFiniteSet(Words) /\ IsFiniteSet(Entries) /\ IsFiniteSet(Lexemes)
ASSUME BooksAssumption == StartBooks \subseteq SUBSET Words
ASSUME RequestsAssumption ==
    \A q \in Requests : q.direction \in {"source_to_internal", "internal_to_reference"}

VARIABLES
    status,    \* status[r]: committed reference_match_runs.status
    request,   \* request[r]: the columns the request sets
    retryOf,   \* retryOf[r]: retry_of_job_id
    stats,     \* stats[r]: total_items, matched_items, unmatched_items and match counts
    created,   \* the runs by created_at
    results,   \* reference_match_run_results, with their run_result_matches
    matches,   \* reference_matches
    broker,    \* runs whose Celery message waits in the queue
    work,      \* work[w]: the transaction of worker w
    sweeping,  \* runs a sweep read as stale, whose results it has deleted
    entries,   \* entries imported so far
    forms,     \* forms[l]: forms assigned to lexeme l; none: it is not created yet
    books,     \* words that occur in a document
    changes, faults,
    writer,    \* history: writer[t]: run whose matches of target t were saved last
    mixed,     \* history: targets another run saved between the delete and the save
    raced      \* history: runs completed between the two steps of one that fails them

runVars  == <<status, request, retryOf, stats, created>>
rowVars  == <<results, matches, writer, mixed>>
dataVars == <<entries, forms, books, changes>>
vars == <<runVars, rowVars, broker, work, sweeping, dataVars, faults, raced>>

Statuses    == {"none", "queued", "completed", "failed"}
MatchTypes  == {"exact", "normalized", "fuzzy"}
Targets     == ({"group"} \X Words) \cup ({"lexeme"} \X Lexemes)
NoStats     == [total |-> 0, matched |-> 0, unmatched |-> 0,
                exact |-> 0, normalized |-> 0, fuzzy |-> 0]
NoWork      == [at |-> "idle", run |-> NoRun]
NoRequest   == [direction |-> "none"]

-------------------------------------------------------------------------------
(* Finding matches. *)

\* by_surface and by_normalized of the catalog: an entry can match a value both ways.
ExactMatches(catalog, values) ==
    {[entry |-> e, type |-> "exact"] : e \in {x \in catalog : SurfaceOf[x] \in values}}

NormalizedMatches(catalog, values) ==
    {[entry |-> e, type |-> "normalized"] : e \in {x \in catalog : NormOf[x] \in values}}

\* Entries read by OCR are in no fuzzy bucket.
FuzzyCandidates(catalog) == {e \in catalog : SourceOf[e] \notin OcrSources}

FuzzyMatches(catalog, values) ==
    {[entry |-> e, type |-> "fuzzy"] :
        e \in {x \in FuzzyCandidates(catalog) : \E v \in values : <<v, NormOf[x]>> \in Near}}

MatchesOf(catalog, values, fuzzy) ==
    LET found == ExactMatches(catalog, values) \cup NormalizedMatches(catalog, values)
    IN  IF found = {} /\ fuzzy THEN FuzzyMatches(catalog, values) ELSE found

\* The type of the first match in the order of _match_sort_key.
BestType(found) ==
    IF \E m \in found : m.type = "exact" THEN "exact"
    ELSE IF \E m \in found : m.type = "normalized" THEN "normalized"
    ELSE IF found # {} THEN "fuzzy" ELSE "none"

\* Lexemes with the form as their canonical form, then those it is assigned to.
NamesOf(l)        == IF forms[l] = {} THEN {} ELSE forms[l] \cup {CanonOf[l]}
LexemesWith(word) == {l \in Lexemes : word \in NamesOf(l)}

\* occurrence_count of the books for a form: each word stands for one occurrence.
OccurrencesOf(word) == IF word \in books THEN 1 ELSE 0

-------------------------------------------------------------------------------
(* What a run reads. *)

\* The group of a form that is assigned to a lexeme is linked, others are candidates: none
\* is ignored and all are Armenian.
Linked(word) == \E l \in Lexemes : word \in forms[l]

GroupTargets(q) ==
    IF q.scope = "lexemes" THEN {}
    ELSE {<<"group", w>> : w \in {x \in books : q.view = "all" \/ (q.view = "linked" <=> Linked(x))}}

LexemeTargets(q) ==
    IF q.scope = "groups" THEN {} ELSE {<<"lexeme", l>> : l \in {x \in Lexemes : forms[x] # {}}}

ValuesOf(t) == IF t[1] = "group" THEN {t[2]} ELSE NamesOf(t[2])

TargetRow(q, t) ==
    [target |-> t, found |-> MatchesOf(entries, ValuesOf(t), q.fuzzy)]

EntryRow(q, e) ==
    LET lexemes == IF q.target = "imported_books" THEN {} ELSE LexemesWith(NormOf[e])
        count   == IF q.target = "lexicon" THEN 0 ELSE OccurrencesOf(NormOf[e])
    IN  [target |-> <<"entry", e>>, lexemes |-> lexemes, books |-> count,
         count |-> Cardinality(lexemes) + count]

IsMatched(row) ==
    IF row.target[1] = "entry" THEN row.count > 0 ELSE row.found # {}

StatsOf(rows) ==
    LET best(type) == Cardinality({r \in rows : r.target[1] # "entry" /\ BestType(r.found) = type})
        hits       == Cardinality({r \in rows : IsMatched(r)})
    IN  [total |-> Cardinality(rows), matched |-> hits, unmatched |-> Cardinality(rows) - hits,
         exact |-> best("exact"),
         normalized |-> best("normalized")
                          + Cardinality({r \in rows : r.target[1] = "entry" /\ IsMatched(r)}),
         fuzzy |-> best("fuzzy")]

-------------------------------------------------------------------------------
Init ==
    /\ status = [r \in Runs |-> "none"] /\ request = [r \in Runs |-> NoRequest]
    /\ retryOf = [r \in Runs |-> NoRun] /\ stats = [r \in Runs |-> NoStats]
    /\ created = <<>> /\ results = {} /\ matches = {} /\ broker = {}
    /\ work = [w \in Workers |-> NoWork] /\ sweeping = {}
    /\ entries = {} /\ forms = [l \in Lexemes |-> {}] /\ books \in StartBooks
    /\ changes = 0 /\ faults = 0
    /\ writer = [t \in Targets |-> NoRun] /\ mixed = {} /\ raced = {}

\* Mutant of AddRun: the columns of the request are not copied.
AddBareRun(r, q, old, sent) ==
    /\ status' = [status EXCEPT ![r] = IF sent THEN "queued" ELSE "failed"]
    /\ request' = request /\ retryOf' = [retryOf EXCEPT ![r] = old]
    /\ stats' = stats /\ created' = Append(created, r)
    /\ broker' = IF sent THEN broker \cup {r} ELSE broker
    /\ UNCHANGED <<rowVars, work, dataVars, raced>>

\* A row of a run; `sent`: whether its message reaches the queue.  When it does not,
\* mark_run_failed closes the row.
AddRun(r, q, old, sent) ==
    /\ status' = [status EXCEPT ![r] = IF sent THEN "queued" ELSE "failed"]
    /\ request' = [request EXCEPT ![r] = q] /\ retryOf' = [retryOf EXCEPT ![r] = old]
    /\ stats' = stats /\ created' = Append(created, r)
    /\ broker' = IF sent THEN broker \cup {r} ELSE broker
    /\ UNCHANGED <<rowVars, work, dataVars, raced>>

Fresh(r) == status[r] = "none"

FaultUnless(happy) == faults' = IF happy THEN faults ELSE faults + 1
MayFail(happy)     == happy \/ faults < MaxFaults

CreateRun(r, q, sent) ==
    /\ Fresh(r) /\ MayFail(sent) /\ AddRun(r, q, NoRun, sent)
    /\ FaultUnless(sent) /\ UNCHANGED sweeping

\* A retry is refused while a retry of the same run is queued (a running one is seen
\* as queued too).
MayRetry(old) ==
    status[old] = "failed" /\ \A r \in Runs : ~(retryOf[r] = old /\ status[r] = "queued")

RetryRun(r, old, sent) ==
    /\ Fresh(r) /\ MayRetry(old) /\ MayFail(sent) /\ AddRun(r, request[old], old, sent)
    /\ FaultUnless(sent) /\ UNCHANGED sweeping

-------------------------------------------------------------------------------
(* The worker. *)

Locked(r) == \E w \in Workers : work[w].run = r /\ work[w].at \in {"working", "replacing"}
RowsOf(r) == {row \in results : row.run = r}

\* A run in any status is started.  A source-first run deletes its old results before
\* it holds its row, so a second delivery does not see those of the first.
Take(w, r) ==
    /\ work[w].at = "idle" /\ r \in broker
    /\ broker' = broker \ {r}
    /\ work' = [work EXCEPT ![w] = [at |-> "started", run |-> r, gone |-> RowsOf(r)]]
    /\ UNCHANGED <<runVars, rowVars, sweeping, dataVars, faults, raced>>

\* The flush waits for the row.  All is read after it; here at one moment.
ReadTargets(w) ==
    LET r == work[w].run q == request[r] IN
    /\ work[w].at = "started" /\ ~Locked(r) /\ q.direction = "internal_to_reference"
    /\ work' = [work EXCEPT ![w] =
                  [at |-> "working", run |-> r, gone |-> RowsOf(r),
                   rows |-> {TargetRow(q, t) : t \in GroupTargets(q) \cup LexemeTargets(q)}]]
    /\ UNCHANGED <<runVars, rowVars, broker, sweeping, dataVars, faults, raced>>

ReadEntries(w) ==
    LET r == work[w].run q == request[r] IN
    /\ work[w].at = "started" /\ ~Locked(r) /\ q.direction = "source_to_internal"
    /\ work' = [work EXCEPT ![w] =
                  [at |-> "working", run |-> r, gone |-> work[w].gone,
                   rows |-> {EntryRow(q, e) : e \in {x \in entries : SourceOf[x] = q.source}}]]
    /\ UNCHANGED <<runVars, rowVars, broker, sweeping, dataVars, faults, raced>>

\* Mutant of DeleteMatches: only the matches that are found again are deleted.
DeleteFoundMatches(w) ==
    LET r == work[w].run IN
    /\ work[w].at = "working" /\ request[r].direction = "internal_to_reference"
    /\ work' = [work EXCEPT ![w] =
                  [at |-> "replacing", run |-> r, gone |-> work[w].gone, rows |-> work[w].rows,
                   crossed |-> {},
                   old |-> {m \in matches : \E row \in work[w].rows : row.target = m.target
                                /\ \E f \in row.found : f.entry = m.entry}]]
    /\ UNCHANGED <<runVars, rowVars, broker, sweeping, dataVars, faults, raced>>

\* The matches of the targets that are visible now are deleted, by the commit.
DeleteMatches(w) ==
    LET r == work[w].run IN
    /\ work[w].at = "working" /\ request[r].direction = "internal_to_reference"
    /\ work' = [work EXCEPT ![w] =
                  [at |-> "replacing", run |-> r, gone |-> work[w].gone, rows |-> work[w].rows,
                   crossed |-> {},
                   old |-> {m \in matches : \E row \in work[w].rows : row.target = m.target}]]
    /\ UNCHANGED <<runVars, rowVars, broker, sweeping, dataVars, faults, raced>>

\* uq_reference_match_run_results_target: rows of the run committed after the delete.
ResultsCollide(w) == RowsOf(work[w].run) \ work[w].gone # {}

NewMatches(w) ==
    {[target |-> x[1].target, entry |-> x[2].entry, type |-> x[2].type] :
        x \in UNION {{row} \X row.found : row \in work[w].rows}}

MatchesCollide(w) == NewMatches(w) \cap (matches \ work[w].old) # {}

Complete(w) ==
    LET r == work[w].run IN
    /\ status' = [status EXCEPT ![r] = "completed"]
    /\ stats' = [stats EXCEPT ![r] = StatsOf(work[w].rows)]
    /\ results' = (results \ work[w].gone) \cup {[run |-> r, row |-> x] : x \in work[w].rows}
    /\ work' = [v \in Workers |->
                  IF v = w THEN NoWork
                  ELSE IF work[v].at = "replacing"
                       THEN [work[v] EXCEPT !.crossed = @ \cup {row.target : row \in work[w].rows}]
                       ELSE work[v]]
    /\ raced' = IF r \in sweeping \/ \E v \in Workers : work[v].run = r /\ work[v].at = "failing"
                THEN raced \cup {r} ELSE raced \ {r}
    /\ UNCHANGED <<request, retryOf, created, broker, sweeping, dataVars, faults>>

CompleteEntries(w) ==
    /\ work[w].at = "working" /\ request[work[w].run].direction = "source_to_internal"
    /\ ~ResultsCollide(w)
    /\ Complete(w) /\ UNCHANGED <<matches, writer, mixed>>

CompleteTargets(w) ==
    LET kept    == matches \ work[w].old
        targets == {row.target : row \in work[w].rows}
    IN
    /\ work[w].at = "replacing" /\ ~ResultsCollide(w) /\ ~MatchesCollide(w)
    /\ matches' = kept \cup NewMatches(w)
    /\ writer' = [t \in Targets |-> IF t \in targets THEN work[w].run ELSE writer[t]]
    /\ mixed' = (mixed \ targets) \cup (targets \cap work[w].crossed)
    /\ Complete(w)

\* A unique constraint is violated, or something else goes wrong: the transaction is
\* rolled back and another one deletes the results it sees ...
FailRun(w) ==
    /\ work[w].at \in {"working", "replacing"}
    /\ LET collides == \/ work[w].at = "replacing" /\ MatchesCollide(w)
                       \/ ResultsCollide(w)
       IN  MayFail(collides) /\ FaultUnless(collides)
    /\ work' = [work EXCEPT ![w] = [at |-> "failing", run |-> work[w].run, gone |-> RowsOf(work[w].run)]]
    /\ UNCHANGED <<runVars, rowVars, broker, sweeping, dataVars, raced>>

\* Mutant of WriteFailure: the results of an earlier delivery are kept.
WriteFailureOnly(w) ==
    LET r == work[w].run IN
    /\ work[w].at = "failing" /\ ~Locked(r)
    /\ status' = [status EXCEPT ![r] = "failed"]
    /\ work' = [work EXCEPT ![w] = NoWork]
    /\ UNCHANGED <<request, retryOf, stats, created, rowVars, broker, sweeping, dataVars, faults, raced>>

\* ... and fails the run, whatever it became, when it gets the row.
WriteFailure(w) ==
    LET r == work[w].run IN
    /\ work[w].at = "failing" /\ ~Locked(r)
    /\ status' = [status EXCEPT ![r] = "failed"]
    /\ results' = results \ work[w].gone
    /\ work' = [work EXCEPT ![w] = NoWork]
    /\ UNCHANGED <<request, retryOf, stats, created, matches, writer, mixed, broker, sweeping,
                   dataVars, faults, raced>>

KillWorker(w) ==
    /\ work[w].at # "idle" /\ faults < MaxFaults /\ faults' = faults + 1
    /\ work' = [work EXCEPT ![w] = NoWork]
    /\ UNCHANGED <<runVars, rowVars, broker, sweeping, dataVars, raced>>

LoseMessage(r) ==
    /\ r \in broker /\ faults < MaxFaults /\ faults' = faults + 1
    /\ broker' = broker \ {r}
    /\ UNCHANGED <<runVars, rowVars, work, sweeping, dataVars, raced>>

DuplicateMessage(r) ==
    /\ ~Fresh(r)
    /\ r \notin broker /\ faults < MaxFaults /\ faults' = faults + 1
    /\ broker' = broker \cup {r}
    /\ UNCHANGED <<runVars, rowVars, work, sweeping, dataVars, raced>>

-------------------------------------------------------------------------------
(* The sweep: a run is stale while its committed row is old, worked on or not. *)

SweepRead(r) ==
    /\ status[r] = "queued" /\ r \notin sweeping
    /\ results' = results \ RowsOf(r) /\ sweeping' = sweeping \cup {r}
    /\ UNCHANGED <<runVars, matches, writer, mixed, broker, work, dataVars, faults, raced>>

\* lock_timeout: the worker holds the row for longer than five seconds.
SweepSkip(r) ==
    /\ r \in sweeping /\ Locked(r)
    /\ sweeping' = sweeping \ {r}
    /\ UNCHANGED <<runVars, rowVars, broker, work, dataVars, faults, raced>>

RetriesOf(r) == Cardinality({x \in Runs : retryOf[x] = r})

\* The row is free: it is failed whatever it became, and retried once.
SweepFail(r) ==
    /\ r \in sweeping /\ ~Locked(r)
    /\ status' = [status EXCEPT ![r] = "failed"] /\ sweeping' = sweeping \ {r}
    /\ RetriesOf(r) >= AutoRetryLimit \/ \A x \in Runs : ~Fresh(x)
    /\ UNCHANGED <<request, retryOf, stats, created, rowVars, broker, work, dataVars, faults, raced>>

\* When the message cannot be sent the exception is logged: the retry stays queued.
SweepRetry(r, x, sent) ==
    /\ r \in sweeping /\ ~Locked(r) /\ RetriesOf(r) < AutoRetryLimit /\ Fresh(x) /\ MayFail(sent)
    /\ status' = [status EXCEPT ![r] = "failed", ![x] = "queued"]
    /\ request' = [request EXCEPT ![x] = request[r]] /\ retryOf' = [retryOf EXCEPT ![x] = r]
    /\ created' = Append(created, x) /\ sweeping' = sweeping \ {r}
    /\ broker' = IF sent THEN broker \cup {x} ELSE broker
    /\ FaultUnless(sent)
    /\ UNCHANGED <<stats, rowVars, work, dataVars, raced>>

-------------------------------------------------------------------------------
(* What happens around the runs: imports only add entries, documents only add  *)
(* words, curation creates a lexeme or assigns it another form.                *)

Change ==
    /\ changes < MaxChanges /\ changes' = changes + 1
    /\ UNCHANGED <<runVars, rowVars, broker, work, sweeping, faults, raced>>

ImportEntry(e) ==
    /\ e \notin entries /\ entries' = entries \cup {e}
    /\ Change /\ UNCHANGED <<forms, books>>

IngestWord(w) ==
    /\ w \notin books /\ books' = books \cup {w}
    /\ Change /\ UNCHANGED <<entries, forms>>

\* A form belongs to one lexeme.
CurateLexeme(l) ==
    \E w \in Words :
        /\ \A x \in Lexemes : w \notin forms[x]
        /\ forms' = [forms EXCEPT ![l] = @ \cup {w}]
        /\ Change /\ UNCHANGED <<entries, books>>

-------------------------------------------------------------------------------
Request(r) ==
    \E sent \in BOOLEAN : \/ \E q \in Requests : CreateRun(r, q, sent)
                          \/ \E old \in Runs : RetryRun(r, old, sent)

Work(w) ==
    \/ \E r \in Runs : Take(w, r)
    \/ ReadTargets(w) \/ ReadEntries(w) \/ DeleteMatches(w)
    \/ CompleteEntries(w) \/ CompleteTargets(w) \/ FailRun(w) \/ WriteFailure(w)
    \/ KillWorker(w)

Sweep(r) == SweepRead(r) \/ SweepSkip(r) \/ SweepFail(r)
            \/ \E x \in Runs, sent \in BOOLEAN : SweepRetry(r, x, sent)

Next ==
    \/ \E r \in Runs : Request(r) \/ LoseMessage(r) \/ DuplicateMessage(r) \/ Sweep(r)
    \/ \E w \in Workers : Work(w)
    \/ \E e \in Entries : ImportEntry(e)
    \/ \E w \in Words : IngestWord(w)
    \/ \E l \in Lexemes : CurateLexeme(l)

Spec == Init /\ [][Next]_vars

-------------------------------------------------------------------------------
EntryRows  == [target : {"entry"} \X Entries, lexemes : SUBSET Lexemes, books : {0, 1}, count : Nat]
TargetRows == [target : Targets, found : SUBSET [entry : Entries, type : MatchTypes]]
ResultRows == EntryRows \cup TargetRows

\* The rows and the transactions have the shape the code gives them.
TypeOK ==
    /\ status \in [Runs -> Statuses] /\ retryOf \in [Runs -> Runs \cup {NoRun}]
    /\ \A r \in Runs : request[r] \in Requests \cup {NoRequest}
    /\ \A r \in Runs : Fresh(r) <=> request[r] = NoRequest
    /\ created \in Seq(Runs) /\ broker \subseteq Runs /\ sweeping \subseteq Runs
    /\ \A row \in results : row.run \in Runs /\ row.row \in ResultRows
    /\ matches \subseteq [target : Targets, entry : Entries, type : MatchTypes]
    /\ \A w \in Workers :
        /\ work[w].at \in {"idle", "started", "working", "replacing", "failing"}
        /\ work[w].at # "idle" => ~Fresh(work[w].run)
        /\ work[w].at \in {"working", "replacing"} => work[w].rows \subseteq ResultRows
    /\ entries \subseteq Entries /\ books \subseteq Words /\ forms \in [Lexemes -> SUBSET Words]

\* The stored matches of a target are those of the last run that saved it, also when runs
\* overlap: the unique constraint fails the second of two runs that store a match in common.
\* Only when they have none in common do the matches of both stay (mixed).
StoredMatchesOfOneRun ==
    \A t \in Targets \ mixed :
        LET stored == {[entry |-> m.entry, type |-> m.type] : m \in {x \in matches : x.target = t}}
            kept   == {x.row.found : x \in {y \in RowsOf(writer[t]) : y.row.target = t}}
        IN  /\ writer[t] = NoRun => stored = {}
            /\ kept # {} => stored \in kept
            /\ (\E m \in stored : m.type = "fuzzy") => \A m \in stored : m.type = "fuzzy"
===============================================================================
