----------------------------- MODULE EvidenceRuns ------------------------------
(***************************************************************************)
(* The morphology runs and the full discovery builds of one document.  A   *)
(* finished ingestion starts both, a finished morphology run starts a      *)
(* build, and users start either: each start looks for an active run and   *)
(* counts the user's active jobs in one statement, inserts the run in      *)
(* another and sends its message last.  Workers take messages, the sweep   *)
(* ends runs that look stale, and the text may be ingested again.          *)
(***************************************************************************)
EXTENDS Integers, FiniteSets, Sequences

CONSTANTS
    NlpWorkers, BuildWorkers,   \* worker processes of the two queues
    Scopes,        \* the document's profile, stage and pages that are tried
    Outcomes,      \* what the PIE process may answer
    Limit,         \* max_active_jobs_per_user
    BatchSize, MaxTokens,   \* pie_batch_size, pie_max_tokens_per_batch
    ClassicalOnly, EasternModel,   \* pie_run_only_for_classical; an Eastern model is there
    MaxJobs,       \* bound on the runs of a behaviour
    MaxTexts,      \* bound on the ingestions
    MaxFaults      \* bound on kills, lost and duplicated messages and slow runs

ASSUME BatchAssumption == BatchSize \in Nat \ {0} /\ MaxTokens \in Nat \ {0}
ASSUME LimitAssumption == Limit \in Nat \ {0}
ASSUME ScopesAssumption == \A s \in Scopes : s.pages \in Seq(Nat) /\ s.skipped \in Nat
ASSUME TextsAssumption == MaxTexts \in Nat \ {0}
ASSUME WorkersAssumption ==
    NlpWorkers \cap BuildWorkers = {} /\ {"user", "ingestion"} \cap NlpWorkers = {}

VARIABLES
    scope,       \* the document: [profile, stage, pages, skipped]
    text,        \* which ingestion stored the occurrences, 0 while they are cleared
    texts,       \* ingestions so far
    analyses,    \* the saves of morphology rows that are stored
    candidates,  \* what the build that wrote the candidates last had read
    jobs,        \* the runs, in the order of their creation
    messages,    \* messages[i]: messages of run i in the broker
    call,        \* call[c]: how far a caller is with starting a run
    task,        \* task[w]: what a worker does
    disturbed,   \* history: what went beside the plan, see OneBuildAtWork
    missed,      \* history: a change of the evidence for which no build was started
    faults       \* counter of the bound

vars == <<scope, text, texts, analyses, candidates, jobs, messages, call, task,
          disturbed, missed, faults>>

Workers == NlpWorkers \cup BuildWorkers
Callers == {"user", "ingestion"} \cup NlpWorkers

(***************************************************************************)
(* Morphology of a scope.                                                  *)
(***************************************************************************)
ScopeIsEligible ==
    IF scope.profile # "none"
    THEN scope.profile = "xcl" \/ (scope.profile = "eastern" /\ EasternModel)
    ELSE ~ClassicalOnly \/ scope.stage = "classical" \/ (scope.stage = "eastern" /\ EasternModel)

DocumentRequestsMorphology == scope.profile # "none" \/ scope.stage = "classical"

Tokens(batch) ==
    LET sum[n \in 0..Len(batch)] == IF n = 0 THEN 0 ELSE sum[n - 1] + batch[n]
    IN sum[Len(batch)]

\* A batch is closed when it is full or the next page does not fit.
AddPage(batches, n) ==
    LET last == batches[Len(batches)]
    IN IF batches = <<>> THEN <<<<n>>>>
       ELSE IF Len(last) >= BatchSize \/ Tokens(last) + n > MaxTokens
            THEN Append(batches, <<n>>)
            ELSE [batches EXCEPT ![Len(batches)] = Append(last, n)]

\* Pages are packed in order.
Batches(pages) ==
    LET packed[n \in 0..Len(pages)] ==
            IF n = 0 THEN <<>> ELSE AddPage(packed[n - 1], pages[n])
    IN packed[Len(pages)]

\* What the PIE process brings: "unavailable" is told from other failures by its message.
RunOutcome(answer) ==
    IF answer \in {"disabled", "no_executable", "no_model_root"} THEN "skipped"
    ELSE IF answer \in {"exit_code", "timeout", "count_mismatch"} THEN "failed"
    ELSE IF answer = "empty" THEN "empty" ELSE "completed"

NoCounts == [completed |-> 0, skipped |-> 0, failed |-> 0]

\* Mutant of AddBatch: a batch that failed leaves no rows for its tokens.
AddBatchOrDrop(work, answer, n) ==
    IF RunOutcome(answer) = "failed" THEN [work EXCEPT !.error = TRUE]
    ELSE [work EXCEPT !.counts.completed = @ + n]

AddBatch(work, answer, n) ==
    LET outcome == RunOutcome(answer)
    IN [work EXCEPT !.error = @ \/ outcome = "failed",
            !.counts.completed = IF outcome = "completed" THEN @ + n ELSE @,
            !.counts.skipped   = IF outcome = "skipped" THEN @ + n ELSE @,
            !.counts.failed    = IF outcome \in {"empty", "failed"} THEN @ + n ELSE @]

\* What the batches of a run bring together.
WorkOf(batches, answers, prepared) ==
    LET work[k \in 0..Len(batches)] ==
            IF k = 0 THEN [counts |-> prepared, error |-> FALSE]
            ELSE AddBatch(work[k - 1], answers[k], Tokens(batches[k]))
    IN work[Len(batches)]

RunStatus(work) ==
    IF work.error /\ work.counts.completed = 0 THEN "failed" ELSE "completed"

(***************************************************************************)
(* Rows, messages and calls.                                               *)
(***************************************************************************)
IsActive(i)   == jobs[i].status \in {"queued", "running"}
\* Mutant of Active: a queued run does not exclude another one.
Running(kind) == {i \in DOMAIN jobs : jobs[i].kind = kind /\ jobs[i].status = "running"}
Active(kind)  == {i \in DOMAIN jobs : jobs[i].kind = kind /\ IsActive(i)}
\* Mutant of ActiveCount: queued runs are not counted.
RunningCount  == Cardinality({i \in DOMAIN jobs : jobs[i].status = "running"})

ActiveCount   == Cardinality({i \in DOMAIN jobs : IsActive(i)})
HeldBy(i)     == {w \in Workers : task[w].job = i}

Idle == [step |-> "idle", job |-> 0]

\* A caller that found no active run and free capacity; job is the newest run it saw.
Counted(kind) == [step |-> kind, job |-> Len(jobs)]

\* regular: counted, not started again, and nobody inserted between count and insert.
NewJob(kind, regular) ==
    [kind |-> kind, status |-> "queued", regular |-> regular, counts |-> NoCounts, total |-> 0]

Insert(c, kind) ==
    /\ Len(jobs) < MaxJobs
    /\ jobs' = Append(jobs, NewJob(kind, call[c].job = Len(jobs)))
    /\ messages' = Append(messages, 0)
    /\ call' = [call EXCEPT ![c] = [step |-> "inserted", job |-> Len(jobs) + 1]]

\* Mutant of AfterCall: the follow-up of an ingestion ends with the morphology run.
AfterAnyCall(c) == Idle

\* What a caller does after its start: the follow-up of an ingestion starts two runs.
AfterCall(c) ==
    IF c = "ingestion" /\ jobs[call[c].job].kind = "morphology"
    THEN [step |-> "start", job |-> 0] ELSE Idle

(***************************************************************************)
(* Starting a build: start_build_run, called by users, by the follow-up of *)
(* an ingestion and by a worker that saved a morphology run.               *)
(***************************************************************************)
MayStart(c) == call[c].step = "start" \/ (c = "user" /\ call[c] = Idle)

\* A run that has not read yet will see the change; any other one will not.
WillRead(i) ==
    \/ messages[i] > 0
    \/ \E w \in HeldBy(i) : task[w].step = "begun"
    \/ \E c \in Callers : call[c].step = "inserted" /\ call[c].job = i

AnsweredByActiveRun(c) ==
    /\ MayStart(c) /\ Active("discovery") # {}
    /\ call' = [call EXCEPT ![c] = Idle]
    /\ LET found == CHOOSE i \in Active("discovery") : \A j \in Active("discovery") : j <= i
       IN missed' = (missed \/ (c # "user" /\ ~WillRead(found)))
    /\ UNCHANGED <<scope, text, texts, analyses, candidates, jobs, messages, task,
                   disturbed, faults>>

RefusedForCapacity(c) ==
    /\ MayStart(c) /\ Active("discovery") = {} /\ ActiveCount >= Limit
    /\ call' = [call EXCEPT ![c] = Idle]
    /\ missed' = (missed \/ c # "user")
    /\ UNCHANGED <<scope, text, texts, analyses, candidates, jobs, messages, task,
                   disturbed, faults>>

CheckBuild(c) ==
    /\ MayStart(c) /\ Active("discovery") = {} /\ ActiveCount < Limit
    /\ Len(jobs) < MaxJobs
    /\ call' = [call EXCEPT ![c] = Counted("build")]
    /\ UNCHANGED <<scope, text, texts, analyses, candidates, jobs, messages, task,
                   disturbed, missed, faults>>

InsertBuild(c) ==
    /\ call[c].step = "build"
    /\ Insert(c, "discovery")
    /\ disturbed' = disturbed \cup (IF Active("discovery") # {} THEN {"race"} ELSE {})
    /\ UNCHANGED <<scope, text, texts, analyses, candidates, task, missed, faults>>

(***************************************************************************)
(* Starting a morphology run: a user's request looks at the capacity, the  *)
(* follow-up of an ingestion does not.                                     *)
(***************************************************************************)
CheckMorphology ==
    /\ call["user"] = Idle /\ ActiveCount < Limit /\ Len(jobs) < MaxJobs
    /\ call' = [call EXCEPT !["user"] = Counted("morphology")]
    /\ UNCHANGED <<scope, text, texts, analyses, candidates, jobs, messages, task,
                   disturbed, missed, faults>>

InsertMorphology(c) ==
    /\ c \in {"user", "ingestion"} /\ call[c].step = "morphology"
    /\ Insert(c, "morphology")
    /\ UNCHANGED <<scope, text, texts, analyses, candidates, task, disturbed, missed, faults>>

Enqueue(c) ==
    /\ call[c].step = "inserted"
    /\ messages' = [messages EXCEPT ![call[c].job] = @ + 1]
    /\ call' = [call EXCEPT ![c] = AfterCall(c)]
    /\ UNCHANGED <<scope, text, texts, analyses, candidates, jobs, task, disturbed, missed, faults>>

\* Only the morphology router marks the run it could not send.
EnqueueFails(c) ==
    /\ faults < MaxFaults /\ faults' = faults + 1
    /\ call[c].step = "inserted"
    /\ LET i == call[c].job
       IN jobs' = IF c = "user" /\ jobs[i].kind = "morphology"
                  THEN [jobs EXCEPT ![i].status = "failed"] ELSE jobs
    /\ call' = [call EXCEPT ![c] = AfterCall(c)]
    /\ UNCHANGED <<scope, text, texts, analyses, candidates, messages, task, disturbed, missed>>

\* The process of a caller dies between two steps of a start.
CallerDies(c) ==
    /\ faults < MaxFaults /\ faults' = faults + 1
    /\ c \notin NlpWorkers /\ call[c] # Idle
    /\ call' = [call EXCEPT ![c] = Idle]
    /\ missed' = (missed \/ c = "ingestion")
    /\ UNCHANGED <<scope, text, texts, analyses, candidates, jobs, messages, task, disturbed>>

(***************************************************************************)
(* The document: an ingestion clears its occurrences, and the analyses     *)
(* with them, and stores them again.                                       *)
(***************************************************************************)
\* The follow-up counts nothing before it inserts the morphology run.
FollowUp == [step |-> IF DocumentRequestsMorphology THEN "morphology" ELSE "start", job |-> -1]

ClearText ==
    /\ text # 0 /\ texts < MaxTexts /\ call["ingestion"] = Idle
    /\ text' = 0 /\ analyses' = {}
    /\ UNCHANGED <<scope, texts, candidates, jobs, messages, call, task, disturbed, missed, faults>>

CompleteText ==
    /\ text = 0
    /\ texts' = texts + 1 /\ text' = texts + 1
    /\ call' = [call EXCEPT !["ingestion"] = FollowUp]
    /\ UNCHANGED <<scope, analyses, candidates, jobs, messages, task, disturbed, missed, faults>>

(***************************************************************************)
(* The workers.                                                            *)
(***************************************************************************)
Queue(w) == IF w \in NlpWorkers THEN "morphology" ELSE "discovery"

\* A message starts its run whatever its status.
Begin(w, i) ==
    /\ task[w] = Idle /\ messages[i] > 0 /\ jobs[i].kind = Queue(w)
    /\ w \in NlpWorkers => call[w] = Idle
    /\ messages' = [messages EXCEPT ![i] = @ - 1]
    /\ jobs' = [jobs EXCEPT ![i].status = "running", ![i].counts = NoCounts, ![i].total = 0,
                            ![i].regular = @ /\ jobs[i].status = "queued"]
    /\ task' = [task EXCEPT ![w] = [step |-> "begun", job |-> i]]
    /\ disturbed' = disturbed \cup (IF jobs[i].status # "queued" THEN {"restart"} ELSE {})
    /\ UNCHANGED <<scope, text, texts, analyses, candidates, call, missed, faults>>

\* Ineligible scopes and tokens are skipped, the rest goes to PIE in batches.  What
\* the batches bring is seen by nobody before it is saved.
AnalyzeTokens(w) ==
    /\ w \in NlpWorkers /\ task[w].step = "begun"
    /\ LET read     == IF text = 0 THEN <<>> ELSE scope.pages
           skipped  == IF text = 0 THEN 0 ELSE scope.skipped
           total    == Tokens(read) + skipped
           batches  == IF ScopeIsEligible THEN Batches(read) ELSE <<>>
           prepared == [NoCounts EXCEPT !.skipped = IF ScopeIsEligible THEN skipped ELSE total]
       IN \E answers \in [DOMAIN batches -> Outcomes] :
             /\ task' = [task EXCEPT ![w] =
                  [step |-> "analyzed", job |-> @.job, text |-> text,
                   work |-> WorkOf(batches, answers, prepared), deleted |-> {}, beside |-> {}]]
             /\ jobs' = [jobs EXCEPT ![task[w].job].total = total]
    /\ UNCHANGED <<scope, text, texts, analyses, candidates, messages, call, disturbed,
                   missed, faults>>

\* The delete of _persist_rows sees the rows that are committed when it runs.
DeleteRows(w) ==
    /\ task[w].step = "analyzed"
    /\ task' = [task EXCEPT ![w].step = "saving", ![w].deleted = analyses,
                            ![w].beside = {task[u].job : u \in {x \in NlpWorkers :
                                                                  task[x].step = "saving"}}]
    /\ UNCHANGED <<scope, text, texts, analyses, candidates, jobs, messages, call, disturbed,
                   missed, faults>>

\* Mutant of RowsAreForeign: analyses have no foreign key.
RowsAreNeverForeign(w) == FALSE

\* Rows of occurrences that were cleared violate their foreign key.
RowsAreForeign(w) ==
    /\ task[w].text # text
    /\ task[w].text # 0 /\ jobs[task[w].job].total # 0

SaveRows(w) ==
    LET i == task[w].job
    IN /\ task[w].step = "saving" /\ ~RowsAreForeign(w)
       /\ analyses' = (analyses \ task[w].deleted) \cup
              (IF task[w].text = 0 \/ jobs[i].total = 0 THEN {}
               ELSE {[job |-> i, text |-> task[w].text, beside |-> task[w].beside]})
       /\ jobs' = [jobs EXCEPT ![i].status = RunStatus(task[w].work), ![i].counts = task[w].work.counts,
                               ![i].total = task[w].work.counts.completed + task[w].work.counts.skipped
                                            + task[w].work.counts.failed]
       /\ task' = [task EXCEPT ![w] = Idle]
       /\ call' = [call EXCEPT ![w] = [step |-> "start", job |-> 0]]
       /\ UNCHANGED <<scope, text, texts, candidates, messages, disturbed, missed, faults>>

\* The exception is not caught: the run stays running.
SaveFails(w) ==
    /\ task[w].step = "saving" /\ RowsAreForeign(w)
    /\ task' = [task EXCEPT ![w] = Idle]
    /\ UNCHANGED <<scope, text, texts, analyses, candidates, jobs, messages, call, disturbed,
                   missed, faults>>

ReadEvidence(w) ==
    /\ w \in BuildWorkers /\ task[w].step = "begun"
    /\ task' = [task EXCEPT ![w] = [step |-> "read", job |-> @.job, text |-> text,
                                    analyses |-> analyses]]
    /\ missed' = FALSE
    /\ UNCHANGED <<scope, text, texts, analyses, candidates, jobs, messages, call, disturbed, faults>>

FinishBuild(w) ==
    /\ task[w].step = "read"
    /\ candidates' = [text |-> task[w].text, analyses |-> task[w].analyses]
    /\ jobs' = [jobs EXCEPT ![task[w].job].status = "completed"]
    /\ task' = [task EXCEPT ![w] = Idle]
    /\ UNCHANGED <<scope, text, texts, analyses, messages, call, disturbed, missed, faults>>

FailBuild(w) ==
    /\ faults < MaxFaults /\ faults' = faults + 1
    /\ task[w].step = "read"
    /\ jobs' = [jobs EXCEPT ![task[w].job].status = "failed"]
    /\ task' = [task EXCEPT ![w] = Idle]
    /\ UNCHANGED <<scope, text, texts, analyses, candidates, messages, call, disturbed, missed>>

(***************************************************************************)
(* Faults and the sweep, which ends a stale run and does not retry it.     *)
(***************************************************************************)
Kill(w) ==
    /\ faults < MaxFaults /\ faults' = faults + 1
    /\ task[w] # Idle \/ (w \in NlpWorkers /\ call[w] # Idle)
    /\ task' = [task EXCEPT ![w] = Idle]
    /\ call' = IF w \in NlpWorkers THEN [call EXCEPT ![w] = Idle] ELSE call
    /\ missed' = (missed \/ (w \in NlpWorkers /\ call[w] # Idle))
    /\ UNCHANGED <<scope, text, texts, analyses, candidates, jobs, messages, disturbed>>

\* A worker that prefetched a message and dies gives it back; both copies may run.
Duplicate(i) ==
    /\ faults < MaxFaults /\ faults' = faults + 1
    /\ messages[i] = 1
    /\ messages' = [messages EXCEPT ![i] = 2]
    /\ UNCHANGED <<scope, text, texts, analyses, candidates, jobs, call, task, disturbed, missed>>

IsAbandoned(i) ==
    /\ messages[i] = 0 /\ HeldBy(i) = {}
    /\ \A c \in Callers : ~(call[c].step = "inserted" /\ call[c].job = i)

Sweep(i) ==
    /\ IsActive(i) /\ IsAbandoned(i)
    /\ jobs' = [jobs EXCEPT ![i].status = "failed"]
    /\ UNCHANGED <<scope, text, texts, analyses, candidates, messages, call, task,
                   disturbed, missed, faults>>

\* Thirty minutes without a change of the row look the same, whatever the reason.
SweepEarly(i) ==
    /\ faults < MaxFaults /\ faults' = faults + 1
    /\ IsActive(i) /\ ~IsAbandoned(i)
    /\ jobs' = [jobs EXCEPT ![i].status = "failed"]
    /\ disturbed' = disturbed \cup {"slow"}
    /\ UNCHANGED <<scope, text, texts, analyses, candidates, messages, call, task, missed>>

(***************************************************************************)
(* The specification.                                                      *)
(***************************************************************************)
Init ==
    /\ scope \in Scopes
    /\ text = 1 /\ texts = 1 /\ analyses = {}   \* ingested, and nothing started since
    /\ candidates = [text |-> 0, analyses |-> {}]
    /\ jobs = <<>> /\ messages = <<>>
    /\ call = [c \in Callers |-> Idle] /\ task = [w \in Workers |-> Idle]
    /\ disturbed = {} /\ missed = TRUE /\ faults = 0

Step(w) ==
    \/ \E i \in DOMAIN jobs : Begin(w, i)
    \/ AnalyzeTokens(w) \/ DeleteRows(w) \/ SaveRows(w) \/ SaveFails(w)
    \/ ReadEvidence(w) \/ FinishBuild(w) 

Proceed(c) ==
    \/ call[c].step = "start" /\ (AnsweredByActiveRun(c) \/ RefusedForCapacity(c) \/ CheckBuild(c))
    \/ InsertBuild(c) \/ InsertMorphology(c) \/ Enqueue(c)

UserAsks ==
    /\ call["user"] = Idle
    /\ \/ CheckBuild("user") \/ CheckMorphology
       \/ RefusedForCapacity("user") \/ AnsweredByActiveRun("user")

Next ==
    \/ \E w \in Workers : Step(w) \/ FailBuild(w) \/ Kill(w)
    \/ \E c \in Callers : Proceed(c) \/ EnqueueFails(c) \/ CallerDies(c)
    \/ UserAsks
    \/ ClearText \/ CompleteText
    \/ \E i \in DOMAIN jobs : Duplicate(i) \/ Sweep(i) \/ SweepEarly(i)

Spec == Init /\ [][Next]_vars

(***************************************************************************)
(* Properties.                                                             *)
(***************************************************************************)
\* Runs, messages, calls and tasks are well-formed; a morphology run that
\* saved has counted every token it loaded exactly once.
TypeOK ==
    /\ text \in 0..texts /\ texts \in 0..MaxTexts /\ Len(messages) = Len(jobs)
    /\ \A i \in DOMAIN jobs :
          /\ messages[i] \in 0..2
          /\ jobs[i].kind = "morphology" =>
                 jobs[i].counts.completed + jobs[i].counts.skipped + jobs[i].counts.failed
                     \in {0, Tokens(scope.pages) + scope.skipped}
    /\ \A w \in Workers : task[w] # Idle => jobs[task[w].job].kind = Queue(w)
    /\ \A c \in Callers : call[c].step \in {"idle", "start", "build", "morphology", "inserted"}

\* Two workers build the candidates of the document at once only if two requests
\* both found no active run, a message arrived twice or after its run was ended, or
\* the sweep ended a run that was still worked on.
OneBuildAtWork ==
    Cardinality({w \in BuildWorkers : task[w] # Idle}) > 1 => disturbed # {}

\* The active runs exceed the user's limit only by those the follow-up of an ingestion
\* inserted uncounted, those another process inserted beside, and those started again.
RegularRunsWithinLimit ==
    Cardinality({i \in DOMAIN jobs : IsActive(i) /\ jobs[i].regular}) <= Limit

\* The stored analyses are those of the current text, and of one save unless two
\* saves overlapped: the delete of one does not see the rows of the other.
AnalysesOfOneSave ==
    \A x, y \in analyses : /\ x.text = text
                           /\ x # y => x.job \in y.beside \/ y.job \in x.beside

\* When all is done the candidates reflect the text and its analyses, unless the last
\* build failed, no build was started after the last change (the caller died, was
\* refused, or was answered with a run that had read before), or builds overlapped.
CandidatesFollowEvidence ==
    LET builds == {i \in DOMAIN jobs : jobs[i].kind = "discovery"}
        quiet == /\ \A i \in DOMAIN jobs : ~IsActive(i) /\ messages[i] = 0
                 /\ \A c \in Callers : call[c] = Idle
                 /\ \A w \in Workers : task[w] = Idle
    IN quiet /\ text # 0 /\ ~missed /\ disturbed = {}
       /\ (\A i \in builds : (\A j \in builds : j <= i) => jobs[i].status = "completed")
       => candidates = [text |-> text, analyses |-> analyses]
===============================================================================
