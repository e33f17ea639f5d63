--------------------------- MODULE EvidenceRuns_proofs ---------------------------
(***************************************************************************)
(* Proofs about EvidenceRuns: one build at work, the limit of regular      *)
(* runs, the analyses of one save, candidates that follow the evidence,    *)
(* tokens that are counted once, and builds that implement IngestionJobs,  *)
(* for any workers, scopes, pages, runs, ingestions and faults.            *)
(***************************************************************************)
EXTENDS EvidenceRuns, FiniteSetTheorems, SequenceTheorems, WellFoundedInduction, TLAPS

-------------------------------------------------------------------------------
(* Shapes. *)

Kinds     == {"morphology", "discovery"}
JobStates == {"queued", "running", "completed", "failed"}

IsJob(j) ==
    /\ j = [kind |-> j.kind, status |-> j.status, regular |-> j.regular, counts |-> j.counts,
            total |-> j.total]
    /\ j.kind \in Kinds /\ j.status \in JobStates

IsTask(w, t) ==
    \/ t = Idle
    \/ t = [step |-> "begun", job |-> t.job]
    \/ /\ w \in NlpWorkers /\ t.step \in {"analyzed", "saving"}
       /\ t = [step |-> t.step, job |-> t.job, text |-> t.text, work |-> t.work,
               deleted |-> t.deleted, beside |-> t.beside]
    \/ /\ w \in BuildWorkers
       /\ t = [step |-> "read", job |-> t.job, text |-> t.text, analyses |-> t.analyses]

IsCall(x) ==
    /\ x = [step |-> x.step, job |-> x.job]
    /\ x.step \in {"idle", "start", "build", "morphology", "inserted"}
    /\ x.job \in Int /\ x.job <= Len(jobs)
    /\ x.step = "inserted" => x.job \in DOMAIN jobs
    /\ x.step = "idle" => x.job = 0

\* Every task works on a run of its queue.
ShapeInv ==
    /\ text \in Nat /\ texts \in Nat
    /\ Len(jobs) \in Nat /\ DOMAIN jobs = 1..Len(jobs) /\ jobs = [i \in 1..Len(jobs) |-> jobs[i]]
    /\ messages \in [1..Len(jobs) -> Nat]
    /\ \A i \in DOMAIN jobs : IsJob(jobs[i])
    /\ call = [c \in Callers |-> call[c]] /\ \A c \in Callers : IsCall(call[c])
    /\ task = [w \in Workers |-> task[w]] /\ \A w \in Workers : IsTask(w, task[w])
    /\ \A w \in Workers : task[w] # Idle => /\ task[w].job \in DOMAIN jobs
                                            /\ jobs[task[w].job].kind = Queue(w)

-------------------------------------------------------------------------------
(* Builds. *)

Builds == {i \in DOMAIN jobs : jobs[i].kind = "discovery"}

\* A run belongs to the caller that inserts it until its message is sent.
OwnersInv ==
    \A c, b \in Callers :
        c # b /\ call[c].step = "inserted" /\ call[b].step = "inserted" => call[c].job # call[b].job

\* As long as nothing went beside the plan the active build is the last one, a run that is
\* worked on runs and has one worker, and an inserted run waits for its message.
ActiveIsLast == \A i \in Active("discovery"), j \in Builds : j <= i

WorkedOnRuns == \A w \in Workers : task[w] # Idle => jobs[task[w].job].status = "running"

OneWorkerEach == \A w, u \in Workers :
    w # u /\ task[w] # Idle /\ task[u] # Idle => task[w].job # task[u].job

InsertedWaits == \A c \in Callers :
    call[c].step = "inserted" => messages[call[c].job] = 0 /\ jobs[call[c].job].status = "queued"

OrderInv == disturbed = {} => ActiveIsLast /\ WorkedOnRuns /\ OneWorkerEach /\ InsertedWaits

\* A build will be started for the change.
Pending ==
    \E c \in Callers :
        \/ c # "user" /\ call[c].step \in {"start", "build"}
        \/ c = "ingestion" /\ call[c].step = "morphology"
        \/ c = "ingestion" /\ call[c].step = "inserted" /\ jobs[call[c].job].kind = "morphology"

\* A second message will start a build again.
Doubled == \E i \in Builds : messages[i] > 0 /\ jobs[i].status # "queued"

\* The last build has read, or will read, what is stored now.
Fresh ==
    /\ \E last \in Builds :
          /\ \A j \in Builds : j <= last
          /\ jobs[last].status = "completed" => candidates = [text |-> text, analyses |-> analyses]
    /\ \A w \in BuildWorkers : task[w].step = "read" => task[w].text = text
                                                        /\ task[w].analyses = analyses

FollowInv == disturbed = {} /\ ~missed /\ text # 0 => Pending \/ Doubled \/ Fresh

-------------------------------------------------------------------------------
(* The limit. *)

Regular == {i \in DOMAIN jobs : IsActive(i) /\ jobs[i].regular}

\* Who counted and sees no newer run may insert one more.
LimitInv ==
    /\ Cardinality(Regular) <= Limit
    /\ \A c \in Callers : call[c].step \in {"build", "morphology"} /\ call[c].job = Len(jobs)
                          => Cardinality(Regular) < Limit

-------------------------------------------------------------------------------
(* Saves. *)

Knows(x, y) == x.job \in y.beside \/ y.job \in x.beside

\* Of two saves that stand side by side, one saw that the other was under way: two that
\* both deleted already, one that deleted and another that saved since.
SavesInv ==
    /\ text = 0 => analyses = {}
    /\ \A x \in analyses : x.text = text
    /\ \A x, y \in analyses : x # y => Knows(x, y)
    /\ \A w \in Workers : task[w].step = "saving" =>
          \A x \in analyses \ task[w].deleted : Knows(x, task[w])
    /\ \A w, u \in Workers : w # u /\ task[w].step = "saving" /\ task[u].step = "saving"
                             => Knows(task[w], task[u])

-------------------------------------------------------------------------------
(* Effects of the actions that are written with operators. *)

LEMMA IsList ==
    ASSUME NEW n \in Nat, NEW s, s = [i \in 1..n |-> s[i]]
    PROVE  s \in Seq({s[i] : i \in 1..n}) /\ Len(s) = n
<1>1. s \in [1..n -> {s[i] : i \in 1..n}]
    OBVIOUS
<1>2. s \in Seq({s[i] : i \in 1..n})
    BY <1>1
<1> QED
    BY <1>1, <1>2

LEMMA AppendOf ==
    ASSUME NEW S, NEW s \in Seq(S), NEW x
    PROVE  /\ Len(Append(s, x)) = Len(s) + 1
           /\ Append(s, x) = [i \in 1..Len(s) + 1 |-> IF i = Len(s) + 1 THEN x ELSE s[i]]
<1> DEFINE T == S \cup {x}
<1>1. s \in Seq(T) /\ x \in T
    OBVIOUS
<1> HIDE DEF T
<1> DEFINE t == Append(s, x)
<1>2. /\ t \in Seq(T) /\ Len(t) = Len(s) + 1
      /\ \A i \in 1..Len(s) : t[i] = s[i]
      /\ t[Len(s) + 1] = x
    BY <1>1, AppendProperties
<1> HIDE DEF t
<1>3. Len(s) \in Nat /\ DOMAIN t = 1..Len(s) + 1 /\ t = [i \in DOMAIN t |-> t[i]]
    BY <1>1, <1>2
<1>4. \A i \in DOMAIN t : t[i] = IF i = Len(s) + 1 THEN x ELSE s[i]
    BY <1>2, <1>3
<1>5. t = [i \in 1..Len(s) + 1 |-> IF i = Len(s) + 1 THEN x ELSE s[i]]
    BY <1>3, <1>4
<1> QED
    BY <1>2, <1>5 DEF t

\* What an insert does to the two lists.
LEMMA InsertEffect ==
    ASSUME ShapeInv, NEW c, NEW kind, Insert(c, kind)
    PROVE  /\ Len(jobs') = Len(jobs) + 1
           /\ jobs' = [i \in 1..Len(jobs) + 1 |->
                          IF i = Len(jobs) + 1 THEN NewJob(kind, call[c].job = Len(jobs)) ELSE jobs[i]]
           /\ messages' = [i \in 1..Len(jobs) + 1 |-> IF i = Len(jobs) + 1 THEN 0 ELSE messages[i]]
<1>1. jobs \in Seq({jobs[i] : i \in 1..Len(jobs)})
  <2>1. \A n \in Nat : jobs = [i \in 1..n |-> jobs[i]] => jobs \in Seq({jobs[i] : i \in 1..n})
    BY IsList
  <2>2. Len(jobs) \in Nat /\ jobs = [i \in 1..Len(jobs) |-> jobs[i]]
    BY DEF ShapeInv
  <2> QED
    BY <2>1, <2>2
<1>2. messages \in Seq(Nat) /\ Len(messages) = Len(jobs)
    BY DEF ShapeInv
<1> DEFINE new == NewJob(kind, call[c].job = Len(jobs))
<1>3. jobs' = Append(jobs, new) /\ messages' = Append(messages, 0)
    BY DEF Insert
<1> HIDE DEF new
<1>4. jobs' = [i \in 1..Len(jobs) + 1 |-> IF i = Len(jobs) + 1 THEN new ELSE jobs[i]]
    BY <1>1, <1>3, AppendOf
<1>5. messages' = [i \in 1..Len(jobs) + 1 |-> IF i = Len(jobs) + 1 THEN 0 ELSE messages[i]]
    BY <1>2, <1>3, AppendOf
<1>6. Len(jobs') = Len(jobs) + 1
    BY <1>1, <1>3, AppendOf
<1> QED
    BY <1>4, <1>5, <1>6 DEF new

\* What the batches of a run bring is of no matter to the runs and the tasks.
LEMMA AnalyzeEffect ==
    ASSUME NEW w, AnalyzeTokens(w)
    PROVE  \E work, total :
              /\ task' = [task EXCEPT ![w] =
                    [step |-> "analyzed", job |-> task[w].job, text |-> text,
                     work |-> work, deleted |-> {}, beside |-> {}]]
              /\ jobs' = [jobs EXCEPT ![task[w].job].total = total]
<1> DEFINE read     == IF text = 0 THEN <<>> ELSE scope.pages
           skipped  == IF text = 0 THEN 0 ELSE scope.skipped
           total    == Tokens(read) + skipped
           batches  == IF ScopeIsEligible THEN Batches(read) ELSE <<>>
           prepared == [NoCounts EXCEPT !.skipped = IF ScopeIsEligible THEN skipped ELSE total]
<1>1. \E answers \in [DOMAIN batches -> Outcomes] :
          /\ task' = [task EXCEPT ![w] =
                  [step |-> "analyzed", job |-> @.job, text |-> text,
                   work |-> WorkOf(batches, answers, prepared), deleted |-> {}, beside |-> {}]]
          /\ jobs' = [jobs EXCEPT ![task[w].job].total = total]
    BY DEF AnalyzeTokens
<1> HIDE DEF batches, prepared, total
<1> QED
    BY <1>1

-------------------------------------------------------------------------------
(* Shapes are kept. *)

\* No run is added or changes its kind.
SameRuns ==
    /\ Len(jobs') = Len(jobs) /\ DOMAIN jobs' = DOMAIN jobs
    /\ jobs' = [i \in 1..Len(jobs) |-> jobs'[i]]
    /\ \A i \in DOMAIN jobs : IsJob(jobs'[i]) /\ jobs'[i].kind = jobs[i].kind

IsRevised(x, y, status, regular) ==
    IsJob(y) /\ y.kind = x.kind /\ y.status = status /\ y.regular = regular

LEMMA FieldsOfJob ==
    ASSUME NEW x, IsJob(x), NEW a \in JobStates, NEW b, NEW c, NEW d
    PROVE  LET v == [x EXCEPT !.status = a, !.counts = b, !.total = c]
               u == [x EXCEPT !.status = a, !.counts = b, !.total = c, !.regular = d]
           IN IsRevised(x, v, a, x.regular) /\ IsRevised(x, u, a, d)
<1> DEFINE y == [x EXCEPT !.status = a]
           z == [y EXCEPT !.counts = b]
           v == [z EXCEPT !.total = c]
           u == [v EXCEPT !.regular = d]
<1>1. y = [x EXCEPT !.status = a] /\ z = [y EXCEPT !.counts = b] /\ v = [z EXCEPT !.total = c]
      /\ u = [v EXCEPT !.regular = d]
    OBVIOUS
<1>2. /\ [x EXCEPT !.status = a, !.counts = b, !.total = c] = v
      /\ [x EXCEPT !.status = a, !.counts = b, !.total = c, !.regular = d] = u
    OBVIOUS
<1> HIDE DEF y, z, v, u
<1>3. y = [kind |-> x.kind, status |-> a, regular |-> x.regular, counts |-> x.counts,
           total |-> x.total]
    BY <1>1 DEF IsJob
<1>4. z = [kind |-> x.kind, status |-> a, regular |-> x.regular, counts |-> b,
           total |-> x.total]
    BY <1>1, <1>3
<1>5. v = [kind |-> x.kind, status |-> a, regular |-> x.regular, counts |-> b, total |-> c]
    BY <1>1, <1>4
<1>6. u = [kind |-> x.kind, status |-> a, regular |-> d, counts |-> b, total |-> c]
    BY <1>1, <1>5
<1>7. IsRevised(x, v, a, x.regular) /\ IsRevised(x, u, a, d)
    BY <1>5, <1>6 DEF IsJob, IsRevised
<1> QED
    BY <1>2, <1>7, Zenon

LEMMA OneRunChanges ==
    ASSUME ShapeInv, NEW i \in DOMAIN jobs, NEW j, IsJob(j), j.kind = jobs[i].kind,
           jobs' = [jobs EXCEPT ![i] = j]
    PROVE  SameRuns /\ jobs'[i] = j /\ \A k \in DOMAIN jobs : k # i => jobs'[k] = jobs[k]
<1>1. Len(jobs) \in Nat /\ DOMAIN jobs = 1..Len(jobs) /\ jobs = [k \in 1..Len(jobs) |-> jobs[k]]
      /\ \A k \in DOMAIN jobs : IsJob(jobs[k])
    BY DEF ShapeInv
<1>2. jobs' = [k \in 1..Len(jobs) |-> IF k = i THEN j ELSE jobs[k]]
    BY <1>1
<1>3. \A n \in Nat : jobs' = [k \in 1..n |-> jobs'[k]] => Len(jobs') = n
    BY IsList
<1>4. Len(jobs') = Len(jobs)
    BY <1>1, <1>2, <1>3
<1> QED
    BY <1>1, <1>2, <1>4 DEF SameRuns

LEMMA NoRunChanges ==
    ASSUME ShapeInv, UNCHANGED jobs
    PROVE  SameRuns
BY DEF ShapeInv, SameRuns

\* A step that changes one run.
Revises(i, status, regular) ==
    /\ SameRuns /\ i \in DOMAIN jobs
    /\ jobs'[i].status = status /\ jobs'[i].regular = regular
    /\ \A k \in DOMAIN jobs : k # i => jobs'[k] = jobs[k]

LEMMA RunIsRevised ==
    ASSUME ShapeInv, NEW i \in DOMAIN jobs, NEW j, NEW status, NEW regular,
           IsRevised(jobs[i], j, status, regular), jobs' = [jobs EXCEPT ![i] = j]
    PROVE  Revises(i, status, regular)
BY OneRunChanges DEF Revises, IsRevised

LEMMA StatusIsRevised ==
    ASSUME ShapeInv, NEW i \in DOMAIN jobs, NEW status \in JobStates,
           jobs' = [jobs EXCEPT ![i].status = status]
    PROVE  Revises(i, status, jobs[i].regular)
<1> DEFINE j == [jobs[i] EXCEPT !.status = status]
<1>1. jobs' = [jobs EXCEPT ![i] = j]
    OBVIOUS
<1>2. IsJob(jobs[i])
    BY DEF ShapeInv
<1>3. j = [kind |-> jobs[i].kind, status |-> status, regular |-> jobs[i].regular,
           counts |-> jobs[i].counts, total |-> jobs[i].total]
    BY <1>2 DEF IsJob
<1>4. IsRevised(jobs[i], j, status, jobs[i].regular)
    BY <1>2, <1>3 DEF IsJob, IsRevised
<1> HIDE DEF j
<1> QED
    BY <1>1, <1>4, RunIsRevised

LEMMA BeginEffect ==
    ASSUME ShapeInv, NEW w, NEW i \in DOMAIN jobs, Begin(w, i)
    PROVE  Revises(i, "running", jobs[i].regular /\ jobs[i].status = "queued")
<1> DEFINE regular == jobs[i].regular /\ jobs[i].status = "queued"
           j == [jobs[i] EXCEPT !.status = "running", !.counts = NoCounts, !.total = 0,
                                !.regular = regular]
<1>1. jobs' = [jobs EXCEPT ![i] = j]
    BY DEF Begin
<1>2. IsJob(jobs[i]) /\ "running" \in JobStates
    BY DEF ShapeInv, JobStates
<1> HIDE DEF regular
<1>3. IsRevised(jobs[i], j, "running", regular)
    BY <1>2, FieldsOfJob, Zenon
<1> HIDE DEF j
<1>4. Revises(i, "running", regular)
    BY <1>1, <1>3, RunIsRevised
<1> QED
    BY <1>4 DEF regular

LEMMA AnalyzeKeepsRuns ==
    ASSUME ShapeInv, NEW w \in Workers, AnalyzeTokens(w)
    PROVE  Revises(task[w].job, jobs[task[w].job].status, jobs[task[w].job].regular)
<1> DEFINE i == task[w].job
<1>1. PICK total : jobs' = [jobs EXCEPT ![i].total = total]
    BY AnalyzeEffect
<1>2. i \in DOMAIN jobs
    BY DEF ShapeInv, AnalyzeTokens, Idle
<1> DEFINE j == [jobs[i] EXCEPT !.total = total]
<1>3. jobs' = [jobs EXCEPT ![i] = j]
    BY <1>1
<1>4. IsJob(jobs[i])
    BY <1>2 DEF ShapeInv
<1> HIDE DEF i
<1>5. j = [kind |-> jobs[i].kind, status |-> jobs[i].status, regular |-> jobs[i].regular,
           counts |-> jobs[i].counts, total |-> total]
    BY <1>4 DEF IsJob
<1>6. IsRevised(jobs[i], j, jobs[i].status, jobs[i].regular)
    BY <1>4, <1>5 DEF IsJob, IsRevised
<1> HIDE DEF j
<1>7. Revises(i, jobs[i].status, jobs[i].regular)
    BY <1>2, <1>3, <1>6, RunIsRevised
<1> QED
    BY <1>7 DEF i

LEMMA SaveEndsRun ==
    ASSUME ShapeInv, NEW w \in Workers, SaveRows(w)
    PROVE  \E status \in {"completed", "failed"} :
               Revises(task[w].job, status, jobs[task[w].job].regular)
<1> DEFINE i == task[w].job
           status == RunStatus(task[w].work)
           total == task[w].work.counts.completed + task[w].work.counts.skipped
                    + task[w].work.counts.failed
           j == [jobs[i] EXCEPT !.status = status, !.counts = task[w].work.counts,
                                !.total = total]
<1>1. i \in DOMAIN jobs
    BY DEF ShapeInv, SaveRows, Idle
<1>2. jobs' = [jobs EXCEPT ![i] = j]
    BY DEF SaveRows
<1>3. status \in {"completed", "failed"}
    BY DEF RunStatus
<1>4. IsJob(jobs[i]) /\ status \in JobStates
    BY <1>1, <1>3 DEF ShapeInv, JobStates
<1> HIDE DEF i, total, status
<1>5. IsRevised(jobs[i], j, status, jobs[i].regular)
    BY <1>4, FieldsOfJob, Zenon
<1> HIDE DEF j
<1>6. Revises(i, status, jobs[i].regular)
    BY <1>1, <1>2, <1>5, RunIsRevised
<1> QED
    BY <1>3, <1>6 DEF i

LEMMA BuildEndsRun ==
    ASSUME ShapeInv, NEW w \in Workers
    PROVE  /\ FinishBuild(w) => Revises(task[w].job, "completed", jobs[task[w].job].regular)
           /\ FailBuild(w) => Revises(task[w].job, "failed", jobs[task[w].job].regular)
<1>1. FinishBuild(w) \/ FailBuild(w) => task[w].job \in DOMAIN jobs
    BY DEF ShapeInv, FinishBuild, FailBuild, Idle
<1>2. "completed" \in JobStates /\ "failed" \in JobStates
    BY DEF JobStates
<1>3. FinishBuild(w) => jobs' = [jobs EXCEPT ![task[w].job].status = "completed"]
    BY DEF FinishBuild
<1>4. FailBuild(w) => jobs' = [jobs EXCEPT ![task[w].job].status = "failed"]
    BY DEF FailBuild
<1> QED
    BY <1>1, <1>2, <1>3, <1>4, StatusIsRevised

LEMMA SweepEndsRun ==
    ASSUME ShapeInv, NEW i \in DOMAIN jobs, Sweep(i) \/ SweepEarly(i)
    PROVE  Revises(i, "failed", jobs[i].regular)
<1>1. jobs' = [jobs EXCEPT ![i].status = "failed"] /\ "failed" \in JobStates
    BY DEF Sweep, SweepEarly, JobStates
<1> QED
    BY <1>1, StatusIsRevised

LEMMA EnqueueFailsEffect ==
    ASSUME ShapeInv, NEW c \in Callers, EnqueueFails(c)
    PROVE  \/ UNCHANGED jobs
           \/ /\ c = "user" /\ jobs[call[c].job].kind = "morphology"
              /\ Revises(call[c].job, "failed", jobs[call[c].job].regular)
<1>1. call[c].job \in DOMAIN jobs /\ "failed" \in JobStates
    BY DEF ShapeInv, EnqueueFails, IsCall, JobStates
<1>2. \/ UNCHANGED jobs
      \/ /\ c = "user" /\ jobs[call[c].job].kind = "morphology"
         /\ jobs' = [jobs EXCEPT ![call[c].job].status = "failed"]
    BY DEF EnqueueFails
<1> QED
    BY <1>1, <1>2, StatusIsRevised

\* Only the two inserts add a run.
LEMMA RunsAreKept ==
    ASSUME ShapeInv, Next, \A c \in Callers : ~InsertBuild(c) /\ ~InsertMorphology(c)
    PROVE  SameRuns
<1>1. ASSUME NEW w \in Workers, NEW i \in DOMAIN jobs, Begin(w, i)
      PROVE  SameRuns
    BY <1>1, BeginEffect DEF Revises
<1>2. ASSUME NEW w \in Workers, AnalyzeTokens(w) \/ SaveRows(w) \/ FinishBuild(w) \/ FailBuild(w)
      PROVE  SameRuns
    BY <1>2, AnalyzeKeepsRuns, SaveEndsRun, BuildEndsRun DEF Revises
<1>6. ASSUME NEW i \in DOMAIN jobs, Sweep(i) \/ SweepEarly(i)
      PROVE  SameRuns
    BY <1>6, SweepEndsRun DEF Revises
<1>7. ASSUME NEW c \in Callers, EnqueueFails(c)
      PROVE  SameRuns
    BY <1>7, EnqueueFailsEffect, NoRunChanges DEF Revises
<1>8. ASSUME UNCHANGED jobs
      PROVE  SameRuns
    BY <1>8, NoRunChanges
<1>9. ASSUME NEW w \in Workers,
             DeleteRows(w) \/ SaveFails(w) \/ ReadEvidence(w) \/ Kill(w)
      PROVE  UNCHANGED jobs
    BY <1>9 DEF DeleteRows, SaveFails, ReadEvidence, Kill
<1>10. ASSUME NEW c \in Callers,
              AnsweredByActiveRun(c) \/ RefusedForCapacity(c) \/ CheckBuild(c) \/ Enqueue(c)
              \/ CallerDies(c)
       PROVE  UNCHANGED jobs
    BY <1>10 DEF AnsweredByActiveRun, RefusedForCapacity, CheckBuild, Enqueue, CallerDies
<1>11. ASSUME CheckMorphology \/ ClearText \/ CompleteText
       PROVE  UNCHANGED jobs
    BY <1>11 DEF CheckMorphology, ClearText, CompleteText
<1>12. ASSUME NEW i \in DOMAIN jobs, Duplicate(i)
       PROVE  UNCHANGED jobs
    BY <1>12 DEF Duplicate
<1>13. "user" \in Callers
    BY DEF Callers
<1> QED
    BY <1>1, <1>2, <1>6, <1>7, <1>8, <1>9, <1>10, <1>11, <1>12, <1>13
    DEF Next, Step, Proceed, UserAsks

\* The lists of runs and messages only grow together.
Grown ==
    /\ Len(jobs') \in Nat /\ Len(jobs) <= Len(jobs') /\ DOMAIN jobs' = 1..Len(jobs')
    /\ jobs' = [i \in 1..Len(jobs') |-> jobs'[i]]
    /\ messages' \in [1..Len(jobs') -> Nat]
    /\ \A i \in DOMAIN jobs' : IsJob(jobs'[i])
    /\ \A i \in DOMAIN jobs : i \in DOMAIN jobs' /\ jobs'[i].kind = jobs[i].kind

LEMMA InsertGrows ==
    ASSUME ShapeInv, NEW c, NEW kind \in Kinds, Insert(c, kind)
    PROVE  Grown
<1> DEFINE new == NewJob(kind, call[c].job = Len(jobs))
<1>1. /\ Len(jobs') = Len(jobs) + 1
      /\ jobs' = [i \in 1..Len(jobs) + 1 |-> IF i = Len(jobs) + 1 THEN new ELSE jobs[i]]
      /\ messages' = [i \in 1..Len(jobs) + 1 |-> IF i = Len(jobs) + 1 THEN 0 ELSE messages[i]]
    BY InsertEffect
<1>2. IsJob(new)
    BY DEF NewJob, IsJob, JobStates
<1> HIDE DEF new
<1>3. /\ Len(jobs) \in Nat /\ DOMAIN jobs = 1..Len(jobs) /\ messages \in [1..Len(jobs) -> Nat]
      /\ \A i \in DOMAIN jobs : IsJob(jobs[i])
    BY DEF ShapeInv
<1> DEFINE n == Len(jobs)
           m == Len(jobs')
<1>4. n \in Nat /\ m = n + 1
    BY <1>1, <1>3
<1> HIDE DEF n, m
<1>5. /\ jobs' = [i \in 1..m |-> IF i = m THEN new ELSE jobs[i]]
      /\ messages' = [i \in 1..m |-> IF i = m THEN 0 ELSE messages[i]]
    BY <1>1 DEF n, m
<1>6. DOMAIN jobs = 1..n /\ messages \in [1..n -> Nat] /\ \A i \in 1..n : IsJob(jobs[i])
    BY <1>3 DEF n
<1>7. \A i \in 1..m : IsJob(jobs'[i])
    BY <1>2, <1>4, <1>5, <1>6
<1>8. messages' \in [1..m -> Nat]
    BY <1>4, <1>5, <1>6
<1>9. \A i \in DOMAIN jobs : i \in DOMAIN jobs' /\ jobs'[i] = jobs[i]
    BY <1>4, <1>5, <1>6
<1>10. DOMAIN jobs' = 1..m /\ jobs' = [i \in 1..m |-> jobs'[i]]
    BY <1>5
<1> QED
    BY <1>4, <1>7, <1>8, <1>9, <1>10 DEF Grown, m, n

LEMMA RunsGrow ==
    ASSUME ShapeInv, [Next]_vars
    PROVE  Grown
<1>0. /\ Len(jobs) \in Nat /\ DOMAIN jobs = 1..Len(jobs) /\ messages \in [1..Len(jobs) -> Nat]
      /\ \A c \in Callers : IsCall(call[c])
    BY DEF ShapeInv
<1>1. ASSUME SameRuns, messages' \in [1..Len(jobs) -> Nat]
      PROVE  Grown
    BY <1>0, <1>1 DEF Grown, SameRuns
<1>2. CASE \E c \in Callers : InsertBuild(c) \/ InsertMorphology(c)
    BY <1>2, InsertGrows DEF InsertBuild, InsertMorphology, Kinds
<1>3. CASE UNCHANGED vars
    BY <1>0, <1>1, <1>3, NoRunChanges DEF vars
<1>4. CASE Next /\ \A c \in Callers : ~InsertBuild(c) /\ ~InsertMorphology(c)
  <2>1. SameRuns
    BY <1>4, RunsAreKept
  <2>2. ASSUME NEW w \in Workers, NEW i \in DOMAIN jobs, Begin(w, i)
        PROVE  messages' \in [1..Len(jobs) -> Nat]
    BY <1>0, <2>2 DEF Begin
  <2>3. ASSUME NEW c \in Callers, Enqueue(c)
        PROVE  messages' \in [1..Len(jobs) -> Nat]
    <3>1. call[c].job \in DOMAIN jobs
      BY <1>0, <2>3 DEF Enqueue, IsCall
    <3> QED
      BY <1>0, <2>3, <3>1 DEF Enqueue
  <2>4. ASSUME NEW i \in DOMAIN jobs, Duplicate(i)
        PROVE  messages' \in [1..Len(jobs) -> Nat]
    BY <1>0, <2>4 DEF Duplicate
  <2>5. ASSUME NEW w \in Workers,
               AnalyzeTokens(w) \/ DeleteRows(w) \/ SaveRows(w) \/ SaveFails(w) \/ ReadEvidence(w)
               \/ FinishBuild(w) \/ FailBuild(w) \/ Kill(w)
        PROVE  UNCHANGED messages
    BY <2>5 DEF AnalyzeTokens, DeleteRows, SaveRows, SaveFails, ReadEvidence, FinishBuild,
                FailBuild, Kill
  <2>6. ASSUME NEW c \in Callers,
               AnsweredByActiveRun(c) \/ RefusedForCapacity(c) \/ CheckBuild(c)
               \/ EnqueueFails(c) \/ CallerDies(c)
        PROVE  UNCHANGED messages
    BY <2>6 DEF AnsweredByActiveRun, RefusedForCapacity, CheckBuild, EnqueueFails, CallerDies
  <2>7. ASSUME CheckMorphology \/ ClearText \/ CompleteText
               \/ \E i \in DOMAIN jobs : Sweep(i) \/ SweepEarly(i)
        PROVE  UNCHANGED messages
    BY <2>7 DEF CheckMorphology, ClearText, CompleteText, Sweep, SweepEarly
  <2>8. "user" \in Callers
    BY DEF Callers
  <2> QED
    BY <1>0, <1>1, <1>4, <2>1, <2>2, <2>3, <2>4, <2>5, <2>6, <2>7, <2>8
    DEF Next, Step, Proceed, UserAsks
<1> QED
    BY <1>2, <1>3, <1>4

\* What one step makes of the calls and of the tasks.
LEMMA CallsChange ==
    ASSUME ShapeInv, [Next]_vars
    PROVE  \/ UNCHANGED call
           \/ \E c \in Callers : \E x :
                 /\ call' = [call EXCEPT ![c] = x]
                 /\ x = [step |-> x.step, job |-> x.job]
                 /\ \/ x = Idle \/ x = [step |-> "start", job |-> 0] \/ x = FollowUp
                    \/ x = Counted("build") \/ x = Counted("morphology")
                    \/ /\ x = [step |-> "inserted", job |-> Len(jobs) + 1]
                       /\ Len(jobs') = Len(jobs) + 1
<1> DEFINE Result == UNCHANGED call \/ \E c \in Callers : \E x :
                 /\ call' = [call EXCEPT ![c] = x]
                 /\ x = [step |-> x.step, job |-> x.job]
                 /\ \/ x = Idle \/ x = [step |-> "start", job |-> 0] \/ x = FollowUp
                    \/ x = Counted("build") \/ x = Counted("morphology")
                    \/ /\ x = [step |-> "inserted", job |-> Len(jobs) + 1]
                       /\ Len(jobs') = Len(jobs) + 1
<1> USE DEF Idle
<1>0. "user" \in Callers /\ "ingestion" \in Callers /\ NlpWorkers \subseteq Callers
    BY DEF Callers
<1>1. ASSUME UNCHANGED vars
      PROVE  Result
    BY <1>1 DEF vars
<1>2. ASSUME NEW w \in Workers,
             (\E i \in DOMAIN jobs : Begin(w, i)) \/ AnalyzeTokens(w) \/ DeleteRows(w)
             \/ SaveFails(w) \/ ReadEvidence(w) \/ FinishBuild(w) \/ FailBuild(w)
      PROVE  UNCHANGED call
    BY <1>2 DEF Begin, AnalyzeTokens, DeleteRows, SaveFails, ReadEvidence, FinishBuild, FailBuild
<1>3. ASSUME NEW w \in Workers, SaveRows(w)
      PROVE  Result
  <2>1. w \in NlpWorkers
    BY <1>3 DEF SaveRows, ShapeInv, IsTask
  <2> QED
    BY <1>0, <1>3, <2>1 DEF SaveRows
<1>4. ASSUME NEW w \in Workers, Kill(w)
      PROVE  Result
    BY <1>0, <1>4 DEF Kill
<1>5. ASSUME NEW c \in Callers, AnsweredByActiveRun(c) \/ RefusedForCapacity(c) \/ CallerDies(c)
      PROVE  Result
    BY <1>5 DEF AnsweredByActiveRun, RefusedForCapacity, CallerDies
<1>6. ASSUME NEW c \in Callers, CheckBuild(c)
      PROVE  Result
    BY <1>6 DEF CheckBuild, Counted
<1>7. ASSUME NEW c \in Callers, Enqueue(c) \/ EnqueueFails(c)
      PROVE  Result
    BY <1>7 DEF Enqueue, EnqueueFails, AfterCall
<1>8. ASSUME CheckMorphology
      PROVE  Result
    BY <1>0, <1>8 DEF CheckMorphology, Counted
<1>9. ASSUME CompleteText
      PROVE  Result
    BY <1>0, <1>9 DEF CompleteText, FollowUp
<1>10. ASSUME NEW c \in Callers, NEW kind, Insert(c, kind)
       PROVE  Result
  <2>1. Len(jobs') = Len(jobs) + 1
    BY <1>10, InsertEffect
  <2> QED
    BY <1>10, <2>1 DEF Insert
<1>11. ASSUME NEW c \in Callers, InsertBuild(c) \/ InsertMorphology(c)
       PROVE  Result
    BY <1>10, <1>11 DEF InsertBuild, InsertMorphology
<1>12. ASSUME ClearText \/ \E i \in DOMAIN jobs : Duplicate(i) \/ Sweep(i) \/ SweepEarly(i)
       PROVE  Result
    BY <1>12 DEF ClearText, Duplicate, Sweep, SweepEarly
<1> HIDE DEF Result
<1>13. ASSUME UNCHANGED call
       PROVE  Result
    BY <1>13 DEF Result
<1>14. Result
    BY <1>0, <1>1, <1>2, <1>3, <1>4, <1>5, <1>6, <1>7, <1>8, <1>9, <1>11, <1>12, <1>13
    DEF Next, Step, Proceed, UserAsks
<1> QED
    BY <1>14 DEF Result

LEMMA TasksChange ==
    ASSUME ShapeInv, [Next]_vars
    PROVE  \/ UNCHANGED task
           \/ \E w \in Workers : \E t :
                 /\ task' = [task EXCEPT ![w] = t] /\ IsTask(w, t)
                 /\ \/ t = Idle
                    \/ t.job \in DOMAIN jobs /\ jobs[t.job].kind = Queue(w)
<1> DEFINE Result == UNCHANGED task \/ \E w \in Workers : \E t :
                 /\ task' = [task EXCEPT ![w] = t] /\ IsTask(w, t)
                 /\ \/ t = Idle
                    \/ t.job \in DOMAIN jobs /\ jobs[t.job].kind = Queue(w)
<1>0. \A w \in Workers : /\ task[w] # Idle => /\ task[w].job \in DOMAIN jobs
                                              /\ jobs[task[w].job].kind = Queue(w)
                         /\ IsTask(w, task[w])
    BY DEF ShapeInv
<1>1. ASSUME UNCHANGED vars
      PROVE  Result
    BY <1>1 DEF vars
<1>2. ASSUME NEW w \in Workers, NEW i \in DOMAIN jobs, Begin(w, i)
      PROVE  Result
  <2> DEFINE t == [step |-> "begun", job |-> i]
  <2>1. task' = [task EXCEPT ![w] = t] /\ IsTask(w, t) /\ t.job = i /\ jobs[i].kind = Queue(w)
    BY <1>2 DEF Begin, IsTask
  <2> HIDE DEF t
  <2> QED
    BY <2>1
<1>3. ASSUME NEW w \in Workers, AnalyzeTokens(w)
      PROVE  Result
  <2>1. PICK work : task' = [task EXCEPT ![w] =
                    [step |-> "analyzed", job |-> task[w].job, text |-> text,
                     work |-> work, deleted |-> {}, beside |-> {}]]
    BY <1>3, AnalyzeEffect
  <2> DEFINE t == [step |-> "analyzed", job |-> task[w].job, text |-> text,
                   work |-> work, deleted |-> {}, beside |-> {}]
  <2>2. IsTask(w, t) /\ t.job = task[w].job
    BY <1>3 DEF AnalyzeTokens, IsTask
  <2>3. task[w] # Idle
    BY <1>3 DEF AnalyzeTokens, Idle
  <2> QED
    BY <1>0, <2>1, <2>2, <2>3
<1>4. ASSUME NEW w \in Workers, DeleteRows(w)
      PROVE  Result
  <2> DEFINE beside == {task[u].job : u \in {x \in NlpWorkers : task[x].step = "saving"}}
             t == [task[w] EXCEPT !.step = "saving", !.deleted = analyses, !.beside = beside]
  <2>1. task' = [task EXCEPT ![w] = t]
    BY <1>4 DEF DeleteRows
  <2> HIDE DEF beside
  <2>2. task[w].step = "analyzed" /\ IsTask(w, task[w])
    BY <1>0, <1>4 DEF DeleteRows
  <2>3. w \in NlpWorkers /\ task[w] # Idle
    BY <2>2 DEF IsTask, Idle
  <2>4. task[w] = [step |-> task[w].step, job |-> task[w].job, text |-> task[w].text,
                   work |-> task[w].work, deleted |-> task[w].deleted, beside |-> task[w].beside]
    BY <2>2 DEF IsTask, Idle
  <2> DEFINE x == [task[w] EXCEPT !.step = "saving"]
             y == [x EXCEPT !.deleted = analyses]
  <2>a. t = [y EXCEPT !.beside = beside] /\ x = [task[w] EXCEPT !.step = "saving"]
        /\ y = [x EXCEPT !.deleted = analyses]
    OBVIOUS
  <2> HIDE DEF x, y, t
  <2>b. x = [step |-> "saving", job |-> task[w].job, text |-> task[w].text,
             work |-> task[w].work, deleted |-> task[w].deleted, beside |-> task[w].beside]
    BY <2>4, <2>a
  <2>c. y = [step |-> "saving", job |-> task[w].job, text |-> task[w].text,
             work |-> task[w].work, deleted |-> analyses, beside |-> task[w].beside]
    BY <2>a, <2>b
  <2>5. t = [step |-> "saving", job |-> task[w].job, text |-> task[w].text,
             work |-> task[w].work, deleted |-> analyses, beside |-> beside]
    BY <2>a, <2>c
  <2>6. IsTask(w, t) /\ t.job = task[w].job
    BY <2>3, <2>5 DEF IsTask
  <2> QED
    BY <1>0, <2>1, <2>3, <2>6
<1>5. ASSUME NEW w \in Workers, ReadEvidence(w)
      PROVE  Result
  <2> DEFINE t == [step |-> "read", job |-> task[w].job, text |-> text, analyses |-> analyses]
  <2>1. task' = [task EXCEPT ![w] = t] /\ IsTask(w, t) /\ t.job = task[w].job
    BY <1>5 DEF ReadEvidence, IsTask
  <2>2. task[w] # Idle
    BY <1>5 DEF ReadEvidence, Idle
  <2> QED
    BY <1>0, <2>1, <2>2
<1>6. ASSUME NEW w \in Workers,
             SaveRows(w) \/ SaveFails(w) \/ FinishBuild(w) \/ FailBuild(w) \/ Kill(w)
      PROVE  Result
  <2>1. task' = [task EXCEPT ![w] = Idle] /\ IsTask(w, Idle)
    BY <1>6 DEF SaveRows, SaveFails, FinishBuild, FailBuild, Kill, IsTask
  <2> QED
    BY <2>1
<1>7. ASSUME NEW c \in Callers,
             AnsweredByActiveRun(c) \/ RefusedForCapacity(c) \/ CheckBuild(c) \/ InsertBuild(c)
             \/ InsertMorphology(c) \/ Enqueue(c) \/ EnqueueFails(c) \/ CallerDies(c)
      PROVE  UNCHANGED task
    BY <1>7 DEF AnsweredByActiveRun, RefusedForCapacity, CheckBuild, InsertBuild,
                InsertMorphology, Enqueue, EnqueueFails, CallerDies
<1>8. ASSUME CheckMorphology \/ ClearText \/ CompleteText
             \/ \E i \in DOMAIN jobs : Duplicate(i) \/ Sweep(i) \/ SweepEarly(i)
      PROVE  UNCHANGED task
    BY <1>8 DEF CheckMorphology, ClearText, CompleteText, Duplicate, Sweep, SweepEarly
<1>9. "user" \in Callers
    BY DEF Callers
<1> HIDE DEF Result
<1>10. ASSUME UNCHANGED task
       PROVE  Result
    BY <1>10 DEF Result
<1>11. Result
    BY <1>1, <1>2, <1>3, <1>4, <1>5, <1>6, <1>7, <1>8, <1>9, <1>10
    DEF Next, Step, Proceed, UserAsks
<1> QED
    BY <1>11 DEF Result

LEMMA ShapeInit == Init => ShapeInv
<1> SUFFICES ASSUME Init PROVE ShapeInv
    OBVIOUS
<1>1. jobs = <<>> /\ messages = <<>> /\ Len(jobs) = 0 /\ DOMAIN jobs = 1..Len(jobs)
    BY DEF Init
<1>2. jobs = [i \in 1..Len(jobs) |-> jobs[i]] /\ messages \in [1..Len(jobs) -> Nat]
    BY <1>1
<1>3. \A c \in Callers : IsCall(call[c])
    BY <1>1 DEF Init, IsCall, Idle
<1>4. \A w \in Workers : IsTask(w, task[w]) /\ task[w] = Idle
    BY DEF Init, IsTask
<1>5. call = [c \in Callers |-> call[c]] /\ task = [w \in Workers |-> task[w]]
    BY DEF Init
<1>6. text \in Nat /\ texts \in Nat
    BY DEF Init
<1> QED
    BY <1>1, <1>2, <1>3, <1>4, <1>5, <1>6 DEF ShapeInv

LEMMA ShapeStep == ShapeInv /\ [Next]_vars => ShapeInv'
<1> SUFFICES ASSUME ShapeInv, [Next]_vars PROVE ShapeInv'
    OBVIOUS
<1>1. Grown
    BY RunsGrow
<1>2. text' \in Nat /\ texts' \in Nat
  <2>1. text \in Nat /\ texts \in Nat
    BY DEF ShapeInv
  <2>2. CASE ClearText \/ CompleteText
    BY <2>1, <2>2 DEF ClearText, CompleteText
  <2>3. ASSUME NEW w \in Workers, Step(w) \/ FailBuild(w) \/ Kill(w)
        PROVE  UNCHANGED <<text, texts>>
    BY <2>3 DEF Step, Begin, AnalyzeTokens, DeleteRows, SaveRows, SaveFails, ReadEvidence,
                FinishBuild, FailBuild, Kill
  <2>4. ASSUME NEW c \in Callers,
               AnsweredByActiveRun(c) \/ RefusedForCapacity(c) \/ CheckBuild(c) \/ InsertBuild(c)
               \/ InsertMorphology(c) \/ Enqueue(c) \/ EnqueueFails(c) \/ CallerDies(c)
        PROVE  UNCHANGED <<text, texts>>
    BY <2>4 DEF AnsweredByActiveRun, RefusedForCapacity, CheckBuild, InsertBuild,
                InsertMorphology, Enqueue, EnqueueFails, CallerDies
  <2>5. ASSUME CheckMorphology \/ UNCHANGED vars
               \/ \E i \in DOMAIN jobs : Duplicate(i) \/ Sweep(i) \/ SweepEarly(i)
        PROVE  UNCHANGED <<text, texts>>
    BY <2>5 DEF CheckMorphology, Duplicate, Sweep, SweepEarly, vars
  <2>6. "user" \in Callers
    BY DEF Callers
  <2> QED
    BY <2>1, <2>2, <2>3, <2>4, <2>5, <2>6 DEF Next, Proceed, UserAsks
<1>3. call' = [c \in Callers |-> call'[c]] /\ \A c \in Callers : IsCall(call[c])'
  <2>1. \A c \in Callers : IsCall(call[c])
    BY DEF ShapeInv
  <2>2. /\ Len(jobs) \in Nat /\ Len(jobs') \in Nat /\ Len(jobs) <= Len(jobs')
        /\ DOMAIN jobs = 1..Len(jobs) /\ DOMAIN jobs' = 1..Len(jobs')
    BY <1>1 DEF Grown, ShapeInv
  <2>3. call = [c \in Callers |-> call[c]]
    BY DEF ShapeInv
  <2>4. ASSUME NEW c \in Callers, call'[c] = call[c]
        PROVE  IsCall(call[c])'
    BY <2>1, <2>2, <2>4 DEF IsCall
  <2>5. CASE UNCHANGED call
    BY <2>3, <2>4, <2>5
  <2>6. ASSUME NEW c \in Callers, NEW x, call' = [call EXCEPT ![c] = x],
               x = [step |-> x.step, job |-> x.job],
               \/ x = Idle \/ x = [step |-> "start", job |-> 0] \/ x = FollowUp
               \/ x = Counted("build") \/ x = Counted("morphology")
               \/ /\ x = [step |-> "inserted", job |-> Len(jobs) + 1]
                  /\ Len(jobs') = Len(jobs) + 1
        PROVE  call' = [b \in Callers |-> call'[b]] /\ \A b \in Callers : IsCall(call[b])'
    <3>1. call' = [b \in Callers |-> IF b = c THEN x ELSE call[b]]
      BY <2>3, <2>6
    <3>2. call'[c] = x
      BY <3>1
    <3>3. /\ x.step \in {"idle", "start", "build", "morphology", "inserted"}
          /\ x.job \in Int /\ x.job <= Len(jobs')
          /\ x.step = "inserted" => x.job \in 1..Len(jobs')
          /\ x.step = "idle" => x.job = 0
      <4>1. CASE x = Idle \/ x = [step |-> "start", job |-> 0]
        BY <2>2, <4>1 DEF Idle
      <4>2. CASE x = FollowUp
        <5>1. x.step \in {"start", "morphology"} /\ x.job = -1
          BY <4>2 DEF FollowUp
        <5> QED
          BY <2>2, <5>1
      <4>3. CASE x = Counted("build") \/ x = Counted("morphology")
        BY <2>2, <4>3 DEF Counted
      <4>4. CASE x = [step |-> "inserted", job |-> Len(jobs) + 1] /\ Len(jobs') = Len(jobs) + 1
        BY <2>2, <4>4
      <4> QED
        BY <2>6, <4>1, <4>2, <4>3, <4>4
    <3>4. IsCall(call[c])'
      BY <2>2, <2>6, <3>2, <3>3 DEF IsCall
    <3> QED
      BY <2>4, <3>1, <3>4
  <2> QED
    BY <2>5, <2>6, CallsChange
<1>4. /\ task' = [w \in Workers |-> task'[w]]
      /\ \A w \in Workers : IsTask(w, task'[w])
      /\ \A w \in Workers : task'[w] # Idle => /\ task'[w].job \in DOMAIN jobs
                                               /\ jobs[task'[w].job].kind = Queue(w)
  <2>1. task = [w \in Workers |-> task[w]]
        /\ \A w \in Workers : /\ IsTask(w, task[w])
                              /\ task[w] # Idle => /\ task[w].job \in DOMAIN jobs
                                                   /\ jobs[task[w].job].kind = Queue(w)
    BY DEF ShapeInv
  <2>2. CASE UNCHANGED task
    BY <2>1, <2>2
  <2>3. ASSUME NEW w \in Workers, NEW t, task' = [task EXCEPT ![w] = t], IsTask(w, t),
               t = Idle \/ (t.job \in DOMAIN jobs /\ jobs[t.job].kind = Queue(w))
        PROVE  /\ task' = [u \in Workers |-> task'[u]]
               /\ \A u \in Workers : /\ IsTask(u, task'[u])
                                     /\ task'[u] # Idle => /\ task'[u].job \in DOMAIN jobs
                                                           /\ jobs[task'[u].job].kind = Queue(u)
    <3>1. task' = [u \in Workers |-> IF u = w THEN t ELSE task[u]]
      BY <2>1, <2>3
    <3> QED
      BY <2>1, <2>3, <3>1
  <2> QED
    BY <2>2, <2>3, TasksChange
<1>5. \A w \in Workers : task'[w] # Idle => /\ task'[w].job \in DOMAIN jobs'
                                            /\ jobs'[task'[w].job].kind = Queue(w)
    BY <1>1, <1>4 DEF Grown
<1>6. \A w \in Workers : IsTask(w, task[w])' /\ (Queue(w)' = Queue(w)) /\ Idle' = Idle
    BY <1>4 DEF IsTask, Queue, Idle
<1>7. \A i \in DOMAIN jobs' : IsJob(jobs'[i]) /\ IsJob(jobs[i])'
    BY <1>1 DEF Grown, IsJob
<1> QED
    BY <1>1, <1>2, <1>3, <1>4, <1>5, <1>6, <1>7 DEF ShapeInv, Grown

LEMMA ShapeHolds == Spec => []ShapeInv
    BY ShapeInit, ShapeStep, PTL DEF Spec

-------------------------------------------------------------------------------
(* Saves: preservation. *)

LEMMA SavesStep ==
    ASSUME ShapeInv, SavesInv, [Next]_vars
    PROVE  SavesInv'
<1>0. /\ task = [w \in Workers |-> task[w]]
      /\ \A w \in Workers : task[w].step = "saving" => w \in NlpWorkers
      /\ text \in Nat /\ texts \in Nat
    BY DEF ShapeInv, IsTask, Idle
<1>1. ASSUME UNCHANGED <<text, analyses>>,
             \A w \in Workers : task'[w].step = "saving" => task'[w] = task[w]
      PROVE  SavesInv'
    BY <1>1 DEF SavesInv, Knows
<1>2. CASE ClearText
    BY <1>2 DEF ClearText, SavesInv, Knows
<1>3. CASE CompleteText
  <2>1. text' \in Nat /\ text' # 0 /\ text = 0 /\ UNCHANGED <<task, analyses>>
    BY <1>0, <1>3 DEF CompleteText
  <2> QED
    BY <2>1 DEF SavesInv, Knows
<1>4. ASSUME NEW w \in Workers, DeleteRows(w)
      PROVE  SavesInv'
  <2> DEFINE beside == {task[u].job : u \in {x \in NlpWorkers : task[x].step = "saving"}}
             t == [task[w] EXCEPT !.step = "saving", !.deleted = analyses, !.beside = beside]
  <2>1. task' = [task EXCEPT ![w] = t] /\ UNCHANGED <<text, analyses>>
    BY <1>4 DEF DeleteRows
  <2>2. \A u \in Workers : task[u].step = "saving" => task[u].job \in beside
    BY <1>0
  <2> HIDE DEF beside
  <2>3. IsTask(w, task[w]) /\ task[w].step = "analyzed"
    BY <1>4 DEF DeleteRows, ShapeInv
  <2>4. task[w] = [step |-> task[w].step, job |-> task[w].job, text |-> task[w].text,
                   work |-> task[w].work, deleted |-> task[w].deleted, beside |-> task[w].beside]
    BY <2>3 DEF IsTask, Idle
  <2>5. t.deleted = analyses /\ t.beside = beside
    BY <2>4
  <2> HIDE DEF t
  <2>6. \A u \in Workers : task'[u] = IF u = w THEN t ELSE task[u]
    BY <1>0, <2>1
  <2> QED
    BY <2>1, <2>2, <2>5, <2>6 DEF SavesInv, Knows
<1>5. ASSUME NEW w \in Workers, SaveRows(w)
      PROVE  SavesInv'
  <2> DEFINE row == [job |-> task[w].job, text |-> task[w].text, beside |-> task[w].beside]
             kept == analyses \ task[w].deleted
  <2>1. /\ analyses' = kept \/ (analyses' = kept \cup {row} /\ task[w].text = text /\ text # 0)
        /\ task' = [task EXCEPT ![w] = Idle] /\ UNCHANGED text
        /\ task[w].step = "saving"
    BY <1>5 DEF SaveRows, RowsAreForeign
  <2>2. \A u \in Workers : task'[u].step = "saving" => u # w /\ task'[u] = task[u]
    BY <1>0, <2>1 DEF Idle
  <2>3. \A x \in kept : Knows(x, row) /\ Knows(row, x)
    BY <2>1 DEF SavesInv, Knows
  <2>4. \A u \in Workers : u # w /\ task[u].step = "saving" => Knows(row, task[u])
    BY <2>1 DEF SavesInv, Knows
  <2>5. row.text = task[w].text
    OBVIOUS
  <2>6. text = 0 => analyses' = {}
    BY <2>1 DEF SavesInv
  <2> HIDE DEF row
  <2>7. \A x \in analyses' : x.text = text
    BY <2>1, <2>5 DEF SavesInv
  <2>8. \A x, y \in analyses' : x # y => Knows(x, y)
    BY <2>1, <2>3 DEF SavesInv
  <2>9. \A u \in Workers : task'[u].step = "saving" =>
            \A x \in analyses' \ task'[u].deleted : Knows(x, task'[u])
    BY <2>1, <2>2, <2>4 DEF SavesInv
  <2>10. \A v, u \in Workers : v # u /\ task'[v].step = "saving" /\ task'[u].step = "saving"
                               => Knows(task'[v], task'[u])
    BY <2>2 DEF SavesInv
  <2> QED
    BY <2>1, <2>6, <2>7, <2>8, <2>9, <2>10 DEF SavesInv, Knows
<1>6. ASSUME NEW w \in Workers, NEW t, task' = [task EXCEPT ![w] = t], t.step # "saving",
             UNCHANGED <<text, analyses>>
      PROVE  SavesInv'
    BY <1>0, <1>1, <1>6
<1>7. ASSUME NEW w \in Workers, AnalyzeTokens(w)
      PROVE  SavesInv'
  <2>1. PICK work : task' = [task EXCEPT ![w] =
                    [step |-> "analyzed", job |-> task[w].job, text |-> text,
                     work |-> work, deleted |-> {}, beside |-> {}]]
    BY <1>7, AnalyzeEffect
  <2>2. UNCHANGED <<text, analyses>>
    BY <1>7 DEF AnalyzeTokens
  <2> DEFINE t == [step |-> "analyzed", job |-> task[w].job, text |-> text,
                   work |-> work, deleted |-> {}, beside |-> {}]
  <2>3. task' = [task EXCEPT ![w] = t] /\ t.step # "saving"
    BY <2>1
  <2> HIDE DEF t
  <2> QED
    BY <1>6, <2>2, <2>3
<1>8. ASSUME NEW w \in Workers,
             \/ \E i \in DOMAIN jobs : Begin(w, i)
             \/ SaveFails(w) \/ ReadEvidence(w) \/ FinishBuild(w) \/ FailBuild(w) \/ Kill(w)
      PROVE  SavesInv'
  <2>1. \E t : task' = [task EXCEPT ![w] = t] /\ t.step # "saving"
    <3>1. ASSUME NEW i \in DOMAIN jobs, Begin(w, i)
          PROVE  \E t : task' = [task EXCEPT ![w] = t] /\ t.step # "saving"
      <4> WITNESS [step |-> "begun", job |-> i]
      <4> QED
        BY <3>1 DEF Begin
    <3>2. ASSUME ReadEvidence(w)
          PROVE  \E t : task' = [task EXCEPT ![w] = t] /\ t.step # "saving"
      <4> WITNESS [step |-> "read", job |-> task[w].job, text |-> text, analyses |-> analyses]
      <4> QED
        BY <3>2 DEF ReadEvidence
    <3>3. ASSUME SaveFails(w) \/ FinishBuild(w) \/ FailBuild(w) \/ Kill(w)
          PROVE  \E t : task' = [task EXCEPT ![w] = t] /\ t.step # "saving"
      <4> WITNESS Idle
      <4> QED
        BY <3>3 DEF SaveFails, FinishBuild, FailBuild, Kill, Idle
    <3> QED
      BY <1>8, <3>1, <3>2, <3>3
  <2>2. UNCHANGED <<text, analyses>>
    BY <1>8 DEF Begin, SaveFails, ReadEvidence, FinishBuild, FailBuild, Kill
  <2> QED
    BY <1>6, <2>1, <2>2
<1>9. ASSUME UNCHANGED <<text, analyses, task>>
      PROVE  SavesInv'
    BY <1>1, <1>9
<1>10. ASSUME NEW c \in Callers,
              AnsweredByActiveRun(c) \/ RefusedForCapacity(c) \/ CheckBuild(c) \/ InsertBuild(c)
              \/ InsertMorphology(c) \/ Enqueue(c) \/ EnqueueFails(c) \/ CallerDies(c)
       PROVE  UNCHANGED <<text, analyses, task>>
    BY <1>10 DEF AnsweredByActiveRun, RefusedForCapacity, CheckBuild, InsertBuild,
                 InsertMorphology, Enqueue, EnqueueFails, CallerDies
<1>11. ASSUME CheckMorphology \/ UNCHANGED vars
              \/ \E i \in DOMAIN jobs : Duplicate(i) \/ Sweep(i) \/ SweepEarly(i)
       PROVE  UNCHANGED <<text, analyses, task>>
    BY <1>11 DEF CheckMorphology, Duplicate, Sweep, SweepEarly, vars
<1>12. "user" \in Callers
    BY DEF Callers
<1> QED
    BY <1>2, <1>3, <1>4, <1>5, <1>7, <1>8, <1>9, <1>10, <1>11, <1>12
    DEF Next, Step, Proceed, UserAsks

\* Theorem: the analyses that are stored belong to the text that is stored now, and to one
\* save unless two saves overlapped, so that one of them found the other one under way
\* (_persist_rows deletes what is committed and inserts in the same transaction).
THEOREM AnalysesAreOfOneSave == Spec => []AnalysesOfOneSave
<1>1. Init => SavesInv
    BY DEF Init, SavesInv, Idle
<1>2. SavesInv => AnalysesOfOneSave
    BY DEF SavesInv, AnalysesOfOneSave, Knows
<1> QED
    BY ShapeHolds, SavesStep, <1>1, <1>2, PTL DEF Spec

-------------------------------------------------------------------------------
(* The limit: preservation. *)

LEMMA RegularIsFinite ==
    ASSUME ShapeInv
    PROVE  /\ IsFiniteSet(Regular) /\ Cardinality(Regular) \in Nat
           /\ IsFiniteSet({i \in DOMAIN jobs : IsActive(i)})
           /\ Cardinality(Regular) <= ActiveCount
<1>1. Len(jobs) \in Nat /\ DOMAIN jobs = 1..Len(jobs)
    BY DEF ShapeInv
<1>2. IsFiniteSet(1..Len(jobs))
    BY <1>1, FS_Interval
<1> DEFINE A == {i \in DOMAIN jobs : IsActive(i)}
<1>3. A \subseteq 1..Len(jobs) /\ Regular \subseteq A
    BY <1>1 DEF Regular
<1>4. IsFiniteSet(A) /\ ActiveCount = Cardinality(A)
    BY <1>2, <1>3, FS_Subset DEF ActiveCount
<1> HIDE DEF A
<1>5. IsFiniteSet(Regular) /\ Cardinality(Regular) <= Cardinality(A)
    BY <1>3, <1>4, FS_Subset
<1>6. Cardinality(Regular) \in Nat
    BY <1>5, FS_CardinalityType
<1> QED
    BY <1>4, <1>5, <1>6 DEF A

\* A step that adds no run and makes none regular or active again keeps the limit.
LEMMA LimitKept ==
    ASSUME ShapeInv, LimitInv, Len(jobs') = Len(jobs), Regular' \subseteq Regular,
           \A c \in Callers : call'[c].step \in {"build", "morphology"} /\ call'[c].job = Len(jobs)
               => call'[c] = call[c] \/ Cardinality(Regular) < Limit
    PROVE  LimitInv'
<1>1. IsFiniteSet(Regular) /\ Cardinality(Regular) \in Nat
    BY RegularIsFinite
<1> DEFINE R == Regular'
<1>2. R \subseteq Regular
    OBVIOUS
<1> HIDE DEF R
<1>3. IsFiniteSet(R) /\ Cardinality(R) <= Cardinality(Regular) /\ Cardinality(R) \in Nat
    BY <1>1, <1>2, FS_Subset, FS_CardinalityType
<1>4. Limit \in Nat /\ Cardinality(Regular) <= Limit
    BY LimitAssumption DEF LimitInv
<1>5. Cardinality(R) <= Limit
    BY <1>1, <1>3, <1>4
<1>6. \A c \in Callers : call'[c].step \in {"build", "morphology"} /\ call'[c].job = Len(jobs)
          => Cardinality(Regular) < Limit
    BY DEF LimitInv
<1>7. \A c \in Callers : call'[c].step \in {"build", "morphology"} /\ call'[c].job = Len(jobs')
          => Cardinality(R) < Limit
    BY <1>1, <1>3, <1>4, <1>6
<1> QED
    BY <1>5, <1>7 DEF LimitInv, R

LEMMA RevisedIsNotNewlyRegular ==
    ASSUME NEW i, NEW status, NEW regular, Revises(i, status, regular),
           status \in {"queued", "running"} /\ regular => IsActive(i) /\ jobs[i].regular
    PROVE  Len(jobs') = Len(jobs) /\ Regular' \subseteq Regular
<1>1. DOMAIN jobs' = DOMAIN jobs /\ Len(jobs') = Len(jobs)
    BY DEF Revises, SameRuns
<1>2. ASSUME NEW k \in DOMAIN jobs', jobs'[k].status \in {"queued", "running"}, jobs'[k].regular
      PROVE  k \in Regular
    BY <1>1, <1>2 DEF Revises, Regular, IsActive
<1> QED
    BY <1>1, <1>2 DEF Regular, IsActive

LEMMA LimitStep ==
    ASSUME ShapeInv, LimitInv, [Next]_vars
    PROVE  LimitInv'
<1>0. /\ call = [c \in Callers |-> call[c]] /\ \A c \in Callers : IsCall(call[c])
      /\ Len(jobs) \in Nat
      /\ "user" \in Callers /\ "ingestion" \in Callers /\ NlpWorkers \subseteq Callers
    BY DEF ShapeInv, Callers
<1>1. ASSUME UNCHANGED jobs
      PROVE  Len(jobs') = Len(jobs) /\ Regular' \subseteq Regular
    BY <1>1 DEF Regular, IsActive
<1>2. ASSUME Len(jobs') = Len(jobs), Regular' \subseteq Regular,
             \/ UNCHANGED call
             \/ \E c \in Callers : \E x : /\ call' = [call EXCEPT ![c] = x]
                                      /\ x.step \notin {"build", "morphology"}
      PROVE  LimitInv'
  <2>1. \A c \in Callers : call'[c].step \in {"build", "morphology"} => call'[c] = call[c]
    BY <1>0, <1>2
  <2> QED
    BY <1>2, <2>1, LimitKept
<1>3. ASSUME NEW c \in Callers, NEW kind, call' = [call EXCEPT ![c] = Counted(kind)],
             ActiveCount < Limit, UNCHANGED jobs
      PROVE  LimitInv'
  <2>1. Cardinality(Regular) < Limit
    BY <1>3, RegularIsFinite, LimitAssumption, FS_CardinalityType DEF ActiveCount
  <2>2. \A b \in Callers : call'[b].step \in {"build", "morphology"} /\ call'[b].job = Len(jobs)
               => call'[b] = call[b] \/ Cardinality(Regular) < Limit
    BY <2>1
  <2> QED
    BY <1>1, <1>3, <2>2, LimitKept
<1>4. ASSUME NEW c \in Callers, NEW kind, Insert(c, kind), call[c].step \in {"build", "morphology"}
      PROVE  LimitInv'
  <2> DEFINE n == Len(jobs)
             new == NewJob(kind, call[c].job = n)
             R == Regular'
  <2>1. Len(jobs') = n + 1 /\ jobs' = [i \in 1..n + 1 |-> IF i = n + 1 THEN new ELSE jobs[i]]
    BY <1>4, InsertEffect
  <2>2. n \in Nat /\ DOMAIN jobs = 1..n
    BY DEF ShapeInv
  <2>3. new.regular = (call[c].job = n)
    BY DEF NewJob
  <2> HIDE DEF new, n
  <2>4. R \subseteq Regular \cup (IF call[c].job = n THEN {n + 1} ELSE {})
    <3> SUFFICES ASSUME NEW k, k \in R
                 PROVE  k \in Regular \/ (call[c].job = n /\ k = n + 1)
      OBVIOUS
    <3>1. k \in DOMAIN jobs' /\ jobs'[k].status \in {"queued", "running"} /\ jobs'[k].regular
      BY DEF Regular, IsActive
    <3>2. k \in 1..n + 1 /\ jobs'[k] = (IF k = n + 1 THEN new ELSE jobs[k])
      BY <2>1, <3>1
    <3>3. CASE k = n + 1
      BY <2>3, <3>1, <3>2, <3>3
    <3>4. CASE k # n + 1
      BY <2>2, <3>1, <3>2, <3>4 DEF Regular, IsActive
    <3> QED
      BY <3>3, <3>4
  <2> HIDE DEF R
  <2>5. IsFiniteSet(Regular) /\ Cardinality(Regular) \in Nat /\ Limit \in Nat
        /\ Cardinality(Regular) <= Limit
    BY RegularIsFinite, LimitAssumption DEF LimitInv
  <2>6. Cardinality(R) <= Limit
    <3>1. CASE call[c].job = n
      <4>1. Cardinality(Regular) < Limit
        BY <1>4, <3>1 DEF LimitInv, n
      <4>2. IsFiniteSet(Regular \cup {n + 1})
            /\ Cardinality(Regular \cup {n + 1}) <= Cardinality(Regular) + 1
        BY <2>5, FS_AddElement
      <4>3. R \subseteq Regular \cup {n + 1}
        BY <2>4, <3>1
      <4>4. Cardinality(R) <= Cardinality(Regular \cup {n + 1})
            /\ Cardinality(R) \in Nat /\ Cardinality(Regular \cup {n + 1}) \in Nat
        BY <4>2, <4>3, FS_Subset, FS_CardinalityType
      <4> QED
        BY <2>5, <4>1, <4>2, <4>4
    <3>2. CASE call[c].job # n
      <4>1. R \subseteq Regular
        BY <2>4, <3>2
      <4>2. Cardinality(R) <= Cardinality(Regular) /\ Cardinality(R) \in Nat
        BY <2>5, <4>1, FS_Subset, FS_CardinalityType
      <4> QED
        BY <2>5, <4>2
    <3> QED
      BY <3>1, <3>2
  <2>7. \A b \in Callers : call'[b].step \in {"build", "morphology"} => call'[b].job # Len(jobs')
    <3> SUFFICES ASSUME NEW b \in Callers, call'[b].step \in {"build", "morphology"}
                 PROVE  call'[b].job # n + 1
      BY <2>1
    <3>1. call' = [call EXCEPT ![c] = [step |-> "inserted", job |-> n + 1]]
      BY <1>4 DEF Insert, n
    <3>2. b # c /\ call'[b] = call[b]
      BY <1>0, <3>1
    <3>3. call[b].job \in Int /\ call[b].job <= n
      BY <1>0 DEF IsCall, n
    <3> QED
      BY <2>2, <3>2, <3>3
  <2> QED
    BY <2>6, <2>7 DEF LimitInv, R
<1>5. ASSUME NEW w \in Workers, NEW i \in DOMAIN jobs, Begin(w, i)
      PROVE  LimitInv'
  <2>1. Revises(i, "running", jobs[i].regular /\ jobs[i].status = "queued")
    BY <1>5, BeginEffect
  <2>2. Len(jobs') = Len(jobs) /\ Regular' \subseteq Regular
    BY <2>1, RevisedIsNotNewlyRegular DEF IsActive
  <2>3. UNCHANGED call
    BY <1>5 DEF Begin
  <2> QED
    BY <1>2, <2>2, <2>3
<1>6. ASSUME NEW w \in Workers, AnalyzeTokens(w)
      PROVE  LimitInv'
  <2>1. Revises(task[w].job, jobs[task[w].job].status, jobs[task[w].job].regular)
    BY <1>6, AnalyzeKeepsRuns
  <2>2. Len(jobs') = Len(jobs) /\ Regular' \subseteq Regular
    BY <2>1, RevisedIsNotNewlyRegular DEF IsActive
  <2>3. UNCHANGED call
    BY <1>6 DEF AnalyzeTokens
  <2> QED
    BY <1>2, <2>2, <2>3
<1>7. ASSUME NEW i, NEW status \in {"completed", "failed"}, NEW regular,
             Revises(i, status, regular)
      PROVE  Len(jobs') = Len(jobs) /\ Regular' \subseteq Regular
    BY <1>7, RevisedIsNotNewlyRegular
<1>8. ASSUME NEW w \in Workers, SaveRows(w)
      PROVE  LimitInv'
  <2>1. Len(jobs') = Len(jobs) /\ Regular' \subseteq Regular
    BY <1>7, <1>8, SaveEndsRun
  <2> DEFINE x == [step |-> "start", job |-> 0]
  <2>2. call' = [call EXCEPT ![w] = x] /\ x.step = "start" /\ task[w].step = "saving"
    BY <1>8 DEF SaveRows
  <2>3. w \in Callers
    BY <1>0, <2>2 DEF ShapeInv, IsTask, Idle
  <2> HIDE DEF x
  <2> QED
    BY <1>2, <2>1, <2>2, <2>3
<1>9. ASSUME NEW w \in Workers, FinishBuild(w) \/ FailBuild(w)
      PROVE  LimitInv'
  <2>1. Len(jobs') = Len(jobs) /\ Regular' \subseteq Regular
    BY <1>7, <1>9, BuildEndsRun
  <2>2. UNCHANGED call
    BY <1>9 DEF FinishBuild, FailBuild
  <2> QED
    BY <1>2, <2>1, <2>2
<1>10. ASSUME NEW i \in DOMAIN jobs, Sweep(i) \/ SweepEarly(i)
       PROVE  LimitInv'
  <2>1. Len(jobs') = Len(jobs) /\ Regular' \subseteq Regular
    BY <1>7, <1>10, SweepEndsRun
  <2>2. UNCHANGED call
    BY <1>10 DEF Sweep, SweepEarly
  <2> QED
    BY <1>2, <2>1, <2>2
<1>11. ASSUME NEW c \in Callers, EnqueueFails(c)
       PROVE  LimitInv'
  <2>1. Len(jobs') = Len(jobs) /\ Regular' \subseteq Regular
    BY <1>1, <1>7, <1>11, EnqueueFailsEffect
  <2>2. call' = [call EXCEPT ![c] = AfterCall(c)]
        /\ AfterCall(c).step \notin {"build", "morphology"}
    BY <1>11 DEF EnqueueFails, AfterCall, Idle
  <2> QED
    BY <1>2, <2>1, <2>2
<1>12. ASSUME NEW c \in Callers,
              AnsweredByActiveRun(c) \/ RefusedForCapacity(c) \/ CallerDies(c)
       PROVE  LimitInv'
  <2>1. call' = [call EXCEPT ![c] = Idle] /\ UNCHANGED jobs /\ Idle.step = "idle"
    BY <1>12 DEF AnsweredByActiveRun, RefusedForCapacity, CallerDies, Idle
  <2> QED
    BY <1>1, <1>2, <2>1
<1>13. ASSUME NEW c \in Callers, Enqueue(c)
       PROVE  LimitInv'
  <2>1. call' = [call EXCEPT ![c] = AfterCall(c)] /\ UNCHANGED jobs
        /\ AfterCall(c).step \notin {"build", "morphology"}
    BY <1>13 DEF Enqueue, AfterCall, Idle
  <2> QED
    BY <1>1, <1>2, <2>1
<1>14. ASSUME NEW c \in Callers, CheckBuild(c)
       PROVE  LimitInv'
    BY <1>3, <1>14 DEF CheckBuild
<1>15. CASE CheckMorphology
    BY <1>0, <1>3, <1>15 DEF CheckMorphology
<1>16. ASSUME NEW c \in Callers, InsertBuild(c) \/ InsertMorphology(c)
       PROVE  LimitInv'
    BY <1>4, <1>16 DEF InsertBuild, InsertMorphology
<1>17. CASE CompleteText
  <2>1. UNCHANGED jobs /\ call' = [call EXCEPT !["ingestion"] = FollowUp]
    BY <1>17 DEF CompleteText
  <2>2. FollowUp.job = -1
    BY DEF FollowUp
  <2>3. \A c \in Callers : call'[c].job = Len(jobs) => call'[c] = call[c]
    BY <1>0, <2>1, <2>2
  <2> QED
    BY <1>1, <2>1, <2>3, LimitKept
<1>18. ASSUME NEW w \in Workers, Kill(w)
       PROVE  LimitInv'
  <2>1. UNCHANGED jobs /\ Idle.step = "idle"
        /\ (UNCHANGED call \/ (w \in NlpWorkers /\ call' = [call EXCEPT ![w] = Idle]))
    BY <1>18 DEF Kill, Idle
  <2> QED
    BY <1>0, <1>1, <1>2, <2>1
<1>19. ASSUME UNCHANGED <<jobs, call>>
       PROVE  LimitInv'
    BY <1>1, <1>2, <1>19
<1>20. ASSUME NEW w \in Workers, DeleteRows(w) \/ SaveFails(w) \/ ReadEvidence(w)
       PROVE  UNCHANGED <<jobs, call>>
    BY <1>20 DEF DeleteRows, SaveFails, ReadEvidence
<1>21. ASSUME ClearText \/ UNCHANGED vars \/ \E i \in DOMAIN jobs : Duplicate(i)
       PROVE  UNCHANGED <<jobs, call>>
    BY <1>21 DEF ClearText, Duplicate, vars
<1> QED
    BY <1>0, <1>5, <1>6, <1>8, <1>9, <1>10, <1>11, <1>12, <1>13, <1>14, <1>15, <1>16, <1>17,
       <1>18, <1>19, <1>20, <1>21
    DEF Next, Step, Proceed, UserAsks

\* Theorem: the active runs that were counted, inserted with nobody in between and not
\* started again never exceed max_active_jobs_per_user.
THEOREM RegularRunsStayWithinLimit == Spec => []RegularRunsWithinLimit
<1>1. Init => LimitInv
  <2> SUFFICES ASSUME Init PROVE LimitInv
    OBVIOUS
  <2>1. Regular = {}
    BY DEF Init, Regular
  <2>2. Cardinality(Regular) = 0
    BY <2>1, FS_EmptySet
  <2> QED
    BY <2>2, LimitAssumption DEF LimitInv, Init, Idle
<1>2. LimitInv => RegularRunsWithinLimit
    BY DEF LimitInv, RegularRunsWithinLimit, Regular
<1> QED
    BY ShapeHolds, LimitStep, <1>1, <1>2, PTL DEF Spec

-------------------------------------------------------------------------------
(* One build at work: preservation. *)

LEMMA OwnersStep ==
    ASSUME ShapeInv, OwnersInv, [Next]_vars
    PROVE  OwnersInv'
<1>0. /\ call = [c \in Callers |-> call[c]] /\ \A c \in Callers : IsCall(call[c])
      /\ Len(jobs) \in Nat
    BY DEF ShapeInv
<1>1. CASE UNCHANGED call
    BY <1>1 DEF OwnersInv
<1>2. ASSUME NEW c \in Callers, NEW x, call' = [call EXCEPT ![c] = x],
             x.step # "inserted" \/ x.job = Len(jobs) + 1
      PROVE  OwnersInv'
  <2>1. \A b \in Callers : call'[b] = IF b = c THEN x ELSE call[b]
    BY <1>0, <1>2
  <2>2. \A b \in Callers : call[b].job \in Int /\ call[b].job <= Len(jobs)
    BY <1>0 DEF IsCall
  <2>3. \A b \in Callers : call[b].job # Len(jobs) + 1
    BY <1>0, <2>2
  <2> QED
    BY <1>2, <2>1, <2>3 DEF OwnersInv
<1>3. ASSUME NEW x,
             \/ x = Idle \/ x = [step |-> "start", job |-> 0] \/ x = FollowUp
             \/ x = Counted("build") \/ x = Counted("morphology")
             \/ x = [step |-> "inserted", job |-> Len(jobs) + 1]
      PROVE  x.step # "inserted" \/ x.job = Len(jobs) + 1
    BY <1>3 DEF Idle, FollowUp, Counted
<1> QED
    BY <1>1, <1>2, <1>3, CallsChange

LEMMA DisturbedGrows ==
    ASSUME [Next]_vars
    PROVE  disturbed \subseteq disturbed'
<1>1. ASSUME NEW w \in Workers, Step(w) \/ FailBuild(w) \/ Kill(w)
      PROVE  disturbed \subseteq disturbed'
    BY <1>1 DEF Step, Begin, AnalyzeTokens, DeleteRows, SaveRows, SaveFails, ReadEvidence,
                FinishBuild, FailBuild, Kill
<1>2. ASSUME NEW c \in Callers,
             AnsweredByActiveRun(c) \/ RefusedForCapacity(c) \/ CheckBuild(c) \/ InsertBuild(c)
             \/ InsertMorphology(c) \/ Enqueue(c) \/ EnqueueFails(c) \/ CallerDies(c)
      PROVE  disturbed \subseteq disturbed'
    BY <1>2 DEF AnsweredByActiveRun, RefusedForCapacity, CheckBuild, InsertBuild,
                InsertMorphology, Enqueue, EnqueueFails, CallerDies
<1>3. ASSUME CheckMorphology \/ ClearText \/ CompleteText \/ UNCHANGED vars
             \/ \E i \in DOMAIN jobs : Duplicate(i) \/ Sweep(i) \/ SweepEarly(i)
      PROVE  disturbed \subseteq disturbed'
    BY <1>3 DEF CheckMorphology, ClearText, CompleteText, Duplicate, Sweep, SweepEarly, vars
<1>4. "user" \in Callers
    BY DEF Callers
<1> QED
    BY <1>1, <1>2, <1>3, <1>4 DEF Next, Proceed, UserAsks

LEMMA OrderStep ==
    ASSUME ShapeInv, OwnersInv, OrderInv, [Next]_vars
    PROVE  OrderInv'
<1>0. /\ call = [c \in Callers |-> call[c]] /\ task = [w \in Workers |-> task[w]]
      /\ \A c \in Callers : /\ call[c].job \in Int /\ call[c].job <= Len(jobs)
                            /\ call[c].step = "inserted" => call[c].job \in DOMAIN jobs
      /\ \A w \in Workers : task[w] # Idle => task[w].job \in DOMAIN jobs
      /\ Len(jobs) \in Nat /\ DOMAIN jobs = 1..Len(jobs) /\ messages \in [1..Len(jobs) -> Nat]
      /\ "user" \in Callers /\ "ingestion" \in Callers /\ NlpWorkers \subseteq Callers
    BY DEF ShapeInv, IsCall, Callers
<1>1. ASSUME SameRuns, ActiveIsLast,
             \A k \in DOMAIN jobs : jobs'[k].status \in {"queued", "running"} => IsActive(k)
      PROVE  ActiveIsLast'
    BY <1>1 DEF ActiveIsLast, Active, Builds, IsActive, SameRuns
<1>2. ASSUME UNCHANGED jobs, ActiveIsLast
      PROVE  ActiveIsLast'
    BY <1>2 DEF ActiveIsLast, Active, Builds, IsActive
<1>3. ASSUME WorkedOnRuns /\ OneWorkerEach, UNCHANGED task,
             \A k \in DOMAIN jobs : jobs[k].status = "running" => jobs'[k].status = "running"
      PROVE  WorkedOnRuns' /\ OneWorkerEach'
    BY <1>0, <1>3 DEF WorkedOnRuns, OneWorkerEach, Idle
\* The task of w ends and with it, perhaps, the run of w.
<1>4. ASSUME NEW w \in Workers, task' = [task EXCEPT ![w] = Idle], WorkedOnRuns /\ OneWorkerEach,
             \A k \in DOMAIN jobs : k # task[w].job => jobs'[k].status = jobs[k].status
      PROVE  WorkedOnRuns' /\ OneWorkerEach'
  <2>1. \A u \in Workers : task'[u] = IF u = w THEN Idle ELSE task[u]
    BY <1>0, <1>4
  <2>2. CASE task[w] = Idle
    <3>1. UNCHANGED task
      BY <1>0, <1>4, <2>2
    <3>2. \A u \in Workers : task[u] # Idle => task[u].job # task[w].job
      BY <1>0, <1>4, <2>2 DEF WorkedOnRuns, OneWorkerEach, Idle, ShapeInv
    <3> QED
      BY <1>0, <1>4, <3>1, <3>2 DEF WorkedOnRuns, OneWorkerEach, Idle
  <2>3. CASE task[w] # Idle
    BY <1>0, <1>4, <2>1, <2>3 DEF WorkedOnRuns, OneWorkerEach, Idle
  <2> QED
    BY <2>2, <2>3
<1>5. ASSUME NEW w \in Workers, NEW t, task' = [task EXCEPT ![w] = t], t.job = task[w].job,
             task[w] # Idle, WorkedOnRuns /\ OneWorkerEach,
             \A k \in DOMAIN jobs : jobs'[k].status = jobs[k].status
      PROVE  WorkedOnRuns' /\ OneWorkerEach'
  <2>1. \A u \in Workers : task'[u] = IF u = w THEN t ELSE task[u]
    BY <1>0, <1>5
  <2> QED
    BY <1>0, <1>5, <2>1 DEF WorkedOnRuns, OneWorkerEach, Idle
\* Calls that wait stay as they are.
<1>6. ASSUME InsertedWaits,
             \A c \in Callers : call'[c].step = "inserted" =>
                 /\ call'[c] = call[c]
                 /\ messages'[call[c].job] = messages[call[c].job]
                 /\ jobs'[call[c].job].status = jobs[call[c].job].status
      PROVE  InsertedWaits'
    BY <1>6 DEF InsertedWaits
<1>7. SUFFICES ASSUME disturbed' = {}
               PROVE  ActiveIsLast' /\ WorkedOnRuns' /\ OneWorkerEach' /\ InsertedWaits'
    BY DEF OrderInv
<1>8. disturbed = {}
    BY <1>7, DisturbedGrows
<1>9. ActiveIsLast /\ WorkedOnRuns /\ OneWorkerEach /\ InsertedWaits
    BY <1>8 DEF OrderInv
<1> DEFINE Kept == ActiveIsLast' /\ WorkedOnRuns' /\ OneWorkerEach' /\ InsertedWaits'
<1>10. ASSUME NEW w \in Workers, NEW i \in DOMAIN jobs, Begin(w, i)
       PROVE  Kept
  <2>1. jobs[i].status = "queued"
    BY <1>7, <1>10 DEF Begin
  <2>2. Revises(i, "running", jobs[i].regular /\ jobs[i].status = "queued")
    BY <1>10, BeginEffect
  <2>3. /\ SameRuns /\ jobs'[i].status = "running"
        /\ \A k \in DOMAIN jobs : k # i => jobs'[k] = jobs[k]
    BY <2>2 DEF Revises
  <2>4. ActiveIsLast'
    BY <1>1, <1>9, <2>1, <2>3 DEF IsActive
  <2> DEFINE t == [step |-> "begun", job |-> i]
  <2>5. /\ task' = [task EXCEPT ![w] = t] /\ task[w] = Idle /\ t.job = i
        /\ messages[i] > 0 /\ messages' = [messages EXCEPT ![i] = @ - 1] /\ UNCHANGED call
    BY <1>10 DEF Begin
  <2> HIDE DEF t
  <2>6. \A u \in Workers : task'[u] = IF u = w THEN t ELSE task[u]
    BY <1>0, <2>5
  <2>7. \A u \in Workers : task[u] # Idle => task[u].job # i
    BY <1>9, <2>1 DEF WorkedOnRuns
  <2>8. WorkedOnRuns' /\ OneWorkerEach'
    BY <1>0, <1>9, <2>3, <2>5, <2>6, <2>7 DEF WorkedOnRuns, OneWorkerEach, Idle
  <2>9. \A c \in Callers : call[c].step = "inserted" => call[c].job # i
    BY <1>0, <1>9, <2>5 DEF InsertedWaits
  <2>10. InsertedWaits'
    BY <1>0, <1>6, <1>9, <2>3, <2>5, <2>9
  <2> QED
    BY <2>4, <2>8, <2>10
<1>11. ASSUME NEW w \in Workers, AnalyzeTokens(w)
       PROVE  Kept
  <2>1. Revises(task[w].job, jobs[task[w].job].status, jobs[task[w].job].regular)
    BY <1>11, AnalyzeKeepsRuns
  <2>2. SameRuns /\ \A k \in DOMAIN jobs : jobs'[k].status = jobs[k].status
    BY <2>1 DEF Revises
  <2>3. PICK work : task' = [task EXCEPT ![w] =
                    [step |-> "analyzed", job |-> task[w].job, text |-> text,
                     work |-> work, deleted |-> {}, beside |-> {}]]
    BY <1>11, AnalyzeEffect
  <2> DEFINE t == [step |-> "analyzed", job |-> task[w].job, text |-> text,
                   work |-> work, deleted |-> {}, beside |-> {}]
  <2>4. task' = [task EXCEPT ![w] = t] /\ t.job = task[w].job
    BY <2>3
  <2>5. task[w] # Idle /\ UNCHANGED <<messages, call>>
    BY <1>11 DEF AnalyzeTokens, Idle
  <2> HIDE DEF t
  <2>6. WorkedOnRuns' /\ OneWorkerEach'
    BY <1>5, <1>9, <2>2, <2>4, <2>5
  <2>7. ActiveIsLast'
    BY <1>1, <1>9, <2>2 DEF IsActive
  <2>8. InsertedWaits'
    BY <1>0, <1>6, <1>9, <2>2, <2>5
  <2> QED
    BY <2>6, <2>7, <2>8
<1>12. ASSUME NEW w \in Workers, NEW t, task' = [task EXCEPT ![w] = t], t.job = task[w].job,
              task[w] # Idle, UNCHANGED <<jobs, messages, call>>
       PROVE  Kept
  <2>1. WorkedOnRuns' /\ OneWorkerEach'
    BY <1>5, <1>9, <1>12
  <2> QED
    BY <1>2, <1>6, <1>9, <1>12, <2>1
<1>13. ASSUME NEW w \in Workers, DeleteRows(w)
       PROVE  Kept
  <2> DEFINE beside == {task[u].job : u \in {x \in NlpWorkers : task[x].step = "saving"}}
             t == [task[w] EXCEPT !.step = "saving", !.deleted = analyses, !.beside = beside]
  <2>1. task' = [task EXCEPT ![w] = t] /\ UNCHANGED <<jobs, messages, call>>
    BY <1>13 DEF DeleteRows
  <2>a. task[w] # Idle
    BY <1>13 DEF DeleteRows, Idle
  <2> HIDE DEF beside
  <2>2. task[w].step = "analyzed" /\ IsTask(w, task[w])
    BY <1>13 DEF DeleteRows, ShapeInv
  <2>3. task[w] = [step |-> task[w].step, job |-> task[w].job, text |-> task[w].text,
                   work |-> task[w].work, deleted |-> task[w].deleted, beside |-> task[w].beside]
    BY <2>2 DEF IsTask, Idle
  <2>4. t.job = task[w].job
    BY <2>3
  <2> HIDE DEF t
  <2> QED
    BY <1>12, <2>1, <2>4, <2>a
<1>14. ASSUME NEW w \in Workers, ReadEvidence(w)
       PROVE  Kept
  <2> DEFINE t == [step |-> "read", job |-> task[w].job, text |-> text, analyses |-> analyses]
  <2>1. task' = [task EXCEPT ![w] = t] /\ t.job = task[w].job /\ task[w] # Idle
        /\ UNCHANGED <<jobs, messages, call>>
    BY <1>14 DEF ReadEvidence, Idle
  <2> HIDE DEF t
  <2> QED
    BY <1>12, <2>1
<1>15. ASSUME NEW w \in Workers, NEW status \in {"completed", "failed"}, task[w] # Idle,
              Revises(task[w].job, status, jobs[task[w].job].regular),
              task' = [task EXCEPT ![w] = Idle], UNCHANGED messages,
              \A c \in Callers : call'[c].step = "inserted" => call'[c] = call[c]
       PROVE  Kept
  <2>1. /\ SameRuns /\ task[w].job \in DOMAIN jobs /\ jobs'[task[w].job].status = status
        /\ \A k \in DOMAIN jobs : k # task[w].job => jobs'[k] = jobs[k]
    BY <1>15 DEF Revises
  <2>2. ActiveIsLast'
    BY <1>1, <1>9, <2>1 DEF IsActive
  <2>3. WorkedOnRuns' /\ OneWorkerEach'
    BY <1>4, <1>9, <1>15, <2>1
  <2>4. \A c \in Callers : call[c].step = "inserted" => call[c].job # task[w].job
    BY <1>9, <1>15 DEF InsertedWaits, WorkedOnRuns
  <2>5. InsertedWaits'
    BY <1>0, <1>6, <1>9, <1>15, <2>1, <2>4
  <2> QED
    BY <2>2, <2>3, <2>5
<1>16. ASSUME NEW w \in Workers, SaveRows(w)
       PROVE  Kept
  <2>1. PICK status \in {"completed", "failed"} :
            Revises(task[w].job, status, jobs[task[w].job].regular)
    BY <1>16, SaveEndsRun
  <2> DEFINE x == [step |-> "start", job |-> 0]
  <2>2. task[w].step = "saving" /\ task[w] # Idle /\ task' = [task EXCEPT ![w] = Idle]
        /\ UNCHANGED messages /\ call' = [call EXCEPT ![w] = x] /\ x.step # "inserted"
    BY <1>16 DEF SaveRows, Idle
  <2> HIDE DEF x
  <2>3. \A c \in Callers : call'[c].step = "inserted" => call'[c] = call[c]
    BY <1>0, <2>2
  <2> QED
    BY <1>15, <2>1, <2>2, <2>3
<1>17. ASSUME NEW w \in Workers, FinishBuild(w) \/ FailBuild(w)
       PROVE  Kept
  <2>1. PICK status \in {"completed", "failed"} :
            Revises(task[w].job, status, jobs[task[w].job].regular)
    BY <1>17, BuildEndsRun
  <2>2. task[w] # Idle /\ task' = [task EXCEPT ![w] = Idle] /\ UNCHANGED <<messages, call>>
    BY <1>17 DEF FinishBuild, FailBuild, Idle
  <2> QED
    BY <1>15, <2>1, <2>2
<1>18. ASSUME NEW w \in Workers, SaveFails(w) \/ Kill(w)
       PROVE  Kept
  <2>1. task' = [task EXCEPT ![w] = Idle] /\ UNCHANGED <<jobs, messages>>
    BY <1>18 DEF SaveFails, Kill
  <2>2. UNCHANGED call \/ (w \in NlpWorkers /\ call' = [call EXCEPT ![w] = Idle])
    BY <1>18 DEF SaveFails, Kill
  <2>3. \A c \in Callers : call'[c].step = "inserted" => call'[c] = call[c]
    BY <1>0, <2>2 DEF Idle
  <2>4. WorkedOnRuns' /\ OneWorkerEach'
    BY <1>4, <1>9, <2>1
  <2> QED
    BY <1>2, <1>6, <1>9, <2>1, <2>3, <2>4
<1>19. ASSUME UNCHANGED <<jobs, task, messages>>,
              \A c \in Callers : call'[c].step = "inserted" => call'[c] = call[c]
       PROVE  Kept
    BY <1>2, <1>3, <1>6, <1>9, <1>19
<1>20. ASSUME NEW c \in Callers,
              AnsweredByActiveRun(c) \/ RefusedForCapacity(c) \/ CheckBuild(c) \/ CallerDies(c)
       PROVE  Kept
  <2>1. UNCHANGED <<jobs, task, messages>>
        /\ \E x : call' = [call EXCEPT ![c] = x] /\ x.step # "inserted"
    BY <1>20 DEF AnsweredByActiveRun, RefusedForCapacity, CheckBuild, CallerDies, Idle, Counted
  <2> QED
    BY <1>0, <1>19, <2>1
<1>21. CASE CheckMorphology
  <2> DEFINE x == Counted("morphology")
  <2>1. UNCHANGED <<jobs, task, messages>>
        /\ call' = [call EXCEPT !["user"] = x] /\ x.step # "inserted"
    BY <1>21 DEF CheckMorphology, Counted
  <2> HIDE DEF x
  <2> QED
    BY <1>0, <1>19, <2>1
<1>22. CASE CompleteText
  <2> DEFINE x == FollowUp
  <2>1. UNCHANGED <<jobs, task, messages>>
        /\ call' = [call EXCEPT !["ingestion"] = x] /\ x.step # "inserted"
    BY <1>22 DEF CompleteText, FollowUp
  <2> HIDE DEF x
  <2> QED
    BY <1>0, <1>19, <2>1
<1>23. ASSUME ClearText \/ UNCHANGED vars
       PROVE  Kept
    BY <1>19, <1>23 DEF ClearText, vars
<1>24. ASSUME NEW c \in Callers, NEW x, call' = [call EXCEPT ![c] = x], x.step # "inserted"
       PROVE  \A b \in Callers : call'[b].step = "inserted" =>
                  b # c /\ call'[b] = call[b]
                  /\ (call[c].step = "inserted" => call[b].job # call[c].job)
  <2>1. \A b \in Callers : call'[b] = IF b = c THEN x ELSE call[b]
    BY <1>0, <1>24
  <2> QED
    BY <1>24, <2>1 DEF OwnersInv
<1>25. ASSUME NEW c \in Callers, Enqueue(c)
       PROVE  Kept
  <2>1. UNCHANGED <<jobs, task>> /\ call' = [call EXCEPT ![c] = AfterCall(c)]
        /\ AfterCall(c).step # "inserted" /\ call[c].step = "inserted"
        /\ messages' = [messages EXCEPT ![call[c].job] = @ + 1]
    BY <1>25 DEF Enqueue, AfterCall, Idle
  <2>2. \A b \in Callers : call'[b].step = "inserted" =>
            call'[b] = call[b] /\ call[b].job # call[c].job
    BY <1>24, <2>1
  <2>3. \A b \in Callers : call'[b].step = "inserted" =>
            messages'[call[b].job] = messages[call[b].job]
    BY <1>0, <2>1, <2>2
  <2> QED
    BY <1>2, <1>3, <1>6, <1>9, <2>1, <2>2, <2>3
<1>26. ASSUME NEW c \in Callers, EnqueueFails(c)
       PROVE  Kept
  <2>1. UNCHANGED <<messages, task>> /\ call' = [call EXCEPT ![c] = AfterCall(c)]
        /\ AfterCall(c).step # "inserted" /\ call[c].step = "inserted"
    BY <1>26 DEF EnqueueFails, AfterCall, Idle
  <2>2. \A b \in Callers : call'[b].step = "inserted" =>
            call'[b] = call[b] /\ call[b].job # call[c].job
    BY <1>24, <2>1
  <2>3. CASE UNCHANGED jobs
    BY <1>2, <1>3, <1>6, <1>9, <2>1, <2>2, <2>3
  <2>4. CASE Revises(call[c].job, "failed", jobs[call[c].job].regular)
    <3> DEFINE i == call[c].job
    <3>1. /\ SameRuns /\ i \in DOMAIN jobs /\ jobs'[i].status = "failed"
          /\ \A k \in DOMAIN jobs : k # i => jobs'[k] = jobs[k]
      BY <2>4 DEF Revises
    <3>2. jobs[i].status = "queued"
      BY <1>9, <2>1 DEF InsertedWaits
    <3>3. ActiveIsLast'
      BY <1>1, <1>9, <3>1 DEF IsActive
    <3>4. WorkedOnRuns' /\ OneWorkerEach'
      BY <1>3, <1>9, <2>1, <3>1, <3>2
    <3>5. InsertedWaits'
      BY <1>0, <1>6, <1>9, <2>1, <2>2, <3>1
    <3> QED
      BY <3>3, <3>4, <3>5
  <2> QED
    BY <1>26, <2>3, <2>4, EnqueueFailsEffect
<1>27. ASSUME NEW i \in DOMAIN jobs, Sweep(i)
       PROVE  Kept
  <2>1. Revises(i, "failed", jobs[i].regular)
    BY <1>27, SweepEndsRun
  <2>2. /\ SameRuns /\ jobs'[i].status = "failed"
        /\ \A k \in DOMAIN jobs : k # i => jobs'[k] = jobs[k]
    BY <2>1 DEF Revises
  <2>3. /\ \A w \in Workers : task[w].job # i
        /\ \A c \in Callers : call[c].step = "inserted" => call[c].job # i
        /\ UNCHANGED <<messages, task, call>>
    BY <1>27 DEF Sweep, IsAbandoned, HeldBy
  <2>4. ActiveIsLast'
    BY <1>1, <1>9, <2>2 DEF IsActive
  <2>5. WorkedOnRuns' /\ OneWorkerEach'
    BY <1>0, <1>9, <2>2, <2>3 DEF WorkedOnRuns, OneWorkerEach, Idle
  <2>6. InsertedWaits'
    BY <1>0, <1>6, <1>9, <2>2, <2>3
  <2> QED
    BY <2>4, <2>5, <2>6
<1>28. ASSUME NEW i \in DOMAIN jobs, SweepEarly(i)
       PROVE  Kept
    BY <1>7, <1>28 DEF SweepEarly
<1>29. ASSUME NEW i \in DOMAIN jobs, Duplicate(i)
       PROVE  Kept
  <2>1. /\ messages[i] = 1 /\ messages' = [messages EXCEPT ![i] = 2]
        /\ UNCHANGED <<jobs, task, call>>
    BY <1>29 DEF Duplicate
  <2>2. \A c \in Callers : call[c].step = "inserted" => call[c].job # i
    BY <1>9, <2>1 DEF InsertedWaits
  <2>3. InsertedWaits'
    BY <1>0, <1>6, <1>9, <2>1, <2>2
  <2> QED
    BY <1>2, <1>3, <1>9, <2>1, <2>3
<1>30. ASSUME NEW c \in Callers, NEW kind, Insert(c, kind), UNCHANGED task,
              kind = "discovery" => Active("discovery") = {}
       PROVE  Kept
  <2> DEFINE n == Len(jobs)
             new == NewJob(kind, call[c].job = n)
             x == [step |-> "inserted", job |-> n + 1]
  <2>1. /\ jobs' = [i \in 1..n + 1 |-> IF i = n + 1 THEN new ELSE jobs[i]]
        /\ messages' = [i \in 1..n + 1 |-> IF i = n + 1 THEN 0 ELSE messages[i]]
    BY <1>30, InsertEffect
  <2>2. call' = [call EXCEPT ![c] = x] /\ x.job = n + 1 /\ x.step = "inserted"
    BY <1>30 DEF Insert
  <2>3. new.kind = kind /\ new.status = "queued"
    BY DEF NewJob
  <2>4. n \in Nat /\ DOMAIN jobs = 1..n
    BY <1>0
  <2> HIDE DEF new, n, x
  <2>5. \A i \in DOMAIN jobs : i \in DOMAIN jobs' /\ jobs'[i] = jobs[i] /\ i # n + 1
        /\ messages'[i] = messages[i]
    BY <2>1, <2>4
  <2>6. DOMAIN jobs' = 1..n + 1 /\ jobs'[n + 1] = new /\ messages'[n + 1] = 0
    BY <2>1, <2>4
  <2>7. ActiveIsLast'
    <3> SUFFICES ASSUME NEW i \in Active("discovery")', NEW j \in Builds'
                 PROVE  j <= i
      BY DEF ActiveIsLast
    <3>1. i \in 1..n + 1 /\ j \in 1..n + 1
      BY <2>6 DEF Active, Builds
    <3>2. CASE i = n + 1
      BY <2>4, <3>1, <3>2
    <3>3. CASE i # n + 1
      <4>1. i \in DOMAIN jobs
        BY <2>4, <3>1, <3>3
      <4>2. i \in Active("discovery")
        BY <2>5, <4>1 DEF Active, IsActive
      <4>3. kind # "discovery"
        BY <1>30, <4>2
      <4>4. j # n + 1
        BY <2>3, <2>6, <4>3 DEF Builds
      <4>5. j \in DOMAIN jobs
        BY <2>4, <3>1, <4>4
      <4>6. j \in Builds
        BY <2>5, <4>5 DEF Builds
      <4> QED
        BY <1>9, <4>2, <4>6 DEF ActiveIsLast
    <3> QED
      BY <3>2, <3>3
  <2>8. WorkedOnRuns' /\ OneWorkerEach'
    BY <1>0, <1>9, <1>30, <2>5 DEF WorkedOnRuns, OneWorkerEach, Idle
  <2>9. \A b \in Callers : call'[b] = IF b = c THEN x ELSE call[b]
    BY <1>0, <2>2
  <2>10. InsertedWaits'
    BY <1>0, <1>9, <2>2, <2>3, <2>5, <2>6, <2>9 DEF InsertedWaits
  <2> QED
    BY <2>7, <2>8, <2>10
<1>31. ASSUME NEW c \in Callers, InsertBuild(c)
       PROVE  Kept
    BY <1>7, <1>30, <1>31 DEF InsertBuild
<1>32. ASSUME NEW c \in Callers, InsertMorphology(c)
       PROVE  Kept
    BY <1>30, <1>32 DEF InsertMorphology
<1> QED
    BY <1>0, <1>10, <1>11, <1>13, <1>14, <1>16, <1>17, <1>18, <1>20, <1>21, <1>22, <1>23,
       <1>25, <1>26, <1>27, <1>28, <1>29, <1>31, <1>32
    DEF Next, Step, Proceed, UserAsks

LEMMA OneBuildWorker ==
    ASSUME ShapeInv, OrderInv, disturbed = {},
           NEW w \in BuildWorkers, NEW u \in BuildWorkers, task[w] # Idle, task[u] # Idle
    PROVE  w = u
<1>1. w \in Workers /\ u \in Workers /\ w \notin NlpWorkers /\ u \notin NlpWorkers
    BY WorkersAssumption DEF Workers
<1>2. /\ task[w].job \in DOMAIN jobs /\ jobs[task[w].job].kind = "discovery"
      /\ task[u].job \in DOMAIN jobs /\ jobs[task[u].job].kind = "discovery"
    BY <1>1 DEF ShapeInv, Queue
<1>3. jobs[task[w].job].status = "running" /\ jobs[task[u].job].status = "running"
    BY <1>1 DEF OrderInv, WorkedOnRuns
<1>4. /\ task[w].job \in Active("discovery") /\ task[w].job \in Builds
      /\ task[u].job \in Active("discovery") /\ task[u].job \in Builds
    BY <1>2, <1>3 DEF Active, IsActive, Builds
<1>5. task[w].job <= task[u].job /\ task[u].job <= task[w].job
    BY <1>4 DEF OrderInv, ActiveIsLast
<1>6. task[w].job \in Int /\ task[u].job \in Int
    BY <1>2 DEF ShapeInv
<1>7. task[w].job = task[u].job
    BY <1>5, <1>6
<1> QED
    BY <1>1, <1>7 DEF OrderInv, OneWorkerEach

LEMMA OrderHolds == Spec => [](ShapeInv /\ OwnersInv /\ OrderInv)
<1>1. Init => OwnersInv /\ OrderInv
  <2> SUFFICES ASSUME Init PROVE OwnersInv /\ OrderInv
    OBVIOUS
  <2>1. jobs = <<>> /\ (\A c \in Callers : call[c] = Idle) /\ \A w \in Workers : task[w] = Idle
    BY DEF Init
  <2>2. ActiveIsLast
    BY <2>1 DEF ActiveIsLast, Active
  <2> QED
    BY <2>1, <2>2 DEF OwnersInv, OrderInv, WorkedOnRuns, OneWorkerEach, InsertedWaits, Idle
<1> QED
    BY ShapeInit, ShapeStep, OwnersStep, OrderStep, <1>1, PTL DEF Spec

\* Theorem: two workers build the candidates at once only if two starts both found no active
\* run, a message arrived twice or after its run was ended, or the sweep ended a run that
\* was still worked on.
THEOREM OneBuildIsAtWork == Spec => []OneBuildAtWork
<1>1. ShapeInv /\ OwnersInv /\ OrderInv => OneBuildAtWork
  <2> SUFFICES ASSUME ShapeInv, OrderInv, disturbed = {}
               PROVE  ~(Cardinality({w \in BuildWorkers : task[w] # Idle}) > 1)
    BY DEF OneBuildAtWork
  <2> DEFINE B == {w \in BuildWorkers : task[w] # Idle}
  <2>1. \A w, u \in B : w = u
    BY OneBuildWorker
  <2> HIDE DEF B
  <2>2. CASE B = {}
    BY <2>2, FS_EmptySet DEF B
  <2>3. CASE B # {}
    <3>1. PICK w : B = {w}
      BY <2>1, <2>3
    <3>2. Cardinality(B) = 1
      BY <3>1, FS_Singleton
    <3> QED
      BY <3>2 DEF B
  <2> QED
    BY <2>2, <2>3
<1> QED
    BY OrderHolds, <1>1, PTL

-------------------------------------------------------------------------------
(* Builds implement IngestionJobs.                                         *)

\* The builds of the document, seen as the job rows of IngestionJobs.
BuildStatus == [i \in Nat |-> IF i \in Builds THEN jobs[i].status ELSE "none"]

Promise == INSTANCE IngestionJobs WITH Jobs <- Nat, status <- BuildStatus

\* As long as nothing goes beside the plan a build is created only when no other is active,
\* it starts once and ends once, and where it ended it stays.
BuildsKeepPromise == Promise!Init /\ [][disturbed' = {} => [Promise!Next]_BuildStatus]_vars

\* A step that revises one run.
LEMMA BuildIsRevised ==
    ASSUME ShapeInv, NEW i, NEW s, NEW regular, Revises(i, s, regular)
    PROVE  BuildStatus' = IF i \in Builds THEN [BuildStatus EXCEPT ![i] = s] ELSE BuildStatus
<1>1. i \in Nat /\ Builds \subseteq Nat
    BY DEF ShapeInv, Revises, Builds
<1>2. Builds' = Builds
    BY DEF Revises, SameRuns, Builds
<1>3. \A k \in Builds : jobs'[k].status = IF k = i THEN s ELSE jobs[k].status
    BY DEF Revises, Builds
<1>4. BuildStatus' = [k \in Nat |-> IF k \in Builds THEN IF k = i THEN s ELSE jobs[k].status
                                    ELSE "none"]
    BY <1>2, <1>3 DEF BuildStatus
<1>5. CASE i \in Builds
    BY <1>1, <1>4, <1>5 DEF BuildStatus
<1>6. CASE i \notin Builds
    BY <1>4, <1>6 DEF BuildStatus
<1> QED
    BY <1>5, <1>6

LEMMA BuildIsInserted ==
    ASSUME ShapeInv, NEW c, NEW kind \in Kinds, Insert(c, kind)
    PROVE  /\ kind = "discovery" =>
                 \E k \in Nat : /\ BuildStatus[k] = "none"
                                /\ BuildStatus' = [BuildStatus EXCEPT ![k] = "queued"]
           /\ kind # "discovery" => BuildStatus' = BuildStatus
<1> DEFINE n == Len(jobs)
           k == n + 1
           new == NewJob(kind, call[c].job = n)
<1>1. /\ Len(jobs') = k
      /\ jobs' = [i \in 1..k |-> IF i = k THEN new ELSE jobs[i]]
    BY InsertEffect
<1>2. n \in Nat /\ DOMAIN jobs = 1..n
    BY DEF ShapeInv
<1>3. new.kind = kind /\ new.status = "queued"
    BY DEF NewJob
<1> HIDE DEF new, n
<1>4. k \in Nat /\ k \notin DOMAIN jobs /\ DOMAIN jobs' = DOMAIN jobs \cup {k}
      /\ jobs'[k] = new /\ \A i \in DOMAIN jobs : jobs'[i] = jobs[i]
    BY <1>1, <1>2
<1> HIDE DEF k
<1>5. Builds' = Builds \cup (IF kind = "discovery" THEN {k} ELSE {})
    BY <1>3, <1>4 DEF Builds
<1>6. k \notin Builds /\ \A i \in Builds : jobs'[i] = jobs[i]
    BY <1>4 DEF Builds
<1>7. BuildStatus[k] = "none"
    BY <1>4, <1>6 DEF BuildStatus
<1>8. ASSUME kind = "discovery" PROVE BuildStatus' = [BuildStatus EXCEPT ![k] = "queued"]
  <2>1. BuildStatus' = [i \in Nat |-> IF i = k THEN "queued"
                                      ELSE IF i \in Builds THEN jobs[i].status ELSE "none"]
    BY <1>3, <1>4, <1>5, <1>6, <1>8 DEF BuildStatus
  <2> QED
    BY <1>4, <2>1 DEF BuildStatus
<1>9. ASSUME kind # "discovery" PROVE BuildStatus' = BuildStatus
    BY <1>5, <1>6, <1>9 DEF BuildStatus
<1> QED
    BY <1>4, <1>7, <1>8, <1>9

\* What the steps do to a build, in terms of the promise.
LEMMA RevisedAsPromised ==
    ASSUME ShapeInv, NEW i, NEW s, NEW regular, Revises(i, s, regular),
           i \in Builds => \/ jobs[i].status = "queued" /\ s = "running"
                           \/ jobs[i].status = "running" /\ s = "completed"
                           \/ IsActive(i) /\ s = "failed"
                           \/ s = jobs[i].status
    PROVE  [Promise!Next]_BuildStatus
<1>1. CASE i \notin Builds
    BY <1>1, BuildIsRevised
<1>2. CASE i \in Builds
  <2>1. BuildStatus' = [BuildStatus EXCEPT ![i] = s]
    BY <1>2, BuildIsRevised
  <2>2. i \in Nat /\ BuildStatus[i] = jobs[i].status
    BY <1>2 DEF ShapeInv, Builds, BuildStatus
  <2>3. CASE jobs[i].status = "queued" /\ s = "running"
    BY <2>1, <2>2, <2>3 DEF Promise!Next, Promise!Begin
  <2>4. CASE jobs[i].status = "running" /\ s = "completed"
    BY <2>1, <2>2, <2>4 DEF Promise!Next, Promise!Complete
  <2>5. CASE IsActive(i) /\ s = "failed"
    BY <2>1, <2>2, <2>5 DEF Promise!Next, Promise!Fail, Promise!Active, IsActive
  <2>6. CASE s = jobs[i].status
    BY <2>1, <2>2, <2>6 DEF BuildStatus
  <2> QED
    BY <1>2, <2>3, <2>4, <2>5, <2>6
<1> QED
    BY <1>1, <1>2

LEMMA PromiseStep ==
    ASSUME ShapeInv, OrderInv, [Next]_vars, disturbed' = {}
    PROVE  [Promise!Next]_BuildStatus
<1>0. disturbed = {}
    BY DisturbedGrows
<1>1. ASSUME NEW w \in Workers, NEW i \in DOMAIN jobs, Begin(w, i)
      PROVE  [Promise!Next]_BuildStatus
  <2>1. jobs[i].status = "queued"
    BY <1>1 DEF Begin
  <2> QED
    BY <1>1, <2>1, BeginEffect, RevisedAsPromised
<1>2. ASSUME NEW w \in Workers, AnalyzeTokens(w)
      PROVE  [Promise!Next]_BuildStatus
    BY <1>2, AnalyzeKeepsRuns, RevisedAsPromised
<1>3. ASSUME NEW w \in Workers, SaveRows(w)
      PROVE  [Promise!Next]_BuildStatus
  <2>1. task[w].job \notin Builds
    <3>1. task[w] # Idle /\ w \in NlpWorkers
      BY <1>3 DEF SaveRows, ShapeInv, IsTask, Idle
    <3> QED
      BY <3>1 DEF ShapeInv, Queue, Builds
  <2> QED
    BY <1>3, <2>1, SaveEndsRun, RevisedAsPromised
<1>4. ASSUME NEW w \in Workers, FinishBuild(w) \/ FailBuild(w)
      PROVE  [Promise!Next]_BuildStatus
  <2>1. jobs[task[w].job].status = "running"
    <3>1. task[w] # Idle
      BY <1>4 DEF FinishBuild, FailBuild, Idle
    <3> QED
      BY <1>0, <3>1 DEF OrderInv, WorkedOnRuns
  <2> QED
    BY <1>4, <2>1, BuildEndsRun, RevisedAsPromised DEF IsActive
<1>5. ASSUME NEW c \in Callers, InsertBuild(c)
      PROVE  [Promise!Next]_BuildStatus
  <2>1. Insert(c, "discovery") /\ Active("discovery") = {}
    BY <1>5 DEF InsertBuild
  <2>2. PICK k \in Nat : /\ BuildStatus[k] = "none"
                         /\ BuildStatus' = [BuildStatus EXCEPT ![k] = "queued"]
    BY <2>1, BuildIsInserted DEF Kinds
  <2>3. Promise!ActiveJobs = {}
    <3>1. ASSUME NEW i \in Nat, BuildStatus[i] \in {"queued", "running"} PROVE FALSE
      <4>1. i \in Builds /\ IsActive(i)
        BY <3>1 DEF BuildStatus, IsActive
      <4> QED
        BY <2>1, <4>1 DEF Active, Builds
    <3> QED
      BY <3>1 DEF Promise!ActiveJobs, Promise!Active
  <2> QED
    BY <2>2, <2>3 DEF Promise!Next, Promise!Create
<1>6. ASSUME NEW c \in Callers, InsertMorphology(c)
      PROVE  [Promise!Next]_BuildStatus
  <2>1. Insert(c, "morphology")
    BY <1>6 DEF InsertMorphology
  <2> QED
    BY <2>1, BuildIsInserted DEF Kinds
<1>7. ASSUME NEW c \in Callers, EnqueueFails(c)
      PROVE  [Promise!Next]_BuildStatus
  <2>1. UNCHANGED jobs => UNCHANGED BuildStatus
    BY DEF BuildStatus, Builds
  <2>2. ASSUME jobs[call[c].job].kind = "morphology",
               Revises(call[c].job, "failed", jobs[call[c].job].regular)
        PROVE  [Promise!Next]_BuildStatus
    BY <2>2, RevisedAsPromised DEF Builds
  <2> QED
    BY <1>7, <2>1, <2>2, EnqueueFailsEffect
<1>8. ASSUME NEW i \in DOMAIN jobs, Sweep(i) \/ SweepEarly(i)
      PROVE  [Promise!Next]_BuildStatus
  <2>1. IsActive(i)
    BY <1>8 DEF Sweep, SweepEarly
  <2> QED
    BY <1>8, <2>1, SweepEndsRun, RevisedAsPromised
<1>9. ASSUME UNCHANGED jobs
      PROVE  [Promise!Next]_BuildStatus
    BY <1>9 DEF BuildStatus, Builds
<1>10. ASSUME NEW w \in Workers,
              DeleteRows(w) \/ SaveFails(w) \/ ReadEvidence(w) \/ Kill(w)
       PROVE  UNCHANGED jobs
    BY <1>10 DEF DeleteRows, SaveFails, ReadEvidence, Kill
<1>11. ASSUME NEW c \in Callers,
              AnsweredByActiveRun(c) \/ RefusedForCapacity(c) \/ CheckBuild(c) \/ Enqueue(c)
              \/ CallerDies(c)
       PROVE  UNCHANGED jobs
    BY <1>11 DEF AnsweredByActiveRun, RefusedForCapacity, CheckBuild, Enqueue, CallerDies
<1>12. ASSUME CheckMorphology \/ ClearText \/ CompleteText \/ UNCHANGED vars
              \/ \E i \in DOMAIN jobs : Duplicate(i)
       PROVE  UNCHANGED jobs
    BY <1>12 DEF CheckMorphology, ClearText, CompleteText, Duplicate, vars
<1>13. "user" \in Callers
    BY DEF Callers
<1> QED
    BY <1>1, <1>2, <1>3, <1>4, <1>5, <1>6, <1>7, <1>8, <1>9, <1>10, <1>11, <1>12, <1>13
    DEF Next, Step, Proceed, UserAsks

\* Theorem: until two requests overlap, a message arrives twice or late, or the sweep ends a
\* run that still works, the builds of a document (start_build_run, process_run, the sweep)
\* implement the abstract job rows that the ingestion jobs implement (BuildsKeepPromise).
THEOREM BuildsFollowPromise == Spec => BuildsKeepPromise
<1>1. Init => Promise!Init
    BY DEF Init, Promise!Init, BuildStatus, Builds
<1>2. ShapeInv /\ OrderInv /\ [Next]_vars
      => [disturbed' = {} => [Promise!Next]_BuildStatus]_vars
    BY PromiseStep
<1> QED
    BY <1>1, <1>2, OrderHolds, PTL DEF Spec, BuildsKeepPromise

-------------------------------------------------------------------------------
(* Candidates that follow the evidence: preservation. *)

\* A build at work is the active run, and the last one.
LEMMA ReaderIsLast ==
    ASSUME ShapeInv, OrderInv, disturbed = {}, NEW w \in BuildWorkers, task[w] # Idle
    PROVE  /\ task[w].job \in Active("discovery") /\ task[w].job \in Builds
           /\ jobs[task[w].job].status = "running"
           /\ \A j \in Builds : j <= task[w].job
<1>1. w \in Workers /\ w \notin NlpWorkers
    BY WorkersAssumption DEF Workers
<1>2. task[w].job \in DOMAIN jobs /\ jobs[task[w].job].kind = "discovery"
    BY <1>1 DEF ShapeInv, Queue
<1>3. jobs[task[w].job].status = "running"
    BY <1>1 DEF OrderInv, WorkedOnRuns
<1>4. task[w].job \in Active("discovery") /\ task[w].job \in Builds
    BY <1>2, <1>3 DEF Active, IsActive, Builds
<1> QED
    BY <1>3, <1>4 DEF OrderInv, ActiveIsLast

\* An active build that nobody reads for will read what is stored.
LEMMA FreshWhenUnread ==
    ASSUME ShapeInv, OrderInv, disturbed = {}, NEW i \in Active("discovery"),
           \A w \in BuildWorkers : task[w].step # "read"
    PROVE  Fresh
<1>1. i \in Builds /\ jobs[i].status # "completed"
    BY DEF Active, Builds, IsActive
<1>2. \A j \in Builds : j <= i
    BY DEF OrderInv, ActiveIsLast
<1> QED
    BY <1>1, <1>2 DEF Fresh

\* The active run that answers a caller and will read.
LEMMA FreshWhenAnswered ==
    ASSUME ShapeInv, OrderInv, disturbed = {}, NEW i \in Active("discovery"), WillRead(i)
    PROVE  Doubled \/ Fresh
<1>0. i \in Builds /\ i \in DOMAIN jobs /\ jobs[i].kind = "discovery"
      /\ jobs[i].status \in {"queued", "running"}
    BY DEF Active, Builds, IsActive
<1>1. WorkedOnRuns /\ OneWorkerEach /\ InsertedWaits /\ ActiveIsLast
    BY DEF OrderInv
<1>2. \A w \in BuildWorkers : task[w].step = "read" => task[w].job = i /\ jobs[i].status = "running"
  <2> SUFFICES ASSUME NEW w \in BuildWorkers, task[w].step = "read"
               PROVE  task[w].job = i /\ jobs[i].status = "running"
    OBVIOUS
  <2>1. task[w] # Idle
    BY DEF Idle
  <2>2. /\ task[w].job \in Active("discovery") /\ task[w].job \in Builds
        /\ jobs[task[w].job].status = "running"
    BY <2>1, ReaderIsLast
  <2>3. task[w].job <= i /\ i <= task[w].job
    BY <1>0, <1>1, <2>2 DEF ActiveIsLast
  <2>4. task[w].job \in Int /\ i \in Int
    BY <1>0, <2>2 DEF ShapeInv, Builds
  <2> QED
    BY <2>2, <2>3, <2>4
<1>3. CASE jobs[i].status = "queued"
    BY <1>2, <1>3, FreshWhenUnread
<1>4. CASE messages[i] > 0 /\ jobs[i].status # "queued"
    BY <1>0, <1>4 DEF Doubled
<1>5. CASE \E c \in Callers : call[c].step = "inserted" /\ call[c].job = i
    BY <1>1, <1>3, <1>5 DEF InsertedWaits
<1>6. CASE \E w \in HeldBy(i) : task[w].step = "begun"
  <2>1. PICK w \in Workers : task[w].job = i /\ task[w].step = "begun"
    BY <1>6 DEF HeldBy
  <2>2. task[w] # Idle
    BY <2>1 DEF Idle
  <2>3. jobs[i].kind = Queue(w)
    BY <2>1, <2>2 DEF ShapeInv
  <2>4. w \in BuildWorkers
    BY <1>0, <2>3 DEF Queue, Workers
  <2>5. \A u \in BuildWorkers : task[u].step # "read"
    <3> SUFFICES ASSUME NEW u \in BuildWorkers, task[u].step = "read"
                 PROVE  FALSE
      OBVIOUS
    <3>1. task[u] # Idle
      BY DEF Idle
    <3>2. u = w
      BY <2>2, <2>4, <3>1, OneBuildWorker
    <3> QED
      BY <2>1, <3>2
  <2> QED
    BY <2>5, FreshWhenUnread
<1> QED
    BY <1>3, <1>4, <1>5, <1>6 DEF WillRead

LEMMA PendingKept ==
    ASSUME ShapeInv, Grown, Pending, \A c \in Callers : c # "user" => call'[c] = call[c]
    PROVE  Pending'
<1>1. \A c \in Callers : call[c].step = "inserted" => call[c].job \in DOMAIN jobs
    BY DEF ShapeInv, IsCall
<1>2. \A i \in DOMAIN jobs : jobs'[i].kind = jobs[i].kind
    BY DEF Grown
<1> QED
    BY <1>1, <1>2 DEF Pending

LEMMA DoubledKept ==
    ASSUME ShapeInv, Grown, Doubled,
           \A i \in DOMAIN jobs : jobs[i].status # "queued" /\ messages[i] > 0
               => jobs'[i].status # "queued" /\ messages'[i] > 0
    PROVE  Doubled'
BY DEF Doubled, Builds, Grown

LEMMA FreshKept ==
    ASSUME SameRuns, Fresh, UNCHANGED <<text, analyses, candidates>>,
           \A i \in DOMAIN jobs : jobs'[i].status = "completed" => jobs[i].status = "completed",
           \A w \in BuildWorkers : task'[w].step = "read" => task'[w] = task[w]
    PROVE  Fresh'
<1>1. Builds' = Builds
    BY DEF Builds, SameRuns
<1>2. PICK last \in Builds :
          /\ \A j \in Builds : j <= last
          /\ jobs[last].status = "completed" => candidates = [text |-> text, analyses |-> analyses]
    BY DEF Fresh
<1>3. last \in DOMAIN jobs
    BY DEF Builds
<1>4. \E l \in Builds' :
          /\ \A j \in Builds' : j <= l
          /\ jobs'[l].status = "completed"
                 => candidates' = [text |-> text', analyses |-> analyses']
    BY <1>1, <1>2, <1>3
<1>5. \A w \in BuildWorkers : task'[w].step = "read" => task'[w].text = text'
                                                        /\ task'[w].analyses = analyses'
    BY DEF Fresh
<1> QED
    BY <1>4, <1>5 DEF Fresh

LEMMA FollowStep ==
    ASSUME ShapeInv, OwnersInv, OrderInv, FollowInv, [Next]_vars
    PROVE  FollowInv'
<1>0. /\ call = [c \in Callers |-> call[c]] /\ task = [w \in Workers |-> task[w]]
      /\ \A c \in Callers : call[c].step = "inserted" => call[c].job \in DOMAIN jobs
      /\ Len(jobs) \in Nat /\ DOMAIN jobs = 1..Len(jobs) /\ messages \in [1..Len(jobs) -> Nat]
      /\ "user" \in Callers /\ "ingestion" \in Callers /\ NlpWorkers \subseteq Callers
      /\ "user" \notin NlpWorkers /\ "ingestion" # "user"
      /\ \A w \in BuildWorkers : w \in Workers /\ w \notin NlpWorkers
    BY WorkersAssumption DEF ShapeInv, IsCall, Callers, Workers
<1> DEFINE Follows == Pending' \/ Doubled' \/ Fresh'
<1>1. SUFFICES ASSUME disturbed' = {}, ~missed', text' # 0
               PROVE  Follows
    BY DEF FollowInv
<1>2. Grown
    BY RunsGrow
<1>3. disturbed = {}
  <2>1. ASSUME NEW w \in Workers, Step(w) \/ FailBuild(w) \/ Kill(w)
        PROVE  disturbed \subseteq disturbed'
    BY <2>1 DEF Step, Begin, AnalyzeTokens, DeleteRows, SaveRows, SaveFails, ReadEvidence,
                FinishBuild, FailBuild, Kill
  <2>2. ASSUME NEW c \in Callers,
               AnsweredByActiveRun(c) \/ RefusedForCapacity(c) \/ CheckBuild(c) \/ InsertBuild(c)
               \/ InsertMorphology(c) \/ Enqueue(c) \/ EnqueueFails(c) \/ CallerDies(c)
        PROVE  disturbed \subseteq disturbed'
    BY <2>2 DEF AnsweredByActiveRun, RefusedForCapacity, CheckBuild, InsertBuild,
                InsertMorphology, Enqueue, EnqueueFails, CallerDies
  <2>3. ASSUME CheckMorphology \/ ClearText \/ CompleteText \/ UNCHANGED vars
               \/ \E i \in DOMAIN jobs : Duplicate(i) \/ Sweep(i) \/ SweepEarly(i)
        PROVE  disturbed \subseteq disturbed'
    BY <2>3 DEF CheckMorphology, ClearText, CompleteText, Duplicate, Sweep, SweepEarly, vars
  <2>4. disturbed \subseteq disturbed'
    BY <1>0, <2>1, <2>2, <2>3 DEF Next, Proceed, UserAsks
  <2> QED
    BY <1>1, <2>4
<1>4. WorkedOnRuns /\ OneWorkerEach /\ InsertedWaits /\ ActiveIsLast
    BY <1>3 DEF OrderInv
<1>5. ASSUME UNCHANGED text, missed => missed'
      PROVE  Pending \/ Doubled \/ Fresh
    BY <1>1, <1>3, <1>5 DEF FollowInv
\* Three ways to keep what follows.
<1>6. ASSUME SameRuns, UNCHANGED <<text, analyses, candidates>>, missed => missed',
             \A c \in Callers : c # "user" => call'[c] = call[c],
             \A i \in DOMAIN jobs : jobs[i].status # "queued" /\ messages[i] > 0
                 => jobs'[i].status # "queued" /\ messages'[i] > 0,
             \A i \in DOMAIN jobs : jobs'[i].status = "completed" => jobs[i].status = "completed",
             \A w \in BuildWorkers : task'[w].step = "read" => task'[w] = task[w]
      PROVE  Follows
    BY <1>2, <1>5, <1>6, PendingKept, DoubledKept, FreshKept
<1>7. ASSUME UNCHANGED <<text, analyses, candidates, jobs, messages, task>>, missed => missed',
             \A c \in Callers : c # "user" => call'[c] = call[c]
      PROVE  Follows
    BY <1>6, <1>7, NoRunChanges
<1>8. ASSUME NEW c \in Callers, NEW x, call' = [call EXCEPT ![c] = x],
             \/ c # "user" /\ x.step \in {"start", "build"}
             \/ c = "ingestion" /\ x.step = "morphology"
      PROVE  Follows
  <2>1. call'[c] = x
    BY <1>0, <1>8
  <2>2. Pending'
    BY <1>8, <2>1 DEF Pending
  <2> QED
    BY <2>2
<1>9. CASE CompleteText
  <2> DEFINE x == FollowUp
  <2>1. call' = [call EXCEPT !["ingestion"] = x] /\ x.step \in {"start", "morphology"}
    BY <1>9 DEF CompleteText, FollowUp
  <2> HIDE DEF x
  <2> QED
    BY <1>0, <1>8, <2>1
<1>10. CASE ClearText
    BY <1>1, <1>10 DEF ClearText
<1>11. ASSUME NEW w \in Workers, SaveRows(w)
       PROVE  Follows
  <2> DEFINE x == [step |-> "start", job |-> 0]
  <2>1. task[w].step = "saving" /\ call' = [call EXCEPT ![w] = x] /\ x.step = "start"
    BY <1>11 DEF SaveRows
  <2>2. w \in NlpWorkers
    BY <2>1 DEF ShapeInv, IsTask, Idle
  <2> HIDE DEF x
  <2> QED
    BY <1>0, <1>8, <2>1, <2>2
<1>12. ASSUME NEW w \in Workers, ReadEvidence(w)
       PROVE  Follows
  <2> DEFINE t == [step |-> "read", job |-> task[w].job, text |-> text, analyses |-> analyses]
  <2>1. /\ w \in BuildWorkers /\ task[w] # Idle /\ task' = [task EXCEPT ![w] = t]
        /\ t.text = text /\ t.analyses = analyses
        /\ UNCHANGED <<text, analyses, jobs>>
    BY <1>12 DEF ReadEvidence, Idle
  <2> HIDE DEF t
  <2>2. /\ task[w].job \in Builds /\ jobs[task[w].job].status = "running"
        /\ \A j \in Builds : j <= task[w].job
    BY <1>3, <2>1, ReaderIsLast
  <2>3. \A u \in BuildWorkers : u # w => task[u] = Idle
    BY <1>3, <2>1, OneBuildWorker
  <2>a. \A u \in BuildWorkers : task'[u] = IF u = w THEN t ELSE task[u]
    BY <1>0, <2>1
  <2>4. \A u \in BuildWorkers : task'[u].step = "read" => task'[u] = t
    BY <2>3, <2>a DEF Idle
  <2>5. Builds' = Builds
    BY <2>1 DEF Builds
  <2>6. Fresh'
    BY <2>1, <2>2, <2>4, <2>5 DEF Fresh
  <2> QED
    BY <2>6
<1>13. ASSUME NEW w \in Workers, NEW i \in DOMAIN jobs, Begin(w, i)
       PROVE  Follows
  <2>1. jobs[i].status = "queued"
    BY <1>1, <1>13 DEF Begin
  <2>2. Revises(i, "running", jobs[i].regular /\ jobs[i].status = "queued")
    BY <1>13, BeginEffect
  <2>3. /\ SameRuns /\ jobs'[i].status = "running"
        /\ \A k \in DOMAIN jobs : k # i => jobs'[k] = jobs[k]
    BY <2>2 DEF Revises
  <2> DEFINE t == [step |-> "begun", job |-> i]
  <2>4. task' = [task EXCEPT ![w] = t] /\ t.step = "begun"
        /\ messages' = [messages EXCEPT ![i] = @ - 1]
        /\ UNCHANGED <<call, text, analyses, candidates, missed>>
    BY <1>13 DEF Begin
  <2> HIDE DEF t
  <2>5. \A u \in BuildWorkers : task'[u].step = "read" => task'[u] = task[u]
    BY <1>0, <2>4
  <2>6. \A k \in DOMAIN jobs : jobs[k].status # "queued" /\ messages[k] > 0
                 => jobs'[k].status # "queued" /\ messages'[k] > 0
    BY <1>0, <2>1, <2>3, <2>4
  <2>7. \A k \in DOMAIN jobs : jobs'[k].status = "completed" => jobs[k].status = "completed"
    BY <2>3
  <2> QED
    BY <1>6, <2>3, <2>4, <2>5, <2>6, <2>7
<1>14. ASSUME NEW w \in Workers, AnalyzeTokens(w)
       PROVE  Follows
  <2>1. Revises(task[w].job, jobs[task[w].job].status, jobs[task[w].job].regular)
    BY <1>14, AnalyzeKeepsRuns
  <2>2. SameRuns /\ \A k \in DOMAIN jobs : jobs'[k].status = jobs[k].status
    BY <2>1 DEF Revises
  <2>3. w \in NlpWorkers /\ UNCHANGED <<messages, call, text, analyses, candidates, missed>>
    BY <1>14 DEF AnalyzeTokens
  <2>4. \E t : task' = [task EXCEPT ![w] = t]
    BY <1>14, AnalyzeEffect
  <2>5. \A u \in BuildWorkers : task'[u] = task[u]
    BY <1>0, <2>3, <2>4
  <2> QED
    BY <1>6, <2>2, <2>3, <2>5
<1>15. ASSUME NEW w \in Workers, DeleteRows(w)
       PROVE  Follows
  <2>1. UNCHANGED <<jobs, messages, call, text, analyses, candidates, missed>>
    BY <1>15 DEF DeleteRows
  <2>2. task[w].step = "analyzed" /\ \E t : task' = [task EXCEPT ![w] = t]
    BY <1>15 DEF DeleteRows
  <2>3. w \in NlpWorkers
    BY <2>2 DEF ShapeInv, IsTask, Idle
  <2>4. \A u \in BuildWorkers : task'[u] = task[u]
    BY <1>0, <2>2, <2>3
  <2> QED
    BY <1>6, <2>1, <2>4, NoRunChanges
<1>16. ASSUME NEW w \in Workers, SaveFails(w) \/ Kill(w)
       PROVE  Follows
  <2>1. UNCHANGED <<jobs, messages, text, analyses, candidates>>
        /\ task' = [task EXCEPT ![w] = Idle]
    BY <1>16 DEF SaveFails, Kill
  <2>a. missed => missed'
    BY <1>16, Zenon DEF SaveFails, Kill
  <2>2. UNCHANGED call \/ (w \in NlpWorkers /\ call[w] = Idle /\ call' = [call EXCEPT ![w] = Idle])
    BY <1>1, <1>16 DEF SaveFails, Kill
  <2>3. \A c \in Callers : call'[c] = call[c]
    BY <1>0, <2>2
  <2>4. \A u \in BuildWorkers : task'[u].step = "read" => task'[u] = task[u]
    BY <1>0, <2>1 DEF Idle
  <2> QED
    BY <1>6, <2>1, <2>3, <2>4, <2>a, NoRunChanges
<1>17. ASSUME NEW i \in DOMAIN jobs, Revises(i, "failed", jobs[i].regular),
              UNCHANGED <<messages, text, analyses, candidates>>, missed => missed',
              \A c \in Callers : c # "user" => call'[c] = call[c],
              \A w \in BuildWorkers : task'[w].step = "read" => task'[w] = task[w]
       PROVE  Follows
  <2>1. /\ SameRuns /\ jobs'[i].status = "failed"
        /\ \A k \in DOMAIN jobs : k # i => jobs'[k] = jobs[k]
    BY <1>17 DEF Revises
  <2> QED
    BY <1>6, <1>17, <2>1
<1>18. ASSUME NEW w \in Workers, FailBuild(w)
       PROVE  Follows
  <2>1. Revises(task[w].job, "failed", jobs[task[w].job].regular)
    BY <1>18, BuildEndsRun
  <2>2. task' = [task EXCEPT ![w] = Idle]
        /\ UNCHANGED <<messages, call, text, analyses, candidates, missed>>
    BY <1>18 DEF FailBuild
  <2>3. \A u \in BuildWorkers : task'[u].step = "read" => task'[u] = task[u]
    BY <1>0, <2>2 DEF Idle
  <2>4. task[w].job \in DOMAIN jobs
    BY <2>1 DEF Revises
  <2> QED
    BY <1>17, <2>1, <2>2, <2>3, <2>4
<1>19. ASSUME NEW i \in DOMAIN jobs, Sweep(i)
       PROVE  Follows
  <2>1. UNCHANGED <<messages, task, call, text, analyses, candidates, missed>>
    BY <1>19 DEF Sweep
  <2> QED
    BY <1>17, <1>19, <2>1, SweepEndsRun
<1>20. ASSUME NEW i \in DOMAIN jobs, SweepEarly(i)
       PROVE  Follows
    BY <1>1, <1>20 DEF SweepEarly
<1>21. ASSUME NEW i \in DOMAIN jobs, Duplicate(i)
       PROVE  Follows
  <2>1. UNCHANGED <<jobs, task, call, text, analyses, candidates, missed>>
        /\ messages' = [messages EXCEPT ![i] = 2]
    BY <1>21 DEF Duplicate
  <2>2. \A k \in DOMAIN jobs : messages[k] > 0 => messages'[k] > 0
    BY <1>0, <2>1
  <2> QED
    BY <1>6, <2>1, <2>2, NoRunChanges
<1>22. ASSUME NEW w \in Workers, FinishBuild(w)
       PROVE  Follows
  <2>1. Revises(task[w].job, "completed", jobs[task[w].job].regular)
    BY <1>22, BuildEndsRun
  <2>2. /\ SameRuns /\ task[w].job \in DOMAIN jobs /\ jobs'[task[w].job].status = "completed"
        /\ \A k \in DOMAIN jobs : k # task[w].job => jobs'[k] = jobs[k]
    BY <2>1 DEF Revises
  <2>3. /\ task[w].step = "read" /\ task' = [task EXCEPT ![w] = Idle]
        /\ candidates' = [text |-> task[w].text, analyses |-> task[w].analyses]
        /\ UNCHANGED <<messages, call, text, analyses, missed>>
    BY <1>22 DEF FinishBuild
  <2>4. task[w] # Idle /\ w \in BuildWorkers
    <3>1. task[w] # Idle /\ IsTask(w, task[w])
      BY <2>3 DEF ShapeInv, Idle
    <3>2. task[w] # [step |-> "begun", job |-> task[w].job]
      BY <2>3
    <3> QED
      BY <2>3, <3>1, <3>2 DEF IsTask
  <2>5. /\ task[w].job \in Builds /\ \A j \in Builds : j <= task[w].job
        /\ jobs[task[w].job].status = "running"
    BY <1>3, <2>4, ReaderIsLast
  <2>6. Pending \/ Doubled \/ Fresh
    BY <1>5, <2>3
  <2>7. CASE Pending
    BY <1>2, <2>3, <2>7, PendingKept
  <2>8. CASE Doubled
    BY <1>2, <2>2, <2>3, <2>8, DoubledKept
  <2>9. CASE Fresh
    <3>1. task[w].text = text /\ task[w].analyses = analyses
      BY <2>3, <2>4, <2>9 DEF Fresh
    <3>2. Builds' = Builds
      BY <2>2 DEF Builds, SameRuns
    <3>3. \A u \in BuildWorkers : task'[u].step = "read" => task'[u] = task[u]
      BY <1>0, <2>3 DEF Idle
    <3>4. \E last \in Builds' :
             /\ \A j \in Builds' : j <= last
             /\ jobs'[last].status = "completed"
                    => candidates' = [text |-> text', analyses |-> analyses']
      BY <2>3, <2>5, <3>1, <3>2
    <3>5. \A u \in BuildWorkers : task'[u].step = "read" => task'[u].text = text'
                                                            /\ task'[u].analyses = analyses'
      BY <2>3, <2>9, <3>3 DEF Fresh
    <3>6. Fresh'
      BY <3>4, <3>5 DEF Fresh
    <3> QED
      BY <3>6
  <2> QED
    BY <2>6, <2>7, <2>8, <2>9
<1>23. ASSUME NEW c \in Callers, NEW x, call' = [call EXCEPT ![c] = x]
       PROVE  \A b \in Callers : b # c => call'[b] = call[b]
    BY <1>0, <1>23
<1>24. ASSUME NEW c \in Callers, AnsweredByActiveRun(c)
       PROVE  Follows
  <2>1. UNCHANGED <<text, analyses, candidates, jobs, messages, task>>
        /\ call' = [call EXCEPT ![c] = Idle] /\ Active("discovery") # {}
    BY <1>24 DEF AnsweredByActiveRun
  <2> DEFINE found == CHOOSE i \in Active("discovery") : \A j \in Active("discovery") : j <= i
  <2>2. missed' = (missed \/ (c # "user" /\ ~WillRead(found)))
    BY <1>24 DEF AnsweredByActiveRun
  <2>3. missed => missed'
    BY <2>2, Zenon
  <2>4. CASE c = "user"
    BY <1>7, <1>23, <2>1, <2>3, <2>4
  <2>5. CASE c # "user"
    <3>1. PICK i \in Active("discovery") : TRUE
      BY <2>1
    <3>2. \A j \in Active("discovery") : j <= i
      BY <1>4 DEF ActiveIsLast, Active, Builds
    <3>3. found \in Active("discovery")
      BY <3>1, <3>2
    <3> HIDE DEF found
    <3>4. WillRead(found)
      BY <1>1, <2>2, <2>5, Zenon
    <3>5. Doubled \/ Fresh
      BY <1>3, <3>3, <3>4, FreshWhenAnswered
    <3>6. Doubled => Doubled'
      BY <2>1 DEF Doubled, Builds
    <3>7. Fresh => Fresh'
      BY <2>1 DEF Fresh, Builds
    <3> QED
      BY <3>5, <3>6, <3>7
  <2> QED
    BY <2>4, <2>5
<1>25. ASSUME NEW c \in Callers, RefusedForCapacity(c) \/ CallerDies(c)
       PROVE  Follows
  <2>1. UNCHANGED <<text, analyses, candidates, jobs, messages, task>>
        /\ call' = [call EXCEPT ![c] = Idle]
    BY <1>25 DEF RefusedForCapacity, CallerDies
  <2>2. CASE RefusedForCapacity(c)
    <3>1. missed' = (missed \/ c # "user")
      BY <2>2 DEF RefusedForCapacity
    <3>2. c = "user" /\ (missed => missed')
      BY <1>1, <3>1, Zenon
    <3> QED
      BY <1>7, <1>23, <2>1, <3>2
  <2>3. CASE CallerDies(c)
    <3>1. missed' = (missed \/ c = "ingestion") /\ c \notin NlpWorkers
      BY <2>3 DEF CallerDies
    <3>2. c # "ingestion" /\ (missed => missed')
      BY <1>1, <3>1, Zenon
    <3>3. c = "user"
      BY <3>1, <3>2 DEF Callers
    <3> QED
      BY <1>7, <1>23, <2>1, <3>2, <3>3
  <2> QED
    BY <1>25, <2>2, <2>3
<1>26. ASSUME NEW c \in Callers, CheckBuild(c)
       PROVE  Follows
  <2> DEFINE x == Counted("build")
  <2>1. UNCHANGED <<text, analyses, candidates, jobs, messages, task, missed>>
        /\ call' = [call EXCEPT ![c] = x] /\ x.step = "build"
    BY <1>26 DEF CheckBuild, Counted
  <2> HIDE DEF x
  <2>2. CASE c = "user"
    BY <1>7, <1>23, <2>1, <2>2
  <2>3. CASE c # "user"
    BY <1>8, <2>1, <2>3
  <2> QED
    BY <2>2, <2>3
<1>27. CASE CheckMorphology
  <2> DEFINE x == Counted("morphology")
  <2>1. UNCHANGED <<text, analyses, candidates, jobs, messages, task, missed>>
        /\ call' = [call EXCEPT !["user"] = x]
    BY <1>27 DEF CheckMorphology
  <2> HIDE DEF x
  <2> QED
    BY <1>0, <1>7, <1>23, <2>1
<1>28. ASSUME NEW c \in Callers, InsertBuild(c)
       PROVE  Follows
  <2> DEFINE n == Len(jobs)
             new == NewJob("discovery", call[c].job = n)
  <2>1. Insert(c, "discovery") /\ UNCHANGED <<text, analyses, candidates, task>>
        /\ Active("discovery") = {}
    BY <1>1, <1>28 DEF InsertBuild
  <2>2. jobs' = [i \in 1..n + 1 |-> IF i = n + 1 THEN new ELSE jobs[i]]
    BY <2>1, InsertEffect
  <2>3. new.kind = "discovery" /\ new.status = "queued"
    BY DEF NewJob
  <2>4. n \in Nat
    BY <1>0
  <2> HIDE DEF n, new
  <2>5. n + 1 \in Builds' /\ jobs'[n + 1].status = "queued" /\ \A j \in Builds' : j <= n + 1
    BY <2>2, <2>3, <2>4 DEF Builds
  <2>6. \A w \in BuildWorkers : task[w] = Idle
    BY <1>3, <2>1, ReaderIsLast
  <2>7. \A w \in BuildWorkers : task'[w].step # "read"
    BY <2>1, <2>6 DEF Idle
  <2>8. Fresh'
    BY <2>5, <2>7 DEF Fresh
  <2> QED
    BY <2>8
<1>29. ASSUME NEW c \in Callers, InsertMorphology(c)
       PROVE  Follows
  <2> DEFINE n == Len(jobs)
             new == NewJob("morphology", call[c].job = n)
             x == [step |-> "inserted", job |-> n + 1]
  <2>1. Insert(c, "morphology") /\ UNCHANGED <<text, analyses, candidates, task, missed>>
        /\ c \in {"user", "ingestion"}
    BY <1>29 DEF InsertMorphology
  <2>2. /\ jobs' = [i \in 1..n + 1 |-> IF i = n + 1 THEN new ELSE jobs[i]]
        /\ messages' = [i \in 1..n + 1 |-> IF i = n + 1 THEN 0 ELSE messages[i]]
    BY <2>1, InsertEffect
  <2>3. new.kind = "morphology"
    BY DEF NewJob
  <2>4. n \in Nat /\ DOMAIN jobs = 1..n
    BY <1>0
  <2>5. call' = [call EXCEPT ![c] = x] /\ x.step = "inserted" /\ x.job = n + 1
    BY <2>1 DEF Insert
  <2> HIDE DEF n, new, x
  <2>6. \A i \in DOMAIN jobs : jobs'[i] = jobs[i] /\ messages'[i] = messages[i]
    BY <2>2, <2>4
  <2>7. Builds' = Builds
    <3>1. DOMAIN jobs' = 1..n + 1 /\ jobs'[n + 1].kind = "morphology"
      BY <2>2, <2>3, <2>4
    <3>2. \A i \in 1..n + 1 : i = n + 1 \/ i \in 1..n
      BY <2>4
    <3>3. \A i \in 1..n : i \in 1..n + 1
      BY <2>4
    <3> QED
      BY <2>4, <2>6, <3>1, <3>2, <3>3 DEF Builds
  <2>8. Pending \/ Doubled \/ Fresh
    BY <1>5, <2>1
  <2>9. CASE c = "ingestion"
    <3>1. call'["ingestion"] = x
      BY <1>0, <2>5, <2>9
    <3>2. jobs'[n + 1].kind = "morphology"
      BY <2>2, <2>3, <2>4
    <3>3. Pending'
      BY <1>0, <2>5, <3>1, <3>2 DEF Pending
    <3> QED
      BY <3>3
  <2>10. CASE c = "user"
    <3>1. Pending => Pending'
      BY <1>2, <1>23, <2>5, <2>10, PendingKept
    <3>2. Doubled => Doubled'
      BY <2>6, <2>7 DEF Doubled, Builds
    <3>3. Fresh => Fresh'
      BY <2>1, <2>6, <2>7 DEF Fresh, Builds
    <3> QED
      BY <2>8, <3>1, <3>2, <3>3
  <2> QED
    BY <2>1, <2>9, <2>10
<1>30. ASSUME NEW c \in Callers, Enqueue(c) \/ EnqueueFails(c)
       PROVE  /\ call[c].step = "inserted" /\ call' = [call EXCEPT ![c] = AfterCall(c)]
              /\ UNCHANGED <<text, analyses, candidates, task, missed>>
    BY <1>30 DEF Enqueue, EnqueueFails
\* The follow-up of an ingestion goes on with the build.
<1>31. ASSUME NEW c \in Callers, call[c].step = "inserted", call' = [call EXCEPT ![c] = AfterCall(c)],
              Pending
       PROVE  Pending'
  <2>1. \A b \in Callers : b # c => call'[b] = call[b]
    BY <1>23, <1>31
  <2>2. CASE c = "ingestion" /\ jobs[call[c].job].kind = "morphology"
    <3>1. call'["ingestion"].step = "start"
      BY <1>0, <1>31, <2>2 DEF AfterCall
    <3> QED
      BY <1>0, <3>1 DEF Pending
  <2>3. CASE ~(c = "ingestion" /\ jobs[call[c].job].kind = "morphology")
    <3>1. PICK b \in Callers :
              \/ b # "user" /\ call[b].step \in {"start", "build"}
              \/ b = "ingestion" /\ call[b].step = "morphology"
              \/ b = "ingestion" /\ call[b].step = "inserted" /\ jobs[call[b].job].kind = "morphology"
      BY <1>31 DEF Pending
    <3>2. b # c
      BY <1>31, <2>3, <3>1
    <3>3. call'[b] = call[b]
      BY <2>1, <3>2
    <3>4. call[b].step = "inserted" => jobs'[call[b].job].kind = jobs[call[b].job].kind
      BY <1>0, <1>2 DEF Grown
    <3> QED
      BY <3>1, <3>3, <3>4 DEF Pending
  <2> QED
    BY <2>2, <2>3
<1>32. ASSUME NEW c \in Callers, Enqueue(c)
       PROVE  Follows
  <2>1. call[c].step = "inserted" /\ UNCHANGED jobs
        /\ messages' = [messages EXCEPT ![call[c].job] = @ + 1]
    BY <1>32 DEF Enqueue
  <2>2. UNCHANGED <<text, analyses, candidates, task, missed>>
        /\ call' = [call EXCEPT ![c] = AfterCall(c)]
    BY <1>30, <1>32
  <2>3. \A i \in DOMAIN jobs : messages[i] > 0 => messages'[i] > 0
    BY <1>0, <2>1
  <2>4. Pending \/ Doubled \/ Fresh
    BY <1>5, <2>2
  <2>5. Pending => Pending'
    BY <1>31, <2>1, <2>2
  <2>6. Doubled => Doubled'
    BY <1>2, <2>1, <2>3, DoubledKept
  <2>7. Fresh => Fresh'
    BY <2>1, <2>2 DEF Fresh, Builds
  <2> QED
    BY <2>4, <2>5, <2>6, <2>7
<1>33. ASSUME NEW c \in Callers, EnqueueFails(c)
       PROVE  Follows
  <2>1. call[c].step = "inserted" /\ UNCHANGED <<text, analyses, candidates, task, missed>>
        /\ call' = [call EXCEPT ![c] = AfterCall(c)]
    BY <1>30, <1>33
  <2>2. UNCHANGED messages
    BY <1>33 DEF EnqueueFails
  <2>3. Pending \/ Doubled \/ Fresh
    BY <1>5, <2>1
  <2>4. Pending => Pending'
    BY <1>31, <2>1
  <2>5. \/ UNCHANGED jobs
        \/ Revises(call[c].job, "failed", jobs[call[c].job].regular)
    BY <1>33, EnqueueFailsEffect
  <2>6. SameRuns /\ \A i \in DOMAIN jobs : jobs'[i] = jobs[i] \/ jobs'[i].status = "failed"
    BY <2>5, NoRunChanges DEF Revises
  <2>7. Doubled => Doubled'
    BY <1>2, <2>2, <2>6, DoubledKept
  <2>8. Fresh => Fresh'
    BY <2>1, <2>6, FreshKept
  <2> QED
    BY <2>3, <2>4, <2>7, <2>8
<1>34. CASE UNCHANGED vars
    BY <1>7, <1>34 DEF vars
<1> HIDE DEF Follows
<1> QED
    BY <1>0, <1>9, <1>10, <1>11, <1>12, <1>13, <1>14, <1>15, <1>16, <1>18, <1>19, <1>20, <1>21,
       <1>22, <1>24, <1>25, <1>26, <1>27, <1>28, <1>29, <1>32, <1>33, <1>34
    DEF Next, Step, Proceed, UserAsks

\* Theorem: when all is done the candidates reflect the text and its analyses, unless the last
\* build failed, no build was started after the last change, or builds overlapped.
THEOREM CandidatesAreCurrent == Spec => []CandidatesFollowEvidence
<1>1. Init => FollowInv
    BY DEF Init, FollowInv
<1>2. ShapeInv /\ FollowInv => CandidatesFollowEvidence
  <2> SUFFICES ASSUME ShapeInv, FollowInv,
                      \A i \in DOMAIN jobs : ~IsActive(i) /\ messages[i] = 0,
                      \A c \in Callers : call[c] = Idle,
                      text # 0, ~missed, disturbed = {},
                      \A i \in Builds : (\A j \in Builds : j <= i) => jobs[i].status = "completed"
               PROVE  candidates = [text |-> text, analyses |-> analyses]
    BY DEF CandidatesFollowEvidence, Builds
  <2>1. Pending \/ Doubled \/ Fresh
    BY DEF FollowInv
  <2>2. ~Pending
    BY DEF Pending, Idle
  <2>3. ~Doubled
    BY DEF Doubled, Builds
  <2>4. Fresh
    BY <2>1, <2>2, <2>3
  <2> QED
    BY <2>4 DEF Fresh
<1>3. ShapeInv /\ OwnersInv /\ OrderInv /\ FollowInv /\ [Next]_vars => FollowInv'
    BY FollowStep
<1> QED
    BY OrderHolds, <1>1, <1>2, <1>3, PTL DEF Spec

-------------------------------------------------------------------------------
(***************************************************************************)
(* Sums.  A morphology run packs the tokens of its pages into batches and  *)
(* counts what the batches bring; no token is lost or counted twice.       *)
(***************************************************************************)
LEMMA Induction ==
    ASSUME NEW S, 0 \in S, \A n \in Nat : n \in S => n + 1 \in S
    PROVE  Nat \subseteq S
<1> SUFFICES ASSUME Nat \ S # {} PROVE FALSE
    OBVIOUS
<1>1. PICK m \in Nat \ S : \A j \in Nat \ S : <<j, m>> \notin OpToRel(<, Nat)
    BY NatLessThanWellFounded, WFMin
<1>2. \A j \in Nat \ S : ~(j < m)
    BY <1>1 DEF OpToRel
<1>3. m \in Nat /\ m \notin S /\ m # 0
    BY <1>1
<1> HIDE <1>1
<1>4. m - 1 \in Nat /\ m - 1 < m /\ (m - 1) + 1 = m
    BY <1>3
<1>5. m - 1 \in S
    BY <1>2, <1>4
<1> QED
    BY <1>3, <1>4, <1>5

\* The equation of a function that is defined over 0..N has a solution.
Solves(f, n, base, next) == f[0] = base /\ \A k \in 1..n : f[k] = next[<<f[k - 1], k>>]

LEMMA Recursion ==
    ASSUME NEW T, NEW N \in Nat, NEW base \in T, NEW next \in [T \X (1..N) -> T]
    PROVE  \E f \in [0..N -> T] : Solves(f, N, base, next)
<1> DEFINE S == {n \in Nat : n <= N => \E f \in [0..n -> T] : Solves(f, n, base, next)}
<1>1. 0 \in S
    <2> DEFINE f == [k \in 0..0 |-> base]
    <2>1. f \in [0..0 -> T] /\ Solves(f, 0, base, next)
        BY DEF Solves
    <2> QED
        BY <2>1
<1>2. ASSUME NEW n \in Nat, n \in S PROVE n + 1 \in S
    <2> SUFFICES ASSUME n + 1 <= N PROVE \E f \in [0..n + 1 -> T] : Solves(f, n + 1, base, next)
        OBVIOUS
    <2>1. PICK f \in [0..n -> T] : Solves(f, n, base, next)
        BY <1>2
    <2> DEFINE g == [k \in 0..n + 1 |-> IF k <= n THEN f[k] ELSE next[<<f[n], n + 1>>]]
    <2>2. f[n] \in T /\ next[<<f[n], n + 1>>] \in T
        BY <2>1
    <2>3. g \in [0..n + 1 -> T] /\ g[0] = base
        BY <2>1, <2>2 DEF Solves
    <2>4. ASSUME NEW k \in 1..n + 1 PROVE g[k] = next[<<g[k - 1], k>>]
        <3>1. CASE k <= n
            BY <2>1, <2>4, <3>1 DEF Solves
        <3>2. CASE k = n + 1
            <4>1. g[k] = next[<<f[n], n + 1>>] /\ g[k - 1] = f[n]
                BY <3>2
            <4> QED
                BY <3>2, <4>1
        <3> QED
            BY <3>1, <3>2
    <2>5. Solves(g, n + 1, base, next)
        BY <2>3, <2>4 DEF Solves
    <2> HIDE DEF g
    <2> QED
        BY <2>3, <2>5
<1>3. N \in S
    <2> HIDE DEF S
    <2> QED
        BY <1>1, <1>2, Induction
<1> QED
    BY <1>3

Sum(s) == CHOOSE sum : sum = [n \in 0..Len(s) |-> IF n = 0 THEN 0 ELSE sum[n - 1] + s[n]]

LEMMA SumIs ==
    ASSUME NEW s \in Seq(Nat)
    PROVE  /\ Sum(s) \in [0..Len(s) -> Nat] /\ Sum(s)[0] = 0
           /\ \A n \in 1..Len(s) : Sum(s)[n] = Sum(s)[n - 1] + s[n]
           /\ Tokens(s) = Sum(s)[Len(s)] /\ Tokens(s) \in Nat
<1> DEFINE N == Len(s)
           next == [x \in Nat \X (1..N) |-> x[1] + s[x[2]]]
<1>1. N \in Nat /\ next \in [Nat \X (1..N) -> Nat]
    OBVIOUS
<1>2. PICK f \in [0..N -> Nat] : Solves(f, N, 0, next)
    <2>1. 0 \in Nat
        OBVIOUS
    <2> HIDE DEF N, next
    <2> QED
        BY <1>1, <2>1, Recursion
<1>3. \A n \in 0..N : f[n] = IF n = 0 THEN 0 ELSE f[n - 1] + s[n]
    <2>1. \A n \in 0..N : n # 0 => n \in 1..N /\ n - 1 \in 0..N
        BY <1>1
    <2>2. \A n \in 0..N : n # 0 => next[<<f[n - 1], n>>] = f[n - 1] + s[n]
        BY <1>2, <2>1
    <2> HIDE DEF next
    <2> QED
        BY <1>2, <2>1, <2>2 DEF Solves
<1>4. f = [n \in 0..N |-> IF n = 0 THEN 0 ELSE f[n - 1] + s[n]]
    BY <1>2, <1>3
<1>5. Sum(s) = [n \in 0..N |-> IF n = 0 THEN 0 ELSE Sum(s)[n - 1] + s[n]]
    BY <1>4, Zenon DEF Sum
<1>6. \A n \in 0..N : Sum(s)[n] = IF n = 0 THEN 0 ELSE Sum(s)[n - 1] + s[n]
    BY <1>5
<1>7. Tokens(s) = Sum(s)[N]
    BY DEF Tokens, Sum
<1> DEFINE S == {n \in Nat : n <= N => Sum(s)[n] \in Nat}
<1>8. 0 \in S /\ \A n \in Nat : n \in S => n + 1 \in S
    <2>1. 0 \in S
        BY <1>1, <1>6
    <2>2. ASSUME NEW n \in Nat, n \in S, n + 1 <= N PROVE Sum(s)[n + 1] \in Nat
        <3>1. Sum(s)[n + 1] = Sum(s)[n] + s[n + 1] /\ s[n + 1] \in Nat
            BY <1>1, <1>6, <2>2
        <3> QED
            BY <2>2, <3>1
    <2> QED
        BY <2>1, <2>2
<1>9. Nat \subseteq S
    <2> HIDE DEF S
    <2> QED
        BY <1>8, Induction
<1>10. \A n \in 0..N : Sum(s)[n] \in Nat
    BY <1>9
<1>11. Sum(s) \in [0..N -> Nat]
    BY <1>5, <1>10
<1> QED
    BY <1>1, <1>6, <1>7, <1>10, <1>11

\* Two lists that are the same up to position N, or differ there by n at p.
IsRaised(s, t, N, p, n) == \A i \in 1..N : t[i] = IF i = p THEN s[i] + n ELSE s[i]

LEMMA SumRaised ==
    ASSUME NEW s \in Seq(Nat), NEW t \in Seq(Nat), NEW N \in Nat, N <= Len(s), N <= Len(t),
           NEW p \in Nat \ {0}, NEW n \in Nat,
           IsRaised(s, t, N, p, n)
    PROVE  Sum(t)[N] = IF p <= N THEN Sum(s)[N] + n ELSE Sum(s)[N]
<1>0. Len(s) \in Nat /\ Len(t) \in Nat
    OBVIOUS
<1>1. /\ Sum(s)[0] = 0 /\ \A k \in 1..Len(s) : Sum(s)[k] = Sum(s)[k - 1] + s[k]
      /\ Sum(t)[0] = 0 /\ \A k \in 1..Len(t) : Sum(t)[k] = Sum(t)[k - 1] + t[k]
    BY SumIs
<1>2. \A k \in 0..N : Sum(s)[k] \in Nat /\ Sum(t)[k] \in Nat
    <2>1. Sum(s) \in [0..Len(s) -> Nat] /\ Sum(t) \in [0..Len(t) -> Nat]
        BY SumIs
    <2>2. \A k \in 0..N : k \in 0..Len(s) /\ k \in 0..Len(t)
        BY <1>0
    <2> QED
        BY <2>1, <2>2
<1>3. \A i \in 1..N : s[i] \in Nat
    BY <1>0
<1> DEFINE S == {k \in Nat : k <= N => Sum(t)[k] = IF p <= k THEN Sum(s)[k] + n ELSE Sum(s)[k]}
<1>4. 0 \in S
    BY <1>1
<1>5. ASSUME NEW k \in Nat, k \in S PROVE k + 1 \in S
    <2> SUFFICES ASSUME k + 1 <= N
                 PROVE  Sum(t)[k + 1] = IF p <= k + 1 THEN Sum(s)[k + 1] + n ELSE Sum(s)[k + 1]
        OBVIOUS
    <2>1. k + 1 \in 1..N /\ k + 1 \in 1..Len(s) /\ k + 1 \in 1..Len(t) /\ (k + 1) - 1 = k
        BY <1>0
    <2>2. Sum(t)[k + 1] = Sum(t)[k] + t[k + 1] /\ Sum(s)[k + 1] = Sum(s)[k] + s[k + 1]
        BY <1>1, <2>1
    <2>3. Sum(t)[k] = IF p <= k THEN Sum(s)[k] + n ELSE Sum(s)[k]
        BY <1>5
    <2>4. t[k + 1] = IF k + 1 = p THEN s[k + 1] + n ELSE s[k + 1]
        BY <2>1 DEF IsRaised
    <2>5. k \in 0..N
        OBVIOUS
    <2>6. Sum(s)[k] \in Nat /\ s[k + 1] \in Nat
        BY <1>2, <1>3, <2>1, <2>5
    <2> DEFINE a == Sum(t)[k]
               b == Sum(s)[k]
               d == s[k + 1]
               e == t[k + 1]
    <2>7. /\ b \in Nat /\ d \in Nat
          /\ a = IF p <= k THEN b + n ELSE b
          /\ e = IF k + 1 = p THEN d + n ELSE d
        BY <2>3, <2>4, <2>6
    <2>8. Sum(t)[k + 1] = a + e /\ Sum(s)[k + 1] = b + d
        BY <2>2
    <2> HIDE DEF a, b, d, e
    <2>9. a + e = IF p <= k + 1 THEN (b + d) + n ELSE b + d
        BY <2>7
    <2> QED
        BY <2>8, <2>9
<1>6. N \in S
    <2> HIDE DEF S
    <2> QED
        BY <1>4, <1>5, Induction
<1> QED
    BY <1>6

LEMMA TokensOfAppend ==
    ASSUME NEW s \in Seq(Nat), NEW n \in Nat
    PROVE  Tokens(Append(s, n)) = Tokens(s) + n
<1> DEFINE t == Append(s, n)
           N == Len(s)
<1>1. t \in Seq(Nat) /\ Len(t) = N + 1 /\ N \in Nat /\ t[N + 1] = n
      /\ \A i \in 1..N : t[i] = s[i] /\ s[i] \in Nat
    OBVIOUS
<1> HIDE DEF t
<1>2. IsRaised(s, t, N, N + 1, n)
    BY <1>1 DEF IsRaised
<1>3. Sum(t)[N] = Sum(s)[N]
    <2>1. Sum(s)[N] \in Nat
        BY <1>1, SumIs
    <2> HIDE DEF N
    <2>2. N <= N /\ N <= N + 1 /\ N + 1 \in Nat \ {0} /\ ~(N + 1 <= N)
        BY <1>1
    <2>3. N = Len(s)
        BY DEF N
    <2>4. Sum(t)[N] = IF N + 1 <= N THEN Sum(s)[N] + n ELSE Sum(s)[N]
        BY <1>1, <1>2, <2>2, <2>3, SumRaised
    <2> QED
        BY <2>1, <2>2, <2>4
<1>4. Sum(t)[N + 1] = Sum(t)[N] + n
    <2>1. N + 1 \in 1..Len(t) /\ (N + 1) - 1 = N
        BY <1>1
    <2> QED
        BY <1>1, <2>1, SumIs
<1>5. Tokens(t) = Sum(t)[N + 1] /\ Tokens(s) = Sum(s)[N]
    BY <1>1, SumIs
<1> QED
    BY <1>3, <1>4, <1>5 DEF t

TokensOf(batches) == [k \in 1..Len(batches) |-> Tokens(batches[k])]

LEMMA TokensOfIs ==
    ASSUME NEW b \in Seq(Seq(Nat))
    PROVE  /\ TokensOf(b) \in Seq(Nat) /\ Len(TokensOf(b)) = Len(b)
           /\ \A k \in 1..Len(b) : TokensOf(b)[k] = Tokens(b[k]) /\ Tokens(b[k]) \in Nat
<1>1. Len(b) \in Nat /\ \A k \in 1..Len(b) : b[k] \in Seq(Nat)
    OBVIOUS
<1>2. \A k \in 1..Len(b) : Tokens(b[k]) \in Nat
    BY <1>1, SumIs
<1>3. TokensOf(b) \in [1..Len(b) -> Nat]
    BY <1>2 DEF TokensOf
<1> QED
    BY <1>1, <1>2, <1>3 DEF TokensOf

\* A page comes into one batch.
LEMMA PageIsPacked ==
    ASSUME NEW b \in Seq(Seq(Nat)), NEW n \in Nat
    PROVE  /\ AddPage(b, n) \in Seq(Seq(Nat))
           /\ Tokens(TokensOf(AddPage(b, n))) = Tokens(TokensOf(b)) + n
<1> DEFINE L == Len(b)
<1>0. L \in Nat /\ TokensOf(b) \in Seq(Nat) /\ Len(TokensOf(b)) = L /\ Tokens(TokensOf(b)) \in Nat
      /\ \A k \in 1..L : b[k] \in Seq(Nat) /\ TokensOf(b)[k] = Tokens(b[k]) /\ Tokens(b[k]) \in Nat
    BY TokensOfIs, SumIs
<1>1. CASE AddPage(b, n) = Append(b, <<n>>)
    <2> DEFINE c == Append(b, <<n>>)
    <2>1. c \in Seq(Seq(Nat)) /\ Len(c) = L + 1 /\ c[L + 1] = <<n>> /\ \A k \in 1..L : c[k] = b[k]
        OBVIOUS
    <2>2. Tokens(<<n>>) = n
        <3>1. <<>> \in Seq(Nat) /\ Append(<<>>, n) = <<n>> /\ Len(<<>>) = 0
            OBVIOUS
        <3>2. Tokens(<<>>) = 0
            BY <3>1, SumIs
        <3>3. Tokens(Append(<<>>, n)) = Tokens(<<>>) + n
            BY <3>1, TokensOfAppend
        <3> QED
            BY <3>1, <3>2, <3>3
    <2> HIDE DEF c
    <2>3. TokensOf(c) = Append(TokensOf(b), n)
        <3>1. Len(TokensOf(c)) = L + 1 /\ TokensOf(c) \in Seq(Nat)
              /\ \A k \in 1..L + 1 : TokensOf(c)[k] = Tokens(c[k])
            BY <2>1, TokensOfIs
        <3>2. \A k \in 1..L + 1 : TokensOf(c)[k] = Append(TokensOf(b), n)[k]
            <4>1. \A k \in 1..L : Append(TokensOf(b), n)[k] = Tokens(b[k])
                BY <1>0
            <4>2. Append(TokensOf(b), n)[L + 1] = n
                BY <1>0
            <4>3. \A k \in 1..L + 1 : k \in 1..L \/ k = L + 1
                BY <1>0
            <4> QED
                BY <2>1, <2>2, <3>1, <4>1, <4>2, <4>3
        <3>3. Len(Append(TokensOf(b), n)) = L + 1 /\ Append(TokensOf(b), n) \in Seq(Nat)
            BY <1>0
        <3> QED
            BY <1>0, <3>1, <3>2, <3>3, SeqEqual
    <2>4. Tokens(TokensOf(c)) = Tokens(TokensOf(b)) + n
        BY <1>0, <2>3, TokensOfAppend
    <2> QED
        BY <1>1, <2>1, <2>4 DEF c
<1>2. CASE L # 0 /\ AddPage(b, n) = [b EXCEPT ![L] = Append(b[L], n)]
    <2> DEFINE c == [b EXCEPT ![L] = Append(b[L], n)]
    <2>1. b[L] \in Seq(Nat) /\ Append(b[L], n) \in Seq(Nat) /\ L \in 1..L
        BY <1>0, <1>2
    <2>2. c \in Seq(Seq(Nat)) /\ Len(c) = L
        BY <1>0, <2>1
    <2>3. \A k \in 1..L : c[k] = IF k = L THEN Append(b[L], n) ELSE b[k]
        BY <1>0
    <2> HIDE DEF c
    <2>4. Tokens(Append(b[L], n)) = Tokens(b[L]) + n
        BY <2>1, TokensOfAppend
    <2>5. Len(TokensOf(c)) = L /\ TokensOf(c) \in Seq(Nat)
          /\ \A k \in 1..L : TokensOf(c)[k] = Tokens(c[k])
        BY <2>2, TokensOfIs
    <2>6. IsRaised(TokensOf(b), TokensOf(c), L, L, n)
        BY <1>0, <2>3, <2>4, <2>5 DEF IsRaised
    <2>7. Sum(TokensOf(c))[L] = Sum(TokensOf(b))[L] + n
        <3> DEFINE s == TokensOf(b)
                   t == TokensOf(c)
        <3>1. s \in Seq(Nat) /\ t \in Seq(Nat) /\ L \in Nat /\ L <= Len(s) /\ L <= Len(t)
              /\ L \in Nat \ {0} /\ IsRaised(s, t, L, L, n)
            BY <1>0, <1>2, <2>5, <2>6
        <3> HIDE DEF s, t, L
        <3>2. Sum(t)[L] = IF L <= L THEN Sum(s)[L] + n ELSE Sum(s)[L]
            BY <3>1, SumRaised
        <3> QED
            BY <3>1, <3>2 DEF s, t
    <2>8. Tokens(TokensOf(c)) = Sum(TokensOf(c))[L] /\ Tokens(TokensOf(b)) = Sum(TokensOf(b))[L]
        BY <1>0, <2>5, SumIs
    <2>9. Tokens(TokensOf(c)) = Tokens(TokensOf(b)) + n
        BY <2>7, <2>8
    <2> QED
        BY <1>2, <2>2, <2>9 DEF c
<1>3. \/ AddPage(b, n) = Append(b, <<n>>)
      \/ L # 0 /\ AddPage(b, n) = [b EXCEPT ![L] = Append(b[L], n)]
    <2>1. b = <<>> => Append(b, <<n>>) = <<<<n>>>>
        OBVIOUS
    <2>2. b # <<>> => L # 0
        OBVIOUS
    <2> QED
        BY <2>1, <2>2 DEF AddPage
<1> QED
    BY <1>1, <1>2, <1>3

\* No token of the pages is lost or counted twice by the batches.
LEMMA BatchesKeepTokens ==
    ASSUME NEW pages \in Seq(Nat)
    PROVE  Batches(pages) \in Seq(Seq(Nat)) /\ Tokens(TokensOf(Batches(pages))) = Tokens(pages)
<1> DEFINE N == Len(pages)
           T == Seq(Seq(Nat))
           next == [x \in T \X (1..N) |-> AddPage(x[1], pages[x[2]])]
           packed == CHOOSE packed : packed = [n \in 0..N |->
                        IF n = 0 THEN <<>> ELSE AddPage(packed[n - 1], pages[n])]
<1>1. N \in Nat /\ <<>> \in T /\ \A k \in 1..N : pages[k] \in Nat
    OBVIOUS
<1>2. \A b \in T, n \in Nat : AddPage(b, n) \in T
                               /\ Tokens(TokensOf(AddPage(b, n))) = Tokens(TokensOf(b)) + n
    BY PageIsPacked
<1>3. next \in [T \X (1..N) -> T] /\ \A b \in T, k \in 1..N : next[<<b, k>>] = AddPage(b, pages[k])
    <2> HIDE DEF T
    <2> QED
        BY <1>1, <1>2
<1>4. PICK f \in [0..N -> T] : Solves(f, N, <<>>, next)
    <2> HIDE DEF N, T, next
    <2> QED
        BY <1>1, <1>3, Recursion
<1>5. f = [n \in 0..N |-> IF n = 0 THEN <<>> ELSE AddPage(f[n - 1], pages[n])]
    <2> HIDE DEF T, next
    <2>1. \A n \in 0..N : n # 0 => n \in 1..N /\ n - 1 \in 0..N /\ f[n - 1] \in T
        BY <1>1
    <2>2. \A n \in 0..N : f[n] = IF n = 0 THEN <<>> ELSE AddPage(f[n - 1], pages[n])
        BY <1>3, <1>4, <2>1 DEF Solves
    <2> QED
        BY <2>2
<1>6. packed = [n \in 0..N |-> IF n = 0 THEN <<>> ELSE AddPage(packed[n - 1], pages[n])]
    BY <1>5, Zenon
<1>7. Batches(pages) = packed[N]
    BY Zenon DEF Batches
<1> HIDE DEF packed, T
<1>8. packed[0] = <<>> /\ \A n \in 1..N : packed[n] = AddPage(packed[n - 1], pages[n])
    BY <1>1, <1>6
<1>9. Sum(pages)[0] = 0 /\ \A n \in 1..N : Sum(pages)[n] = Sum(pages)[n - 1] + pages[n]
    BY SumIs
<1> DEFINE S == {n \in Nat : n <= N => packed[n] \in T
                                       /\ Tokens(TokensOf(packed[n])) = Sum(pages)[n]}
<1>10. 0 \in S
    <2>1. TokensOf(<<>>) = <<>>
        BY DEF TokensOf
    <2>2. Tokens(<<>>) = 0
        <3>1. <<>> \in Seq(Nat) /\ Len(<<>>) = 0
            OBVIOUS
        <3> QED
            BY <3>1, SumIs
    <2> QED
        BY <1>1, <1>8, <1>9, <2>1, <2>2
<1>11. ASSUME NEW n \in Nat, n \in S PROVE n + 1 \in S
    <2> SUFFICES ASSUME n + 1 <= N
                 PROVE  packed[n + 1] \in T /\ Tokens(TokensOf(packed[n + 1])) = Sum(pages)[n + 1]
        OBVIOUS
    <2>1. n + 1 \in 1..N /\ (n + 1) - 1 = n
        BY <1>1
    <2>2. packed[n + 1] = AddPage(packed[n], pages[n + 1])
          /\ Sum(pages)[n + 1] = Sum(pages)[n] + pages[n + 1] /\ pages[n + 1] \in Nat
        BY <1>1, <1>8, <1>9, <2>1
    <2>3. packed[n] \in T /\ Tokens(TokensOf(packed[n])) = Sum(pages)[n]
        BY <1>11, <1>1
    <2> QED
        BY <1>2, <2>2, <2>3
<1>12. N \in S
    <2> HIDE DEF S
    <2> QED
        BY <1>1, <1>10, <1>11, Induction
<1>13. Tokens(pages) = Sum(pages)[N]
    BY SumIs
<1> QED
    BY <1>7, <1>12, <1>13 DEF T

Counts == [completed : Nat, skipped : Nat, failed : Nat]
Works  == [counts : Counts, error : BOOLEAN]
Total(counts) == counts.completed + counts.skipped + counts.failed

\* The tokens of a batch are counted once, whatever the PIE process answers.
LEMMA BatchIsCounted ==
    ASSUME NEW work \in Works, NEW answer, NEW n \in Nat
    PROVE  AddBatch(work, answer, n) \in Works
           /\ Total(AddBatch(work, answer, n).counts) = Total(work.counts) + n
<1> DEFINE outcome == RunOutcome(answer)
           error == work.error \/ outcome = "failed"
           a == IF outcome = "completed" THEN work.counts.completed + n ELSE work.counts.completed
           b == IF outcome = "skipped" THEN work.counts.skipped + n ELSE work.counts.skipped
           c == IF outcome \in {"empty", "failed"} THEN work.counts.failed + n
                                                   ELSE work.counts.failed
           counts == [completed |-> a, skipped |-> b, failed |-> c]
<1>1. outcome \in {"skipped", "failed", "empty", "completed"}
    BY DEF RunOutcome
<1>2. /\ work = [counts |-> work.counts, error |-> work.error]
      /\ work.counts = [completed |-> work.counts.completed, skipped |-> work.counts.skipped,
                        failed |-> work.counts.failed]
      /\ work.counts.completed \in Nat /\ work.counts.skipped \in Nat /\ work.counts.failed \in Nat
    BY DEF Works, Counts
<1>3. AddBatch(work, answer, n) =
          [work EXCEPT !.error = error, !.counts.completed = a, !.counts.skipped = b,
                       !.counts.failed = c]
    BY Zenon DEF AddBatch
<1>4. counts \in Counts /\ Total(counts) = Total(work.counts) + n
    BY <1>1, <1>2 DEF Counts, Total
<1>5. error \in BOOLEAN
    BY Zenon
<1> HIDE DEF error, a, b, c
<1>6. [work EXCEPT !.error = error, !.counts.completed = a, !.counts.skipped = b,
                   !.counts.failed = c] = [counts |-> counts, error |-> error]
    <2> DEFINE x == [work EXCEPT !.error = error]
               y == [x EXCEPT !.counts.completed = a]
               z == [y EXCEPT !.counts.skipped = b]
               u == [z EXCEPT !.counts.failed = c]
    <2>1. [work EXCEPT !.error = error, !.counts.completed = a, !.counts.skipped = b,
                       !.counts.failed = c] = u
        BY Zenon
    <2>2. x = [counts |-> work.counts, error |-> error]
        BY <1>2
    <2> HIDE DEF x
    <2>3. y = [counts |-> [completed |-> a, skipped |-> work.counts.skipped,
                           failed |-> work.counts.failed], error |-> error]
        BY <1>2, <2>2
    <2> HIDE DEF y
    <2>4. z = [counts |-> [completed |-> a, skipped |-> b, failed |-> work.counts.failed],
               error |-> error]
        BY <2>3
    <2> HIDE DEF z
    <2>5. u = [counts |-> counts, error |-> error]
        BY <2>4
    <2> QED
        BY <2>1, <2>5, Zenon
<1> HIDE DEF counts
<1> QED
    BY <1>3, <1>4, <1>5, <1>6 DEF Works

LEMMA WorkIsCounted ==
    ASSUME NEW b \in Seq(Seq(Nat)), NEW answers, NEW prepared \in Counts
    PROVE  WorkOf(b, answers, prepared) \in Works
           /\ Total(WorkOf(b, answers, prepared).counts) = Total(prepared) + Tokens(TokensOf(b))
<1> DEFINE N == Len(b)
           T == Works
           none == [counts |-> prepared, error |-> FALSE]
           next == [x \in T \X (1..N) |-> AddBatch(x[1], answers[x[2]], Tokens(b[x[2]]))]
           work == CHOOSE work : work = [k \in 0..N |->
                      IF k = 0 THEN [counts |-> prepared, error |-> FALSE]
                      ELSE AddBatch(work[k - 1], answers[k], Tokens(b[k]))]
<1>1. N \in Nat /\ none \in T
    BY DEF Works
<1>2. TokensOf(b) \in Seq(Nat) /\ Len(TokensOf(b)) = N
      /\ \A k \in 1..N : TokensOf(b)[k] = Tokens(b[k]) /\ Tokens(b[k]) \in Nat
    BY TokensOfIs
<1>3. \A x \in T, n \in Nat : \A a :
          AddBatch(x, a, n) \in T /\ Total(AddBatch(x, a, n).counts) = Total(x.counts) + n
    BY BatchIsCounted
<1>4. next \in [T \X (1..N) -> T]
      /\ \A x \in T, k \in 1..N : next[<<x, k>>] = AddBatch(x, answers[k], Tokens(b[k]))
    <2> HIDE DEF T
    <2> QED
        BY <1>1, <1>2, <1>3
<1>5. PICK f \in [0..N -> T] : Solves(f, N, none, next)
    <2> HIDE DEF N, T, next, none
    <2> QED
        BY <1>1, <1>4, Recursion
<1>6. f = [k \in 0..N |-> IF k = 0 THEN [counts |-> prepared, error |-> FALSE]
                          ELSE AddBatch(f[k - 1], answers[k], Tokens(b[k]))]
    <2> HIDE DEF N, T, next
    <2>1. \A k \in 0..N : k # 0 => k \in 1..N /\ k - 1 \in 0..N /\ f[k - 1] \in T
        BY <1>1
    <2>2. \A k \in 0..N : f[k] = IF k = 0 THEN [counts |-> prepared, error |-> FALSE]
                                 ELSE AddBatch(f[k - 1], answers[k], Tokens(b[k]))
        BY <1>4, <1>5, <2>1 DEF Solves
    <2> QED
        BY <2>2
<1>7. work = [k \in 0..N |-> IF k = 0 THEN [counts |-> prepared, error |-> FALSE]
                             ELSE AddBatch(work[k - 1], answers[k], Tokens(b[k]))]
    BY <1>6, Zenon
<1>8. WorkOf(b, answers, prepared) = work[N]
    BY Zenon DEF WorkOf
<1> HIDE DEF work, T
<1>9. work[0] = none /\ \A k \in 1..N : work[k] = AddBatch(work[k - 1], answers[k], Tokens(b[k]))
    <2>1. \A k \in 0..N : work[k] = IF k = 0 THEN [counts |-> prepared, error |-> FALSE]
                                    ELSE AddBatch(work[k - 1], answers[k], Tokens(b[k]))
        BY <1>7, Zenon
    <2>2. 0 \in 0..N /\ \A k \in 1..N : k \in 0..N /\ k # 0
        BY <1>1
    <2> QED
        BY <2>1, <2>2, Zenon
<1> DEFINE sum == Sum(TokensOf(b))
<1>10. /\ sum[0] = 0 /\ \A k \in 1..N : sum[k] = sum[k - 1] + Tokens(b[k])
       /\ \A k \in 0..N : sum[k] \in Nat
    BY <1>2, SumIs
<1>11. Total(prepared) \in Nat
    BY DEF Total, Counts
<1> HIDE DEF sum
<1> DEFINE S == {k \in Nat : k <= N => work[k] \in T
                                       /\ Total(work[k].counts) = Total(prepared) + sum[k]}
<1>12. 0 \in S
    BY <1>1, <1>9, <1>10, <1>11
<1>13. ASSUME NEW k \in Nat, k \in S PROVE k + 1 \in S
    <2> SUFFICES ASSUME k + 1 <= N
                 PROVE  work[k + 1] \in T /\ Total(work[k + 1].counts) = Total(prepared) + sum[k + 1]
        OBVIOUS
    <2>1. k + 1 \in 1..N /\ (k + 1) - 1 = k /\ k \in 0..N
        BY <1>1
    <2>2. work[k + 1] = AddBatch(work[k], answers[k + 1], Tokens(b[k + 1]))
          /\ sum[k + 1] = sum[k] + Tokens(b[k + 1]) /\ Tokens(b[k + 1]) \in Nat /\ sum[k] \in Nat
        BY <1>2, <1>9, <1>10, <2>1
    <2>3. work[k] \in T /\ Total(work[k].counts) = Total(prepared) + sum[k]
        BY <1>13, <1>1
    <2>4. work[k + 1] \in T /\ Total(work[k + 1].counts) = Total(work[k].counts) + Tokens(b[k + 1])
        BY <1>3, <2>2, <2>3
    <2> QED
        BY <1>11, <2>2, <2>3, <2>4
<1>14. N \in S
    <2> HIDE DEF S
    <2> QED
        BY <1>1, <1>12, <1>13, Induction
<1>15. Tokens(TokensOf(b)) = sum[N]
    BY <1>2, SumIs DEF sum
<1> QED
    BY <1>8, <1>14, <1>15 DEF T

-------------------------------------------------------------------------------
(* What a run counts. *)

Whole == Tokens(scope.pages) + scope.skipped

\* What is counted is nothing yet, or every token once.
IsCounted(counts) == counts \in Counts /\ Total(counts) \in {0, Whole}

TextInv ==
    /\ scope \in Scopes /\ text \in 0..texts /\ texts \in 0..MaxTexts
    /\ text = 0 => texts < MaxTexts

MessagesInv ==
    /\ \A i \in DOMAIN jobs : messages[i] <= 2
    /\ \A c \in Callers : call[c].step = "inserted" => messages[call[c].job] = 0

CountsInv ==
    /\ \A i \in DOMAIN jobs : IsCounted(jobs[i].counts)
    /\ \A w \in Workers : task[w].step \in {"analyzed", "saving"}
                          => task[w].work \in Works /\ IsCounted(task[w].work.counts)

LEMMA ScopeIs ==
    ASSUME TextInv
    PROVE  scope.pages \in Seq(Nat) /\ scope.skipped \in Nat
           /\ Tokens(scope.pages) \in Nat /\ Whole \in Nat
<1>1. scope.pages \in Seq(Nat) /\ scope.skipped \in Nat
    BY ScopesAssumption DEF TextInv
<1>2. Tokens(scope.pages) \in Nat
    BY <1>1, SumIs
<1> QED
    BY <1>1, <1>2 DEF Whole

\* A run that analyzes a text counts all its tokens, one that finds none counts nothing.
LEMMA AnalyzedIsCounted ==
    ASSUME TextInv, NEW w, AnalyzeTokens(w)
    PROVE  \E work \in Works : \E total :
              /\ IsCounted(work.counts)
              /\ task' = [task EXCEPT ![w] =
                    [step |-> "analyzed", job |-> task[w].job, text |-> text,
                     work |-> work, deleted |-> {}, beside |-> {}]]
              /\ jobs' = [jobs EXCEPT ![task[w].job].total = total]
<1> DEFINE read     == IF text = 0 THEN <<>> ELSE scope.pages
           skipped  == IF text = 0 THEN 0 ELSE scope.skipped
           total    == Tokens(read) + skipped
           batches  == IF ScopeIsEligible THEN Batches(read) ELSE <<>>
           prepared == [NoCounts EXCEPT !.skipped = IF ScopeIsEligible THEN skipped ELSE total]
<1>1. PICK answers \in [DOMAIN batches -> Outcomes] :
          /\ task' = [task EXCEPT ![w] =
                  [step |-> "analyzed", job |-> @.job, text |-> text,
                   work |-> WorkOf(batches, answers, prepared), deleted |-> {}, beside |-> {}]]
          /\ jobs' = [jobs EXCEPT ![task[w].job].total = total]
    BY DEF AnalyzeTokens
<1>2. Tokens(<<>>) = 0 /\ TokensOf(<<>>) = <<>> /\ <<>> \in Seq(Nat) /\ <<>> \in Seq(Seq(Nat))
    <2>1. <<>> \in Seq(Nat) /\ Len(<<>>) = 0 /\ <<>> \in Seq(Seq(Nat))
        OBVIOUS
    <2>2. TokensOf(<<>>) = <<>>
        BY DEF TokensOf
    <2> QED
        BY <2>1, <2>2, SumIs
<1>3. read \in Seq(Nat) /\ skipped \in Nat /\ Tokens(read) \in Nat /\ total \in {0, Whole}
      /\ total \in Nat
    BY <1>2, ScopeIs DEF Whole
<1> HIDE DEF read, skipped
<1>4. batches \in Seq(Seq(Nat)) /\ prepared \in Counts
      /\ Total(prepared) + Tokens(TokensOf(batches)) = total
    <2>1. CASE ScopeIsEligible
        <3>1. batches = Batches(read) /\ prepared = [completed |-> 0, skipped |-> skipped, failed |-> 0]
            BY <2>1 DEF NoCounts
        <3>2. Batches(read) \in Seq(Seq(Nat)) /\ Tokens(TokensOf(Batches(read))) = Tokens(read)
            BY <1>3, BatchesKeepTokens
        <3>3. prepared \in Counts /\ Total(prepared) = skipped
            BY <1>3, <3>1 DEF Counts, Total
        <3>4. Total(prepared) + Tokens(TokensOf(batches)) = skipped + Tokens(read)
            BY <3>1, <3>2, <3>3
        <3> QED
            BY <1>3, <3>1, <3>2, <3>3, <3>4
    <2>2. CASE ~ScopeIsEligible
        <3>1. batches = <<>> /\ prepared = [completed |-> 0, skipped |-> total, failed |-> 0]
            BY <2>2 DEF NoCounts
        <3>2. prepared \in Counts /\ Total(prepared) = total
            BY <1>3, <3>1 DEF Counts, Total
        <3> QED
            BY <1>2, <1>3, <3>1, <3>2
    <2> QED
        BY <2>1, <2>2
<1> HIDE DEF batches, prepared, total
<1>5. WorkOf(batches, answers, prepared) \in Works
      /\ Total(WorkOf(batches, answers, prepared).counts)
             = Total(prepared) + Tokens(TokensOf(batches))
    BY <1>4, WorkIsCounted
<1>6. IsCounted(WorkOf(batches, answers, prepared).counts)
    BY <1>3, <1>4, <1>5 DEF IsCounted, Works
<1> QED
    BY <1>1, <1>5, <1>6

LEMMA TextStep ==
    ASSUME TextInv, [Next]_vars
    PROVE  TextInv' /\ UNCHANGED scope
<1> DEFINE Kept == TextInv' /\ UNCHANGED scope
<1>1. ASSUME UNCHANGED <<scope, text, texts>>
      PROVE  Kept
    BY <1>1 DEF TextInv
<1>2. ASSUME ClearText
      PROVE  Kept
    BY <1>2 DEF TextInv, ClearText
<1>3. ASSUME CompleteText
      PROVE  Kept
    BY <1>3, TextsAssumption DEF TextInv, CompleteText
<1>4. ASSUME NEW w \in Workers,
             (\E i \in DOMAIN jobs : Begin(w, i)) \/ AnalyzeTokens(w) \/ DeleteRows(w)
             \/ SaveRows(w) \/ SaveFails(w) \/ ReadEvidence(w) \/ FinishBuild(w) \/ FailBuild(w)
             \/ Kill(w)
      PROVE  UNCHANGED <<scope, text, texts>>
    BY <1>4 DEF Begin, AnalyzeTokens, DeleteRows, SaveRows, SaveFails, ReadEvidence, FinishBuild,
                FailBuild, Kill
<1>5. ASSUME NEW c \in Callers,
             AnsweredByActiveRun(c) \/ RefusedForCapacity(c) \/ CheckBuild(c) \/ Enqueue(c)
             \/ EnqueueFails(c) \/ CallerDies(c) \/ InsertBuild(c) \/ InsertMorphology(c)
      PROVE  UNCHANGED <<scope, text, texts>>
    BY <1>5 DEF AnsweredByActiveRun, RefusedForCapacity, CheckBuild, Enqueue, EnqueueFails,
                CallerDies, InsertBuild, InsertMorphology
<1>6. ASSUME CheckMorphology \/ UNCHANGED vars
             \/ \E i \in DOMAIN jobs : Duplicate(i) \/ Sweep(i) \/ SweepEarly(i)
      PROVE  UNCHANGED <<scope, text, texts>>
    BY <1>6 DEF CheckMorphology, vars, Duplicate, Sweep, SweepEarly
<1>7. "user" \in Callers
    BY DEF Callers
<1> HIDE DEF Kept
<1>8. Kept
    BY <1>1, <1>2, <1>3, <1>4, <1>5, <1>6, <1>7 DEF Next, Step, Proceed, UserAsks
<1> QED
    BY <1>8 DEF Kept

LEMMA CountsOfRunsStep ==
    ASSUME ShapeInv, TextInv, CountsInv, [Next]_vars
    PROVE  \A i \in DOMAIN jobs' : IsCounted(jobs'[i].counts)
<1> DEFINE Kept == \A i \in DOMAIN jobs' : IsCounted(jobs'[i].counts)
<1>0. /\ Len(jobs) \in Nat /\ DOMAIN jobs = 1..Len(jobs) /\ jobs = [k \in 1..Len(jobs) |-> jobs[k]]
      /\ \A k \in DOMAIN jobs : IsJob(jobs[k]) /\ IsCounted(jobs[k].counts)
    BY DEF ShapeInv, CountsInv
<1>1. ASSUME UNCHANGED jobs
      PROVE  Kept
    BY <1>0, <1>1
<1>2. ASSUME NEW i \in DOMAIN jobs, NEW j, jobs' = [jobs EXCEPT ![i] = j], IsCounted(j.counts)
      PROVE  Kept
  <2>1. \A k \in DOMAIN jobs' : k \in DOMAIN jobs /\ jobs'[k] = IF k = i THEN j ELSE jobs[k]
    BY <1>0, <1>2
  <2> QED
    BY <1>0, <1>2, <2>1
<1>3. IsCounted(NoCounts)
    BY DEF IsCounted, NoCounts, Counts, Total
<1>4. ASSUME NEW i \in DOMAIN jobs, NEW status, jobs' = [jobs EXCEPT ![i].status = status]
      PROVE  Kept
  <2> DEFINE j == [jobs[i] EXCEPT !.status = status]
  <2>1. jobs' = [jobs EXCEPT ![i] = j]
    BY <1>4
  <2>2. j.counts = jobs[i].counts
    BY <1>0 DEF IsJob
  <2> HIDE DEF j
  <2> QED
    BY <1>0, <1>2, <2>1, <2>2
<1>5. ASSUME NEW w \in Workers, NEW i \in DOMAIN jobs, Begin(w, i)
      PROVE  Kept
  <2> DEFINE regular == jobs[i].regular /\ jobs[i].status = "queued"
             x == [jobs[i] EXCEPT !.status = "running"]
             y == [x EXCEPT !.counts = NoCounts]
             z == [y EXCEPT !.total = 0]
             j == [z EXCEPT !.regular = regular]
  <2>1. jobs' = [jobs EXCEPT ![i] = j]
    BY <1>5 DEF Begin
  <2> HIDE DEF regular
  <2>2. DOMAIN x = {"kind", "status", "regular", "counts", "total"}
    BY <1>0 DEF IsJob
  <2> HIDE DEF x
  <2>3. y.counts = NoCounts /\ DOMAIN y = DOMAIN x
    BY <2>2
  <2> HIDE DEF y
  <2>4. z.counts = NoCounts /\ DOMAIN z = DOMAIN x
    BY <2>2, <2>3
  <2> HIDE DEF z
  <2>5. j.counts = NoCounts
    BY <2>2, <2>4
  <2> HIDE DEF j
  <2> QED
    BY <1>2, <1>3, <2>1, <2>5
<1>6. ASSUME NEW w \in Workers, AnalyzeTokens(w)
      PROVE  Kept
  <2> DEFINE i == task[w].job
  <2>1. PICK total : jobs' = [jobs EXCEPT ![i].total = total]
    BY <1>6, AnalyzeEffect
  <2>2. i \in DOMAIN jobs
    BY <1>6 DEF ShapeInv, AnalyzeTokens, Idle
  <2> HIDE DEF i
  <2> DEFINE j == [jobs[i] EXCEPT !.total = total]
  <2>3. jobs' = [jobs EXCEPT ![i] = j]
    BY <2>1
  <2>4. j.counts = jobs[i].counts
    BY <1>0, <2>2 DEF IsJob
  <2> HIDE DEF j
  <2> QED
    BY <1>0, <1>2, <2>2, <2>3, <2>4
<1>7. ASSUME NEW w \in Workers, SaveRows(w)
      PROVE  Kept
  <2> DEFINE i == task[w].job
             counts == task[w].work.counts
             status == RunStatus(task[w].work)
             total == counts.completed + counts.skipped + counts.failed
             x == [jobs[i] EXCEPT !.status = status]
             y == [x EXCEPT !.counts = counts]
             j == [y EXCEPT !.total = total]
  <2>1. i \in DOMAIN jobs /\ IsCounted(counts)
    BY <1>7 DEF ShapeInv, SaveRows, Idle, CountsInv
  <2>2. jobs' = [jobs EXCEPT ![i] = j]
    BY <1>7 DEF SaveRows
  <2> HIDE DEF i, counts, status, total
  <2>3. DOMAIN x = {"kind", "status", "regular", "counts", "total"}
    BY <1>0, <2>1 DEF IsJob
  <2> HIDE DEF x
  <2>4. y.counts = counts /\ DOMAIN y = DOMAIN x
    BY <2>3
  <2> HIDE DEF y
  <2>5. j.counts = counts
    BY <2>3, <2>4
  <2> HIDE DEF j
  <2> QED
    BY <1>2, <2>1, <2>2, <2>5
<1>8. ASSUME NEW w \in Workers, FinishBuild(w) \/ FailBuild(w)
      PROVE  Kept
  <2>1. task[w].job \in DOMAIN jobs
    BY <1>8 DEF ShapeInv, FinishBuild, FailBuild, Idle
  <2>2. \/ jobs' = [jobs EXCEPT ![task[w].job].status = "completed"]
        \/ jobs' = [jobs EXCEPT ![task[w].job].status = "failed"]
    BY <1>8 DEF FinishBuild, FailBuild
  <2> QED
    BY <1>4, <2>1, <2>2
<1>9. ASSUME NEW i \in DOMAIN jobs, Sweep(i) \/ SweepEarly(i)
      PROVE  Kept
    BY <1>4, <1>9 DEF Sweep, SweepEarly
<1>10. ASSUME NEW c \in Callers, EnqueueFails(c)
       PROVE  Kept
  <2>1. call[c].job \in DOMAIN jobs
    BY <1>10 DEF ShapeInv, EnqueueFails, IsCall
  <2>2. UNCHANGED jobs \/ jobs' = [jobs EXCEPT ![call[c].job].status = "failed"]
    BY <1>10 DEF EnqueueFails
  <2> QED
    BY <1>1, <1>4, <2>1, <2>2
<1>11. ASSUME NEW c \in Callers, NEW kind, Insert(c, kind)
       PROVE  Kept
  <2> DEFINE new == NewJob(kind, call[c].job = Len(jobs))
             n == Len(jobs)
  <2>1. jobs' = [i \in 1..n + 1 |-> IF i = n + 1 THEN new ELSE jobs[i]]
    BY <1>11, InsertEffect
  <2>2. new.counts = NoCounts
    BY DEF NewJob
  <2>3. \A i \in 1..n + 1 : i = n + 1 \/ i \in DOMAIN jobs
    BY <1>0
  <2> HIDE DEF new, n
  <2> QED
    BY <1>0, <1>3, <2>1, <2>2, <2>3
<1>12. ASSUME NEW w \in Workers, DeleteRows(w) \/ SaveFails(w) \/ ReadEvidence(w) \/ Kill(w)
       PROVE  UNCHANGED jobs
    BY <1>12 DEF DeleteRows, SaveFails, ReadEvidence, Kill
<1>13. ASSUME NEW c \in Callers,
              AnsweredByActiveRun(c) \/ RefusedForCapacity(c) \/ CheckBuild(c) \/ Enqueue(c)
              \/ CallerDies(c)
       PROVE  UNCHANGED jobs
    BY <1>13 DEF AnsweredByActiveRun, RefusedForCapacity, CheckBuild, Enqueue, CallerDies
<1>14. ASSUME CheckMorphology \/ ClearText \/ CompleteText \/ UNCHANGED vars
              \/ \E i \in DOMAIN jobs : Duplicate(i)
       PROVE  UNCHANGED jobs
    BY <1>14 DEF CheckMorphology, ClearText, CompleteText, vars, Duplicate
<1>15. ASSUME NEW c \in Callers, InsertBuild(c) \/ InsertMorphology(c)
       PROVE  Kept
    BY <1>11, <1>15 DEF InsertBuild, InsertMorphology
<1>16. "user" \in Callers
    BY DEF Callers
<1> HIDE DEF Kept
<1>17. Kept
    BY <1>1, <1>5, <1>6, <1>7, <1>8, <1>9, <1>10, <1>12, <1>13, <1>14, <1>15, <1>16
    DEF Next, Step, Proceed, UserAsks
<1> QED
    BY <1>17 DEF Kept

LEMMA CountsOfTasksStep ==
    ASSUME ShapeInv, TextInv, CountsInv, [Next]_vars
    PROVE  \A w \in Workers : task'[w].step \in {"analyzed", "saving"}
               => task'[w].work \in Works /\ IsCounted(task'[w].work.counts)
<1> DEFINE Fine(t) == t.step \in {"analyzed", "saving"} => t.work \in Works /\ IsCounted(t.work.counts)
           Kept == \A w \in Workers : Fine(task'[w])
<1>0. /\ task = [w \in Workers |-> task[w]]
      /\ \A w \in Workers : IsTask(w, task[w]) /\ Fine(task[w])
    BY DEF ShapeInv, CountsInv
<1>1. ASSUME UNCHANGED task
      PROVE  Kept
    BY <1>0, <1>1
<1>2. ASSUME NEW w \in Workers, NEW t, task' = [task EXCEPT ![w] = t], Fine(t)
      PROVE  Kept
  <2>1. \A u \in Workers : task'[u] = IF u = w THEN t ELSE task[u]
    BY <1>0, <1>2
  <2> HIDE DEF Fine
  <2> QED
    BY <1>0, <1>2, <2>1
<1>3. ASSUME NEW w \in Workers, NEW i \in DOMAIN jobs, Begin(w, i)
      PROVE  Kept
  <2> DEFINE t == [step |-> "begun", job |-> i]
  <2>1. task' = [task EXCEPT ![w] = t] /\ Fine(t)
    BY <1>3 DEF Begin
  <2> HIDE DEF t
  <2> QED
    BY <1>2, <2>1
<1>4. ASSUME NEW w \in Workers, AnalyzeTokens(w)
      PROVE  Kept
  <2>1. PICK work \in Works :
              /\ IsCounted(work.counts)
              /\ task' = [task EXCEPT ![w] =
                    [step |-> "analyzed", job |-> task[w].job, text |-> text,
                     work |-> work, deleted |-> {}, beside |-> {}]]
    BY <1>4, AnalyzedIsCounted
  <2> DEFINE t == [step |-> "analyzed", job |-> task[w].job, text |-> text,
                   work |-> work, deleted |-> {}, beside |-> {}]
  <2>2. task' = [task EXCEPT ![w] = t] /\ Fine(t)
    BY <2>1
  <2> HIDE DEF t
  <2> QED
    BY <1>2, <2>2
<1>5. ASSUME NEW w \in Workers, DeleteRows(w)
      PROVE  Kept
  <2> DEFINE beside == {task[u].job : u \in {x \in NlpWorkers : task[x].step = "saving"}}
             x == [task[w] EXCEPT !.step = "saving"]
             y == [x EXCEPT !.deleted = analyses]
             t == [y EXCEPT !.beside = beside]
  <2>1. task' = [task EXCEPT ![w] = t] /\ task[w].step = "analyzed"
    BY <1>5 DEF DeleteRows
  <2> HIDE DEF beside
  <2>2. task[w] = [step |-> task[w].step, job |-> task[w].job, text |-> task[w].text,
                   work |-> task[w].work, deleted |-> task[w].deleted, beside |-> task[w].beside]
    BY <1>0, <2>1 DEF IsTask, Idle
  <2>3. x = [step |-> "saving", job |-> task[w].job, text |-> task[w].text,
             work |-> task[w].work, deleted |-> task[w].deleted, beside |-> task[w].beside]
    BY <2>2
  <2> HIDE DEF x
  <2>4. y = [step |-> "saving", job |-> task[w].job, text |-> task[w].text,
             work |-> task[w].work, deleted |-> analyses, beside |-> task[w].beside]
    BY <2>3
  <2> HIDE DEF y
  <2>5. t.work = task[w].work
    BY <2>4
  <2> HIDE DEF t
  <2> QED
    BY <1>0, <1>2, <2>1, <2>5
<1>6. ASSUME NEW w \in Workers, task' = [task EXCEPT ![w] = Idle]
      PROVE  Kept
  <2>1. Fine(Idle)
    BY DEF Idle
  <2> HIDE DEF Fine
  <2> QED
    BY <1>2, <1>6, <2>1
<1>7. ASSUME NEW w \in Workers,
             SaveRows(w) \/ SaveFails(w) \/ FinishBuild(w) \/ FailBuild(w) \/ Kill(w)
      PROVE  task' = [task EXCEPT ![w] = Idle]
    BY <1>7 DEF SaveRows, SaveFails, FinishBuild, FailBuild, Kill
<1>8. ASSUME NEW w \in Workers, ReadEvidence(w)
      PROVE  Kept
  <2> DEFINE t == [step |-> "read", job |-> task[w].job, text |-> text, analyses |-> analyses]
  <2>1. task' = [task EXCEPT ![w] = t] /\ Fine(t)
    BY <1>8 DEF ReadEvidence
  <2> HIDE DEF t
  <2> QED
    BY <1>2, <2>1
<1>9. ASSUME NEW c \in Callers,
             AnsweredByActiveRun(c) \/ RefusedForCapacity(c) \/ CheckBuild(c) \/ Enqueue(c)
             \/ EnqueueFails(c) \/ CallerDies(c) \/ InsertBuild(c) \/ InsertMorphology(c)
      PROVE  UNCHANGED task
    BY <1>9 DEF AnsweredByActiveRun, RefusedForCapacity, CheckBuild, Enqueue, EnqueueFails,
                CallerDies, InsertBuild, InsertMorphology
<1>10. ASSUME CheckMorphology \/ ClearText \/ CompleteText \/ UNCHANGED vars
              \/ \E i \in DOMAIN jobs : Duplicate(i) \/ Sweep(i) \/ SweepEarly(i)
       PROVE  UNCHANGED task
    BY <1>10 DEF CheckMorphology, ClearText, CompleteText, vars, Duplicate, Sweep, SweepEarly
<1>11. "user" \in Callers
    BY DEF Callers
<1> HIDE DEF Kept
<1>12. Kept
    BY <1>1, <1>3, <1>4, <1>5, <1>6, <1>7, <1>8, <1>9, <1>10, <1>11
    DEF Next, Step, Proceed, UserAsks
<1> QED
    BY <1>12 DEF Kept

LEMMA CountsStep ==
    ASSUME ShapeInv, TextInv, CountsInv, [Next]_vars
    PROVE  CountsInv'
<1>1. UNCHANGED scope
    BY TextStep
<1>2. /\ \A i \in DOMAIN jobs' : IsCounted(jobs'[i].counts)
      /\ \A w \in Workers : task'[w].step \in {"analyzed", "saving"}
               => task'[w].work \in Works /\ IsCounted(task'[w].work.counts)
    BY CountsOfRunsStep, CountsOfTasksStep
<1> QED
    BY <1>1, <1>2 DEF CountsInv, IsCounted, Whole

\* A run has one message, and a second one only if the first was duplicated.
LEMMA MessagesStep ==
    ASSUME ShapeInv, OwnersInv, MessagesInv, [Next]_vars
    PROVE  MessagesInv'
<1>0. /\ Len(jobs) \in Nat /\ DOMAIN jobs = 1..Len(jobs) /\ messages \in [1..Len(jobs) -> Nat]
      /\ call = [c \in Callers |-> call[c]]
      /\ \A c \in Callers : call[c].step = "inserted" => call[c].job \in DOMAIN jobs
    BY DEF ShapeInv, IsCall
<1>1. ASSUME NEW c \in Callers, NEW x, call' = [call EXCEPT ![c] = x], x.step # "inserted"
      PROVE  \A b \in Callers : call'[b].step = "inserted" => b # c /\ call'[b] = call[b]
    BY <1>0, <1>1
<1>2. ASSUME SameRuns, UNCHANGED messages,
             \A b \in Callers : call'[b].step = "inserted" => call'[b] = call[b]
      PROVE  MessagesInv'
    BY <1>2 DEF MessagesInv, SameRuns
<1>3. ASSUME UNCHANGED vars \/ ClearText
             \/ \E i \in DOMAIN jobs : Sweep(i) \/ SweepEarly(i)
      PROVE  UNCHANGED <<messages, call>>
    BY <1>3 DEF vars, ClearText, Sweep, SweepEarly
<1>4. ASSUME NEW w \in Workers,
             AnalyzeTokens(w) \/ DeleteRows(w) \/ SaveRows(w) \/ SaveFails(w) \/ ReadEvidence(w)
             \/ FinishBuild(w) \/ FailBuild(w) \/ Kill(w)
      PROVE  /\ UNCHANGED messages
             /\ \A b \in Callers : call'[b].step = "inserted" => call'[b] = call[b]
  <2>1. CASE AnalyzeTokens(w) \/ DeleteRows(w) \/ SaveFails(w) \/ ReadEvidence(w)
             \/ FinishBuild(w) \/ FailBuild(w)
    BY <2>1 DEF AnalyzeTokens, DeleteRows, SaveFails, ReadEvidence, FinishBuild, FailBuild
  <2>2. CASE SaveRows(w)
    <3>1. w \in Callers
      BY <2>2 DEF SaveRows, ShapeInv, IsTask, Idle, Callers
    <3> QED
      BY <1>1, <2>2, <3>1 DEF SaveRows
  <2>3. CASE Kill(w)
    <3>1. w \in NlpWorkers => w \in Callers
      BY DEF Callers
    <3> QED
      BY <1>1, <2>3, <3>1 DEF Kill, Idle
  <2> QED
    BY <1>4, <2>1, <2>2, <2>3
<1>5. ASSUME NEW c \in Callers,
             AnsweredByActiveRun(c) \/ RefusedForCapacity(c) \/ CheckBuild(c) \/ CallerDies(c)
             \/ EnqueueFails(c)
      PROVE  /\ UNCHANGED messages
             /\ \A b \in Callers : call'[b].step = "inserted" => call'[b] = call[b]
  <2>1. Idle.step # "inserted" /\ Counted("build").step # "inserted" /\ AfterCall(c).step # "inserted"
    BY DEF Idle, Counted, AfterCall
  <2>2. \/ call' = [call EXCEPT ![c] = Idle]
        \/ call' = [call EXCEPT ![c] = Counted("build")]
        \/ call' = [call EXCEPT ![c] = AfterCall(c)]
    BY <1>5 DEF AnsweredByActiveRun, RefusedForCapacity, CheckBuild, CallerDies, EnqueueFails
  <2>3. PICK x : call' = [call EXCEPT ![c] = x] /\ x.step # "inserted"
    BY <2>1, <2>2, Zenon
  <2>4. \A b \in Callers : call'[b].step = "inserted" => b # c /\ call'[b] = call[b]
    BY <1>1, <2>3
  <2>5. UNCHANGED messages
    BY <1>5 DEF AnsweredByActiveRun, RefusedForCapacity, CheckBuild, CallerDies, EnqueueFails
  <2> QED
    BY <2>4, <2>5, Zenon
<1>6. ASSUME CheckMorphology \/ CompleteText
      PROVE  /\ UNCHANGED messages
             /\ \A b \in Callers : call'[b].step = "inserted" => call'[b] = call[b]
  <2>1. "user" \in Callers /\ "ingestion" \in Callers
    BY DEF Callers
  <2>2. Counted("morphology").step # "inserted" /\ FollowUp.step # "inserted"
    BY DEF Counted, FollowUp
  <2>3. PICK c \in Callers : \E x : call' = [call EXCEPT ![c] = x] /\ x.step # "inserted"
    BY <1>6, <2>1, <2>2 DEF CheckMorphology, CompleteText
  <2>4. \A b \in Callers : call'[b].step = "inserted" => call'[b] = call[b]
    BY <1>1, <2>3
  <2>5. UNCHANGED messages
    BY <1>6 DEF CheckMorphology, CompleteText
  <2> QED
    BY <2>4, <2>5
<1>7. ASSUME NEW w \in Workers, NEW i \in DOMAIN jobs, Begin(w, i)
      PROVE  MessagesInv'
  <2>1. SameRuns
    BY <1>7, BeginEffect DEF Revises
  <2>2. messages[i] > 0 /\ messages' = [messages EXCEPT ![i] = @ - 1] /\ UNCHANGED call
    BY <1>7 DEF Begin
  <2>3. \A k \in DOMAIN jobs : messages'[k] = IF k = i THEN messages[k] - 1 ELSE messages[k]
    BY <1>0, <2>2
  <2>4. \A k \in DOMAIN jobs : messages'[k] <= 2
    BY <1>0, <2>3 DEF MessagesInv
  <2>5. \A c \in Callers : call[c].step = "inserted" => call[c].job # i
    BY <1>0, <2>2 DEF MessagesInv
  <2> QED
    BY <1>0, <2>1, <2>2, <2>3, <2>4, <2>5 DEF MessagesInv, SameRuns
<1>8. ASSUME NEW i \in DOMAIN jobs, Duplicate(i)
      PROVE  MessagesInv'
  <2>1. messages[i] = 1 /\ messages' = [messages EXCEPT ![i] = 2] /\ UNCHANGED <<call, jobs>>
    BY <1>8 DEF Duplicate
  <2>2. \A k \in DOMAIN jobs : messages'[k] = IF k = i THEN 2 ELSE messages[k]
    BY <1>0, <2>1
  <2> QED
    BY <1>0, <2>1, <2>2 DEF MessagesInv
<1>9. ASSUME NEW c \in Callers, Enqueue(c)
      PROVE  MessagesInv'
  <2>1. /\ call[c].step = "inserted" /\ UNCHANGED jobs
        /\ messages' = [messages EXCEPT ![call[c].job] = @ + 1]
        /\ call' = [call EXCEPT ![c] = AfterCall(c)]
    BY <1>9 DEF Enqueue
  <2>2. AfterCall(c).step # "inserted"
    BY DEF AfterCall, Idle
  <2>3. \A b \in Callers : call'[b].step = "inserted" => b # c /\ call'[b] = call[b]
    BY <1>1, <2>1, <2>2
  <2>4. messages[call[c].job] = 0 /\ call[c].job \in DOMAIN jobs
    BY <1>0, <2>1 DEF MessagesInv
  <2>5. \A k \in DOMAIN jobs : messages'[k] = IF k = call[c].job THEN 1 ELSE messages[k]
    BY <1>0, <2>1, <2>4
  <2>6. \A b \in Callers : b # c /\ call[b].step = "inserted" => call[b].job # call[c].job
    BY <2>1 DEF OwnersInv
  <2> QED
    BY <1>0, <2>1, <2>3, <2>5, <2>6 DEF MessagesInv
<1>10. ASSUME NEW c \in Callers, NEW kind, Insert(c, kind)
       PROVE  MessagesInv'
  <2> DEFINE n == Len(jobs)
             x == [step |-> "inserted", job |-> n + 1]
  <2>1. /\ DOMAIN jobs' = 1..n + 1
        /\ messages' = [i \in 1..n + 1 |-> IF i = n + 1 THEN 0 ELSE messages[i]]
    BY <1>10, InsertEffect
  <2>2. call' = [call EXCEPT ![c] = x]
    BY <1>10 DEF Insert
  <2>3. n \in Nat /\ DOMAIN jobs = 1..n
    BY <1>0
  <2> HIDE DEF n
  <2>4. \A k \in 1..n + 1 : messages'[k] = 0 \/ (k \in 1..n /\ messages'[k] = messages[k])
    BY <2>1, <2>3
  <2>5. \A k \in 1..n : messages'[k] = messages[k]
    BY <2>1, <2>3
  <2>6. messages'[n + 1] = 0 /\ x.job = n + 1
    BY <2>1, <2>3
  <2>7. \A b \in Callers : call'[b] = IF b = c THEN x ELSE call[b]
    BY <1>0, <2>2
  <2> HIDE DEF x
  <2>8. \A b \in Callers : call'[b].step = "inserted" => messages'[call'[b].job] = 0
    BY <1>0, <2>3, <2>5, <2>6, <2>7 DEF MessagesInv
  <2>9. \A k \in 1..n + 1 : messages'[k] <= 2
    BY <2>3, <2>4 DEF MessagesInv
  <2> QED
    BY <2>1, <2>8, <2>9 DEF MessagesInv
<1>11. ASSUME NEW c \in Callers, InsertBuild(c) \/ InsertMorphology(c)
       PROVE  MessagesInv'
    BY <1>10, <1>11 DEF InsertBuild, InsertMorphology
<1>12. CASE Next /\ \A c \in Callers : ~InsertBuild(c) /\ ~InsertMorphology(c)
  <2>1. SameRuns
    BY <1>12, RunsAreKept
  <2>2. "user" \in Callers
    BY DEF Callers
  <2> QED
    BY <1>2, <1>3, <1>4, <1>5, <1>6, <1>7, <1>8, <1>9, <1>12, <2>1, <2>2
    DEF Next, Step, Proceed, UserAsks
<1>13. CASE UNCHANGED vars
    BY <1>2, <1>3, <1>13, NoRunChanges DEF vars
<1> QED
    BY <1>11, <1>12, <1>13

\* Theorem: runs, messages, calls and tasks are well-formed; a morphology run that
\* saved has counted every token it loaded exactly once.
THEOREM RunTypeCorrect == Spec => []TypeOK
<1> DEFINE Inv == TextInv /\ MessagesInv /\ CountsInv
<1>1. Init => Inv
    BY TextsAssumption DEF Init, TextInv, MessagesInv, CountsInv, Idle
<1>2. ShapeInv /\ OwnersInv /\ Inv /\ [Next]_vars => Inv'
  <2> SUFFICES ASSUME ShapeInv, OwnersInv, TextInv, MessagesInv, CountsInv, [Next]_vars
               PROVE  TextInv' /\ MessagesInv' /\ CountsInv'
    OBVIOUS
  <2> QED
    BY TextStep, MessagesStep, CountsStep
<1>3. ShapeInv /\ Inv => TypeOK
  <2> SUFFICES ASSUME ShapeInv, TextInv, MessagesInv, CountsInv PROVE TypeOK
    OBVIOUS
  <2>1. text \in 0..texts /\ texts \in 0..MaxTexts
    BY DEF TextInv
  <2>2. messages \in [1..Len(jobs) -> Nat] /\ Len(jobs) \in Nat /\ DOMAIN jobs = 1..Len(jobs)
    BY DEF ShapeInv
  <2>3. Len(messages) = Len(jobs)
    BY <2>2
  <2>4. \A i \in DOMAIN jobs : messages[i] \in 0..2
    BY <2>2 DEF MessagesInv
  <2>5. \A i \in DOMAIN jobs :
            jobs[i].counts.completed + jobs[i].counts.skipped + jobs[i].counts.failed
                \in {0, Tokens(scope.pages) + scope.skipped}
    BY DEF CountsInv, IsCounted, Total, Whole
  <2>6. \A w \in Workers : task[w] # Idle => jobs[task[w].job].kind = Queue(w)
    BY DEF ShapeInv
  <2>7. \A c \in Callers : call[c].step \in {"idle", "start", "build", "morphology", "inserted"}
    BY DEF ShapeInv, IsCall
  <2> QED
    BY <2>1, <2>3, <2>4, <2>5, <2>6, <2>7 DEF TypeOK
<1> QED
    BY OrderHolds, <1>1, <1>2, <1>3, PTL DEF Spec

===============================================================================
