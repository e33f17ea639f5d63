----------------------------- MODULE TrustedLookup -----------------------------
(***************************************************************************)
(* The trusted lookup runs of one document and the cache they fill.  A     *)
(* request starts a run unless one is active that does not look stale; a   *)
(* worker lists the words that have no fresh answer and takes them one by  *)
(* one: from the local corpus, from Nayiri on the web and, when the web    *)
(* has nothing, by the lemma that morphology gives the word.  Each row of  *)
(* the cache is dated by the start of its transaction, and what is shown   *)
(* of a word is its row with the latest date.                              *)
(* Names that ReferenceImport has too say Lookup or Run here: one module   *)
(* proves both.                                                            *)
(***************************************************************************)
EXTENDS Integers, FiniteSetsExt, Sequences

CONSTANTS
    LookupWorkers,   \* processes of the external_io queue
    Threads,         \* API threads that serve start requests
    Words,           \* normalized forms of the document
    Lemma,           \* the best lemma of a word, NoLemma when there is none or it is the word
    NoLemma,
    Limit,           \* max_active_external_lookups_global
    MaxJobs,         \* bound on the runs of a behaviour
    MaxExpiries,     \* bound on how often time to live passes
    MaxLookupFaults  \* bound on kills, exceptions, lost messages and slow runs

ASSUME WordsAssumption == IsFiniteSet(Words)
ASSUME LemmaAssumption == Lemma \in [Words -> Words \cup {NoLemma}] /\ NoLemma \notin Words
ASSUME LimitAssumption == Limit \in Nat \ {0}

VARIABLES
    corpus,      \* words the local corpus holds
    cache,       \* cache[x]: the rows about x, each [at, answer, lasting]
    expired,     \* rows dated up to here have outlived their time to live
    jobs,        \* status of the runs, in the order of their creation
    messages,    \* messages[i]: messages of run i in the broker
    asking,      \* asking[t]: how far a start request is
    task,        \* task[w]: what a worker does
    disturbed,   \* history: words whose lookups overlapped or were cut short
    expiries, lookupFaults   \* counters of the bounds

lookupVars == <<corpus, cache, expired, jobs, messages, asking, task, disturbed,
                expiries, lookupFaults>>

(***************************************************************************)
(* The cache.                                                              *)
(***************************************************************************)
Answers == {"found", "nothing", "failed"}

Fresh(row) == row.lasting \/ row.at > expired

LatestRow(x) == CHOOSE row \in cache[x] : \A other \in cache[x] : other.at <= row.at

HasAnswer(x) == cache[x] # {} /\ Fresh(LatestRow(x))

\* What the list of the document's words shows of x.
Shown(x) ==
    IF ~HasAnswer(x) THEN "unchecked"
    ELSE [failed |-> "unavailable", nothing |-> "not_found", found |-> "found"][LatestRow(x).answer]

\* The forms that the matched and the unmatched filter of that list take in.
CompletedForms(results) ==
    {x \in Words : HasAnswer(x) /\ LatestRow(x).answer = (IF results THEN "found" ELSE "nothing")}
FoundForms    == CompletedForms(TRUE)
NotFoundForms == CompletedForms(FALSE)

\* What the word search says of x, from the cache alone.
SearchStatus(x) ==
    IF ~HasAnswer(x) THEN "unavailable"
    ELSE [failed |-> "unavailable", nothing |-> "no_results", found |-> "completed"][LatestRow(x).answer]

\* The counts of the document: a failed lookup is one of the unchecked.
Summary ==
    LET found    == Cardinality(FoundForms)
        notFound == Cardinality(NotFoundForms)
    IN [found |-> found, notFound |-> notFound, unchecked |-> Cardinality(Words) - found - notFound]

NeedsLookup(x) == ~HasAnswer(x)

\* Mutant of TriesFallback: a word that is cached without results is done.
TriesFallbackUnchecked(x) == Shown(x) = "unchecked"

TriesFallback(x) == Shown(x) \in {"not_found", "unchecked"}

(***************************************************************************)
(* Runs and requests.                                                      *)
(***************************************************************************)
Idle == [step |-> "idle", job |-> 0]

IsActive(i) == jobs[i] \in {"queued", "running"}
ActiveRuns  == {i \in DOMAIN jobs : IsActive(i)}
HeldBy(i)   == {w \in LookupWorkers : task[w].job = i}

\* Nobody will update the row of i any more: it looks stale after 30 minutes.
IsAbandoned(i) ==
    messages[i] = 0 /\ HeldBy(i) = {}

NewestActive == CHOOSE i \in ActiveRuns : \A j \in ActiveRuns : j <= i

\* The request goes on if no run is active, or if the newest that is looks stale and
\* the others leave room; job is the run to be failed.
CheckRun(t) ==
    /\ asking[t] = Idle
    /\ Len(jobs) + Cardinality({u \in Threads : asking[u] # Idle}) < MaxJobs
    /\ LET stale == ActiveRuns # {}
       IN /\ stale => IsAbandoned(NewestActive) \/ lookupFaults < MaxLookupFaults
          /\ lookupFaults' = IF stale /\ ~IsAbandoned(NewestActive)
                             THEN lookupFaults + 1 ELSE lookupFaults
          /\ Cardinality(ActiveRuns) - (IF stale THEN 1 ELSE 0) < Limit
          /\ asking' = [asking EXCEPT ![t] =
                           [step |-> "checked", job |-> IF stale THEN NewestActive ELSE 0]]
    /\ UNCHANGED <<corpus, cache, expired, jobs, messages, task, disturbed, expiries>>

\* One commit fails the stale run and inserts the new one, and its message is sent.
InsertRun(t) ==
    /\ asking[t].step = "checked"
    /\ jobs' = Append([i \in DOMAIN jobs |-> IF i = asking[t].job THEN "failed" ELSE jobs[i]],
                      "queued")
    /\ asking' = [asking EXCEPT ![t] = Idle]
    /\ UNCHANGED <<corpus, cache, expired, task, disturbed, expiries>>

EnqueueRun ==
    /\ messages' = Append(messages, 1)
    /\ UNCHANGED lookupFaults

\* The broker refuses, or the process dies: the run stays queued.
EnqueueRunFails ==
    /\ lookupFaults < MaxLookupFaults /\ lookupFaults' = lookupFaults + 1
    /\ messages' = Append(messages, 0)

(***************************************************************************)
(* A worker.  A message starts its run whatever its status.                *)
(***************************************************************************)
BeginRun(w, i) ==
    /\ task[w] = Idle /\ messages[i] > 0
    /\ messages' = [messages EXCEPT ![i] = 0]
    /\ jobs' = [jobs EXCEPT ![i] = "running"]
    /\ task' = [task EXCEPT ![w] = [step |-> "between", job |-> i,
                                    todo |-> {x \in Words : NeedsLookup(x)}]]
    /\ UNCHANGED <<corpus, cache, expired, asking, disturbed, expiries, lookupFaults>>

HasWord(w)  == task[w].step \in {"local", "fetch", "answered"}
Concerns(x) == {x, Lemma[x]} \ {NoLemma}

\* A transaction that begins is dated after every other.
NextDate ==
    1 + Max({0} \cup {row.at : row \in UNION {cache[x] : x \in Words}}
                \cup {task[w].began : w \in {v \in LookupWorkers : HasWord(v)}})

\* A fresh row answers without a request, whatever it says.
Ask(key) == IF HasAnswer(key) THEN "answered" ELSE "fetch"

\* The lookup of a word asks for key, first the word and then perhaps its lemma; began
\* dates its transaction.
OpenWord(w) ==
    /\ task[w].step = "between"
    /\ \E x \in task[w].todo :
          /\ task' = [task EXCEPT ![w] =
                 [step |-> IF x \in corpus THEN "local" ELSE Ask(x), job |-> @.job,
                  todo |-> @.todo, word |-> x, key |-> x, began |-> NextDate,
                  found |-> FALSE]]
          /\ disturbed' = disturbed \cup
                 (Concerns(x) \cap UNION {Concerns(task[u].word) :
                                            u \in {v \in LookupWorkers : HasWord(v)}})
    /\ UNCHANGED <<corpus, cache, expired, jobs, messages, asking, expiries, lookupFaults>>

\* An answer about x is stored in the transaction w has open.
Store(w, x, answer, lasting) ==
    cache' = [cache EXCEPT ![x] = @ \cup
                 {[at |-> task[w].began, answer |-> answer, lasting |-> lasting]}]

\* What is left when the word is counted and its transaction committed.
Rest(w) == [step |-> "between", job |-> task[w].job, todo |-> task[w].todo \ {task[w].word}]

StoreLocal(w) ==
    /\ task[w].step = "local"
    /\ Store(w, task[w].word, "found", TRUE)
    /\ task' = [task EXCEPT ![w] = Rest(w)]
    /\ UNCHANGED <<corpus, expired, jobs, messages, asking, disturbed, expiries, lookupFaults>>

LemmaFound(w, answer) == task[w].key # task[w].word /\ answer = "found"

\* The answer of the web is committed at once, and another transaction begins.
Fetch(w) ==
    /\ task[w].step = "fetch"
    /\ \E answer \in Answers :
          /\ Store(w, task[w].key, answer, FALSE)
          /\ task' = [task EXCEPT ![w].step = "answered", ![w].began = NextDate,
                                  ![w].found = LemmaFound(w, answer)]
    /\ UNCHANGED <<corpus, expired, jobs, messages, asking, disturbed, expiries, lookupFaults>>

\* The commit fails: the answer is used and not stored.
FetchIsNotStored(w) ==
    /\ lookupFaults < MaxLookupFaults /\ lookupFaults' = lookupFaults + 1
    /\ task[w].step = "fetch"
    /\ \E answer \in Answers :
          task' = [task EXCEPT ![w].step = "answered", ![w].began = NextDate,
                               ![w].found = LemmaFound(w, answer)]
    /\ disturbed' = disturbed \cup {task[w].word}
    /\ UNCHANGED <<corpus, cache, expired, jobs, messages, asking, expiries>>

AsksLemma(w) ==
    /\ task[w].step = "answered" /\ task[w].key = task[w].word
    /\ TriesFallback(task[w].word) /\ Lemma[task[w].word] # NoLemma

FallBack(w) ==
    /\ AsksLemma(w)
    /\ LET lemma == Lemma[task[w].word]
       IN task' = [task EXCEPT ![w].step = Ask(lemma), ![w].key = lemma,
                               ![w].found = Shown(lemma) = "found"]
    /\ UNCHANGED <<corpus, cache, expired, jobs, messages, asking, disturbed,
                   expiries, lookupFaults>>

\* Mutant of CountsForWord: the answer for the lemma is stored with and without results.
CountsForWordAlways(w) == task[w].key # task[w].word

CountsForWord(w) == task[w].found

\* The results for the lemma are stored, for good, as an answer about the word.
EndWord(w) ==
    /\ task[w].step = "answered" /\ ~AsksLemma(w)
    /\ IF CountsForWord(w)
       THEN Store(w, task[w].word, IF task[w].found THEN "found" ELSE "nothing", TRUE)
       ELSE UNCHANGED cache
    /\ task' = [task EXCEPT ![w] = Rest(w)]
    /\ UNCHANGED <<corpus, expired, jobs, messages, asking, disturbed, expiries, lookupFaults>>

\* The status of the run is not looked at.
FinishRun(w) ==
    /\ task[w].step = "between" /\ task[w].todo = {}
    /\ jobs' = [jobs EXCEPT ![task[w].job] = "completed"]
    /\ task' = [task EXCEPT ![w] = Idle]
    /\ UNCHANGED <<corpus, cache, expired, messages, asking, disturbed, expiries, lookupFaults>>

\* A word whose first answer is committed when the lookup ends before its last commit.
CutShort(w) ==
    IF HasWord(w) /\ (task[w].step = "answered" \/ task[w].key # task[w].word)
    THEN {task[w].word} ELSE {}

\* An exception rolls the word back and ends the run.
FailRun(w) ==
    /\ lookupFaults < MaxLookupFaults /\ lookupFaults' = lookupFaults + 1
    /\ HasWord(w)
    /\ disturbed' = disturbed \cup CutShort(w)
    /\ jobs' = [jobs EXCEPT ![task[w].job] = "failed"]
    /\ task' = [task EXCEPT ![w] = Idle]
    /\ UNCHANGED <<corpus, cache, expired, messages, asking, expiries>>

(***************************************************************************)
(* Kills, the sweep and time.                                              *)
(***************************************************************************)
Kill(w) ==
    /\ lookupFaults < MaxLookupFaults /\ lookupFaults' = lookupFaults + 1
    /\ task[w] # Idle
    /\ disturbed' = disturbed \cup CutShort(w)
    /\ task' = [task EXCEPT ![w] = Idle]
    /\ UNCHANGED <<corpus, cache, expired, jobs, messages, asking, expiries>>

\* The sweep ends a run that is abandoned, or that is only slow.
SweepRun(i) ==
    /\ IsActive(i)
    /\ IsAbandoned(i) \/ lookupFaults < MaxLookupFaults
    /\ lookupFaults' = IF IsAbandoned(i) THEN lookupFaults ELSE lookupFaults + 1
    /\ jobs' = [jobs EXCEPT ![i] = "failed"]
    /\ UNCHANGED <<corpus, cache, expired, messages, asking, task, disturbed, expiries>>

\* The time to live of older rows passes, between the lookups of two words.
Expire ==
    /\ expiries < MaxExpiries /\ expiries' = expiries + 1
    /\ \A w \in LookupWorkers : ~HasWord(w)
    /\ expired' \in (expired + 1)..(NextDate - 1)
    /\ UNCHANGED <<corpus, cache, jobs, messages, asking, task, disturbed, lookupFaults>>

(***************************************************************************)
(* The specification.                                                      *)
(***************************************************************************)
LookupInit ==
    /\ corpus \in SUBSET Words
    /\ cache = [x \in Words |-> {}] /\ expired = 0
    /\ jobs = <<>> /\ messages = <<>>
    /\ asking = [t \in Threads |-> Idle] /\ task = [w \in LookupWorkers |-> Idle]
    /\ disturbed = {} /\ expiries = 0 /\ lookupFaults = 0

LookUp(w) ==
    \/ OpenWord(w) \/ StoreLocal(w) \/ Fetch(w) \/ FetchIsNotStored(w) \/ FallBack(w) \/ EndWord(w)

LookupNext ==
    \/ \E t \in Threads : CheckRun(t) \/ (InsertRun(t) /\ (EnqueueRun \/ EnqueueRunFails))
    \/ \E w \in LookupWorkers :
          \/ \E i \in DOMAIN jobs : BeginRun(w, i)
          \/ LookUp(w) \/ FinishRun(w) \/ FailRun(w) \/ Kill(w)
    \/ \E i \in DOMAIN jobs : SweepRun(i)
    \/ Expire

LookupSpec == LookupInit /\ [][LookupNext]_lookupVars

(***************************************************************************)
(* Properties.                                                             *)
(***************************************************************************)
\* Runs, requests and lookups are well-formed, a word has one row of a date, and
\* only what a word was found by lasts.
LookupTypeOK ==
    /\ corpus \subseteq Words /\ disturbed \subseteq Words
    /\ Len(messages) = Len(jobs)
    /\ \A i \in DOMAIN jobs : /\ jobs[i] \in {"queued", "running", "completed", "failed"}
                              /\ messages[i] \in {0, 1}
    /\ \A t \in Threads : asking[t].step \in {"idle", "checked"}
    /\ \A w \in LookupWorkers :
          HasWord(w) => /\ task[w].word \in task[w].todo
                        /\ task[w].key \in Concerns(task[w].word)
                        /\ task[w].began > expired
    /\ \A x \in Words : \A row, other \in cache[x] :
          /\ row.at > 0 /\ row.answer \in Answers
          /\ row.lasting => row.answer = "found"
          /\ row.at = other.at => row = other

\* Each word is shown the same in the document's list, by its filters, in the summary
\* and in the word search, of which only the list tells a failure from no lookup.
ShownAlike ==
    LET shown    == [x \in Words |-> <<Shown(x), SearchStatus(x)>>]
        found    == FoundForms
        notFound == NotFoundForms
    IN /\ \A x \in Words :
             shown[x] \in IF x \in found THEN {<<"found", "completed">>}
                         ELSE IF x \in notFound THEN {<<"not_found", "no_results">>}
                         ELSE {"unchecked", "unavailable"} \X {"unavailable"}
       /\ Summary.unchecked = Cardinality(Words \ (found \cup notFound))

\* A lemma may be looked up for another word, past the corpus and its own lemma.
IsLemma(x) == \E y \in Words : Lemma[y] = x

\* A word that was found is shown as found everywhere: while an answer that found it is
\* fresh, also once its lemma had been found before it was looked up in vain, and never
\* as not found when the corpus holds it; the last two unless it was looked up as a
\* lemma itself.  Only lookups that overlapped or were cut short between their commits
\* break it.
KnownWordsAreShown ==
    /\ ShownAlike
    /\ \A x \in Words :
       LET idle    == \A w \in LookupWorkers : HasWord(w) => x \notin Concerns(task[w].word)
           shown   == Shown(x)
           byLemma == /\ Lemma[x] # NoLemma /\ shown = "not_found"
                      /\ Shown(Lemma[x]) = "found" /\ Lemma[x] \notin disturbed
                      /\ LatestRow(Lemma[x]).at < LatestRow(x).at
       IN /\ idle /\ x \notin disturbed =>
                /\ shown # "found" => ~\E row \in cache[x] : row.answer = "found" /\ Fresh(row)
                /\ byLemma => IsLemma(x)
          /\ x \in corpus /\ shown \in {"not_found", "unavailable"} => IsLemma(x)
===============================================================================
