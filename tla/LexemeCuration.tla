----------------------------- MODULE LexemeCuration -----------------------------
(***************************************************************************)
(* The curation of one user's lexicon: requests link the words of the      *)
(* documents to lexemes or ignore them, while workers publish documents    *)
(* into the lexicon group index and rebuild it.  Each row of the index     *)
(* holds a copy of the decision about its word (sync_metadata).            *)
(*                                                                         *)
(* A request is one transaction of three steps: it reads what exists and   *)
(* counts the groups of the documents, flushes its decision with these     *)
(* counts and reads the rows of its words, and commits.  With autoflush    *)
(* off the flush comes from the workflow service, and from then on the     *)
(* request holds the workflows of the documents its words occur in: two    *)
(* requests about one word follow each other, but the index workers hold   *)
(* rows of the index only.                                                 *)
(***************************************************************************)
EXTENDS Integers, FiniteSets

CONSTANTS
    Words,        \* normalized forms
    Armenian,     \* words whose dominant script is Armenian; the others are suspicious
    Lexemes,      \* ids of lexemes rows
    NoLexeme,     \* no lexeme
    Docs,         \* documents
    WordsOf,      \* WordsOf[d]: the words of document d
    Apis,         \* API processes: a handler runs its request without yielding
    Workers,      \* processes that publish or rebuild the index
    MaxRequests,  \* bound on the curation requests
    MaxRepairs    \* bound on the clearings and rebuilds of the index

ASSUME CurationAssumption ==
    /\ Armenian \subseteq Words /\ NoLexeme \notin Lexemes
    /\ \A d \in Docs : WordsOf[d] \subseteq Words /\ IsFiniteSet(WordsOf[d])

VARIABLES
    lexemes,   \* lexemes that exist
    forms,     \* lexeme_forms: pairs <<word, lexeme>>
    ignored,   \* lexicon_group_reviews: words with a row, all ignored_noise
    occ,       \* occurrences (one for each word of a document), with its slice and lexeme_id
    rows,      \* lexicon_group_index: rows[w], its group_state and linked_lexeme_id
    phase,     \* phase[d]: how far the ingestion of document d is
    stage,     \* stage[d]: document_workflows.stage
    api,       \* api[a]: the request of process a
    work,      \* work[w]: the index transaction of worker w
    requests, repairs,
    crossed    \* history: words whose row was last written by one of two transactions
               \* that overlapped

decisions == <<lexemes, forms, ignored>>
vars == <<decisions, occ, rows, phase, stage, api, work, requests, repairs, crossed>>

NoRow     == [state |-> "none", lexeme |-> NoLexeme]
NoRequest == [at |-> "idle"]
NoTxn     == [kind |-> "idle"]

Phases == {"absent", "stored", "published", "completed"}
States == {"unreviewed", "linked", "ignored_noise"}
Stages == {"uploaded", "ingesting", "ready_for_review", "in_review", "curated_complete"}
Views  == {"all", "candidates", "linked", "suspicious", "ignored"}

-------------------------------------------------------------------------------
(* Groups and their lists. *)

\* Mutant of StateOf: a review comes before a lexeme.
StateOfReviewFirst(w, links, reviews) ==
    IF w \notin reviews /\ \E l \in Lexemes : <<w, l>> \in links
    THEN [state |-> "linked", lexeme |-> CHOOSE l \in Lexemes : <<w, l>> \in links]
    ELSE [state |-> IF w \in reviews THEN "ignored_noise" ELSE "unreviewed", lexeme |-> NoLexeme]

\* The decision about a word: a lexeme comes before a review.
StateOf(w, links, reviews) ==
    IF \E l \in Lexemes : <<w, l>> \in links
    THEN [state |-> "linked", lexeme |-> CHOOSE l \in Lexemes : <<w, l>> \in links]
    ELSE [state |-> IF w \in reviews THEN "ignored_noise" ELSE "unreviewed", lexeme |-> NoLexeme]

WordsIn(d) == {o.word : o \in {x \in occ : x.doc = d}}
DocsOf(fs) == {o.doc : o \in {x \in occ : x.word \in fs}}

InView(w, state, view) ==
    CASE view = "candidates" -> state = "unreviewed" /\ w \in Armenian
      [] view = "linked"     -> state = "linked"
      [] view = "suspicious" -> state # "ignored_noise" /\ w \notin Armenian
      [] view = "ignored"    -> state = "ignored_noise"
      [] view = "all"        -> TRUE

\* The list of the index, of all documents or of one.
ListGroups(view) == {w \in Words : rows[w] # NoRow /\ InView(w, rows[w].state, view)}

ListDocumentGroups(d, view) == ListGroups(view) \cap WordsIn(d)

\* The list matching runs take their targets from: occurrences joined with the decisions.
\* The join repeats a word that had two lexemes.
GroupsOf(view) ==
    {g \in Words \X (Lexemes \cup {NoLexeme}) :
        /\ DocsOf({g[1]}) # {}
        /\ IF g[2] = NoLexeme THEN \A l \in Lexemes : <<g[1], l>> \notin forms ELSE g \in forms
        /\ InView(g[1], IF g[2] # NoLexeme THEN "linked"
                        ELSE IF g[1] \in ignored THEN "ignored_noise" ELSE "unreviewed", view)}

\* What the page of a group and the page of a lexeme show.
GroupDetail(w) ==
    [state |-> rows[w].state, lexeme |-> rows[w].lexeme,
     occurrences |-> {o \in occ : o.word = w}]

LexemeDetail(l) ==
    [forms |-> {f[1] : f \in {x \in forms : x[2] = l}},
     occurrences |-> {o \in occ : o.lexeme = l}]

\* The rows of the list of lexemes.
ListLexemes ==
    {[lexeme |-> l, forms |-> Cardinality({f \in forms : f[2] = l}),
      occurrences |-> Cardinality({o \in occ : o.lexeme = l})] : l \in lexemes}

-------------------------------------------------------------------------------
(* The workflow of a document. *)

CountGroups(d) ==
    LET groups == {w \in WordsIn(d) : rows[w] # NoRow}
        count(S) == Cardinality(S)
    IN  [linked     |-> count({w \in groups : rows[w].state = "linked"}),
         ignored    |-> count({w \in groups : rows[w].state = "ignored_noise"}),
         suspicious |-> count({w \in groups : rows[w].state # "ignored_noise" /\ w \notin Armenian}),
         candidate  |-> count({w \in groups : rows[w].state = "unreviewed" /\ w \in Armenian})]

ResolveStage(ph, counts) ==
    IF ph \in {"stored", "published"} THEN "ingesting"
    ELSE IF ph = "absent" THEN "uploaded"
    ELSE IF counts.candidate = 0 THEN "curated_complete"
    ELSE IF counts.linked > 0 THEN "in_review" ELSE "ready_for_review"

\* Stages of the documents in ds, counted from the rows committed so far.
SyncedStages(ds) ==
    [d \in Docs |-> IF d \in ds THEN ResolveStage(phase[d], CountGroups(d)) ELSE stage[d]]

ReviewQueue == {d \in Docs : stage[d] \in {"ready_for_review", "in_review"}}

-------------------------------------------------------------------------------
Init ==
    /\ lexemes = {} /\ forms = {} /\ ignored = {} /\ occ = {}
    /\ rows = [w \in Words |-> NoRow]
    /\ phase = [d \in Docs |-> "absent"] /\ stage = [d \in Docs |-> "uploaded"]
    /\ api = [a \in Apis |-> NoRequest] /\ work = [w \in Workers |-> NoTxn]
    /\ requests = 0 /\ repairs = 0 /\ crossed = {}

-------------------------------------------------------------------------------
(* Requests: the first step.  A form that belongs to another lexeme is refused *)
(* (409), and so is nothing else.                                              *)

Conflicts(fs, l) == {f \in forms : f[1] \in fs /\ f[2] # l}

\* The stages that change, counted before the decision.
NewStages(ds) == [d \in {x \in ds : SyncedStages(ds)[x] # stage[x]} |-> SyncedStages(ds)[d]]

Begin(a, kind, l, fs, new) ==
    /\ api[a].at = "idle" /\ requests < MaxRequests /\ requests' = requests + 1
    /\ api' = [api EXCEPT ![a] =
            [at |-> "checked", kind |-> kind, lexeme |-> l, forms |-> fs, new |-> new,
             docs |-> DocsOf(fs), stages |-> NewStages(DocsOf(fs)), crossed |-> {}]]
    /\ UNCHANGED <<decisions, occ, rows, phase, stage, work, repairs, crossed>>

CreateLexeme(a, l, fs) ==
    /\ l \notin lexemes /\ \A b \in Apis : api[b].at # "idle" => api[b].lexeme # l
    /\ Conflicts(fs, NoLexeme) = {}
    /\ Begin(a, "link", l, fs, fs)

MergeGroups(a, l, fs) ==
    /\ l \in lexemes /\ Conflicts(fs, l) = {}
    /\ Begin(a, "link", l, fs, {w \in fs : <<w, l>> \notin forms})

\* Words that have a review keep the row.
IgnoreGroups(a, fs) == Begin(a, "ignore", NoLexeme, fs, fs \ ignored)

UnignoreGroups(a, fs) == Begin(a, "unignore", NoLexeme, fs, {})

-------------------------------------------------------------------------------
(* The second step: the workflows are synced, which flushes, then the metadata. *)

\* Mutant of LinksAfter: words are also linked when they are ignored.
LinksAfterAny(r) == forms \cup {<<w, r.lexeme>> : w \in r.new}

LinksAfter(r)   == IF r.kind = "link" THEN forms \cup {<<w, r.lexeme>> : w \in r.new} ELSE forms
ReviewsAfter(r) == CASE r.kind = "ignore"   -> ignored \cup r.new
                     [] r.kind = "unignore" -> ignored \ r.forms
                     [] r.kind = "link"     -> ignored

\* Mutant of Taken: no unique index on lexeme_forms.
TakenReview(r) == r.kind = "ignore" /\ r.new \cap ignored # {}

\* The unique indexes of lexeme_forms and of the reviews.
Taken(r) ==
    \/ r.kind = "link"   /\ \E w \in r.new, l \in Lexemes : <<w, l>> \in forms
    \/ r.kind = "ignore" /\ r.new \cap ignored # {}

\* Another request holds one of the keys, or the workflow of one of the documents.
Waits(a) ==
    \E b \in Apis \ {a} :
        /\ api[b].at = "flushed"
        /\ \/ api[b].kind = api[a].kind /\ api[b].new \cap api[a].new # {}
           \/ api[b].docs \cap api[a].docs # {}

\* With no document to sync nothing is flushed before the commit: the metadata is that of
\* before, except that reviews are deleted at once.
Flush(a) ==
    LET r       == api[a]
        links   == IF r.docs # {} THEN LinksAfter(r) ELSE forms
        reviews == IF r.docs # {} \/ r.kind = "unignore" THEN ReviewsAfter(r) ELSE ignored
    IN
    /\ r.at = "checked" /\ ~Waits(a) /\ ~Taken(r)
    /\ api' = [api EXCEPT ![a] =
            [at |-> "flushed", kind |-> r.kind, lexeme |-> r.lexeme, forms |-> r.forms, new |-> r.new,
             docs |-> r.docs, stages |-> r.stages,
             linked |-> {o \in occ : r.kind = "link" /\ o.word \in r.forms},
             read |-> [w \in r.forms |-> rows[w]],
             write |-> [w \in r.forms |-> StateOf(w, links, reviews)],
             crossed |-> r.crossed, gone |-> {}]]
    /\ UNCHANGED <<decisions, occ, rows, phase, stage, work, requests, repairs, crossed>>

-------------------------------------------------------------------------------
(* The third step. *)

\* Rows the request saw and changes.
Changed(r) == {w \in r.forms : r.read[w] # NoRow /\ r.read[w] # r.write[w]}

\* Only changed columns are written.
Merged(row, read, write) ==
    [state |-> IF write.state # read.state THEN write.state ELSE row.state,
     lexeme |-> IF write.lexeme # read.lexeme THEN write.lexeme ELSE row.lexeme]

\* Rows an index transaction has written or deleted.
Held(w) == IF work[w].kind = "idle" THEN {} ELSE work[w].held
Locked  == UNION {Held(w) : w \in Workers}

\* Who has read the words ws, or found no document with them, and not committed overlaps
\* with this commit.
MarkApis(ws, gone, ended) ==
    [b \in Apis |->
        IF b \in ended THEN NoRequest
        ELSE CASE api[b].at = "flushed" -> [api[b] EXCEPT !.crossed = @ \cup (ws \cap api[b].forms),
                                                          !.gone = @ \cup (gone \cap api[b].forms)]
               [] api[b].at = "checked" /\ api[b].docs = {} ->
                        [api[b] EXCEPT !.crossed = @ \cup (ws \cap api[b].forms)]
               [] OTHER -> api[b]]

MarkWork(ws, ended) ==
    [w \in Workers |->
        IF w \in ended THEN NoTxn
        ELSE IF work[w].kind # "idle" THEN [work[w] EXCEPT !.crossed = @ \cup ws] ELSE work[w]]

Commit(a) ==
    LET r == api[a] IN
    /\ r.at = "flushed" /\ Changed(r) \cap (Locked \cup r.gone) = {}
    /\ lexemes' = IF r.kind = "link" THEN lexemes \cup {r.lexeme} ELSE lexemes
    /\ forms' = LinksAfter(r) /\ ignored' = ReviewsAfter(r)
    /\ occ' = {IF o \in r.linked THEN [o EXCEPT !.lexeme = r.lexeme] ELSE o : o \in occ}
    /\ rows' = [w \in Words |-> IF w \in Changed(r) /\ rows[w] # NoRow
                                THEN Merged(rows[w], r.read[w], r.write[w]) ELSE rows[w]]
    /\ stage' = [d \in Docs |-> IF d \in DOMAIN r.stages THEN r.stages[d] ELSE stage[d]]
    /\ crossed' = (crossed \ r.forms) \cup r.crossed
    /\ api' = MarkApis(r.forms, {}, {a}) /\ work' = MarkWork(r.forms, {})
    /\ UNCHANGED <<phase, requests, repairs>>

\* A unique index is violated, or a row to update was deleted by a rebuild
\* (StaleDataError): nothing of the request stays.
Fail(a) ==
    /\ \/ api[a].at = "checked" /\ ~Waits(a) /\ Taken(api[a])
       \/ /\ api[a].at = "flushed" /\ Changed(api[a]) \cap Locked = {}
          /\ Changed(api[a]) \cap api[a].gone # {}
    /\ api' = [api EXCEPT ![a] = NoRequest]
    /\ UNCHANGED <<decisions, occ, rows, phase, stage, work, requests, repairs, crossed>>

\* The page of a document recomputes its workflow; so does the queue for a completed
\* document without one, which never is (the upload creates it).
OpenWorkflow(d) ==
    /\ stage' = SyncedStages({d}) /\ stage' # stage
    /\ UNCHANGED <<decisions, occ, rows, phase, api, work, requests, repairs, crossed>>

-------------------------------------------------------------------------------
(* Workers. *)

StorePages(d) ==
    /\ phase[d] = "absent" /\ phase' = [phase EXCEPT ![d] = "stored"]
    /\ occ' = occ \cup {[doc |-> d, word |-> w, lexeme |-> NoLexeme] : w \in WordsOf[d]}
    /\ stage' = [stage EXCEPT ![d] = "ingesting"]
    /\ UNCHANGED <<decisions, rows, api, work, requests, repairs, crossed>>

\* The rows ws are written and their metadata read; the transaction holds them, and
\* those it deletes, until it ends, and a row that is held is waited for.
StartIndexTxn(v, kind, d, ws, held) ==
    /\ work[v].kind = "idle" /\ (kind # "publish" => repairs < MaxRepairs)
    /\ repairs' = IF kind = "publish" THEN repairs ELSE repairs + 1
    /\ held \cap Locked = {}
    /\ work' = [work EXCEPT ![v] =
            [kind |-> kind, doc |-> d, held |-> held, crossed |-> {},
             read |-> [w \in ws |-> rows[w]], write |-> [w \in ws |-> StateOf(w, forms, ignored)]]]
    /\ UNCHANGED <<decisions, occ, rows, phase, stage, api, requests, crossed>>

\* Nothing else works on a document that is published or cleared.
Free(d) == \A v \in Workers : work[v].kind \in {"publish", "clear"} => work[v].doc # d

StartPublish(v, d) ==
    phase[d] = "stored" /\ Free(d) /\ StartIndexTxn(v, "publish", d, WordsIn(d), WordsIn(d))

\* The clearing of a retry: words no other document holds keep their rows.
StartClear(v, d) ==
    /\ phase[d] = "completed" /\ Free(d)
    /\ StartIndexTxn(v, "clear", d, {w \in WordsIn(d) : rows[w] # NoRow},
                     {w \in WordsIn(d) : DocsOf({w}) # {d}})

StartRebuild(v) ==
    StartIndexTxn(v, "rebuild", CHOOSE d \in Docs : TRUE, {o.word : o \in occ},
                  {o.word : o \in occ} \cup {w \in Words : rows[w] # NoRow})

CommitIndexTxn(v) ==
    LET t      == work[v]
        ws     == DOMAIN t.write
        gone   == IF t.kind = "rebuild" THEN {w \in t.held : rows[w] # NoRow} ELSE {}
    IN
    /\ t.kind # "idle" /\ (ws \ t.held) \cap Locked = {}
    /\ rows' = [w \in Words |->
            IF w \in ws THEN IF w \in t.held THEN t.write[w] ELSE Merged(rows[w], t.read[w], t.write[w])
            ELSE IF w \in gone THEN NoRow ELSE rows[w]]
    /\ occ' = IF t.kind = "clear" THEN {o \in occ : o.doc # t.doc} ELSE occ
    /\ phase' = [phase EXCEPT ![t.doc] = IF t.kind = "publish" THEN "published"
                                         ELSE IF t.kind = "clear" THEN "absent" ELSE @]
    /\ stage' = IF t.kind = "clear" THEN [stage EXCEPT ![t.doc] = "ingesting"] ELSE stage
    /\ crossed' = (crossed \ ws) \cup (t.crossed \cap ws)
    /\ api' = MarkApis(ws, gone, {}) /\ work' = MarkWork(ws, {v})
    /\ UNCHANGED <<decisions, requests, repairs>>

\* The last transaction of an ingestion syncs the workflow of its document.
CompleteDocument(d) ==
    /\ phase[d] = "published" /\ phase' = [phase EXCEPT ![d] = "completed"]
    /\ stage' = [stage EXCEPT ![d] = ResolveStage("completed", CountGroups(d))]
    /\ UNCHANGED <<decisions, occ, rows, api, work, requests, repairs, crossed>>

-------------------------------------------------------------------------------
Request(a) ==
    \/ \E fs \in (SUBSET Words) \ {{}} :
        \/ \E l \in Lexemes : CreateLexeme(a, l, fs) \/ MergeGroups(a, l, fs)
        \/ IgnoreGroups(a, fs) \/ UnignoreGroups(a, fs)
    \/ Flush(a) \/ Commit(a) \/ Fail(a)

Work(v) ==
    \/ \E d \in Docs : StartPublish(v, d) \/ StartClear(v, d)
    \/ StartRebuild(v) \/ CommitIndexTxn(v)

Next ==
    \/ \E a \in Apis : Request(a)
    \/ \E v \in Workers : Work(v)
    \/ \E d \in Docs : StorePages(d) \/ CompleteDocument(d) \/ OpenWorkflow(d)

Spec == Init /\ [][Next]_vars

-------------------------------------------------------------------------------
Row == [state : States, lexeme : Lexemes \cup {NoLexeme}]

\* The tables have the shape the schema gives them, a word has one row or none, and a form
\* or an occurrence belongs to a lexeme that exists.
TypeOK ==
    /\ lexemes \subseteq Lexemes /\ forms \subseteq Words \X lexemes /\ ignored \subseteq Words
    /\ occ \subseteq [doc : Docs, word : Words, lexeme : lexemes \cup {NoLexeme}]
    /\ rows \in [Words -> Row \cup {NoRow}]
    /\ phase \in [Docs -> Phases] /\ stage \in [Docs -> Stages]
    /\ crossed \subseteq Words

Published == {o.word : o \in {x \in occ : phase[x.doc] \in {"published", "completed"}}}

\* "metadata refreshed when lexemes are created/merged or groups are ignored/unignored":
\* unless two transactions about a word overlapped, the lists of the index show each word
\* of the published documents under the decisions taken about it, exactly where the query
\* over the occurrences (which matching runs use) finds it, whatever was linked, ignored,
\* rebuilt, cleared and ingested again; and the counts of a document are those of its lists.
ListsFollowDecisions ==
    /\ \A w \in Published \ crossed :
        /\ \A view \in Views : w \in ListGroups(view) <=> \E g \in GroupsOf(view) : g[1] = w
        /\ <<w, GroupDetail(w).lexeme>> \in GroupsOf("all")
    /\ \A d \in Docs :
        LET counts == CountGroups(d)
            size(view) == Cardinality(ListDocumentGroups(d, view))
        IN  /\ counts.candidate = size("candidates") /\ counts.linked = size("linked")
            /\ counts.suspicious = size("suspicious") /\ counts.ignored = size("ignored")

\* "One or more normalized forms already belong to another lexeme": requests that link the
\* same words at the same time leave each form one lexeme, the occurrences that carry a
\* lexeme carry that of their form, and what the list and the page of a lexeme count are
\* occurrences of its forms.
FormsHaveOneLexeme ==
    /\ \A f, g \in forms : f[1] = g[1] => f = g
    /\ \A l \in lexemes :
        LET detail == LexemeDetail(l)
            found  == UNION {GroupDetail(w).occurrences : w \in detail.forms}
        IN  /\ detail.forms # {} /\ detail.occurrences \subseteq found
            /\ \E x \in ListLexemes : x.lexeme = l /\ x.occurrences <= Cardinality(found)

(***************************************************************************)
(* What the repository says and its code does not keep.                    *)
(***************************************************************************)
\* "`ignore` / `unignore` — bulk review queue changes": when no request and no worker is
\* under way and none overlapped, a completed document with a candidate group is in the
\* review queue.
CandidatesAreQueued ==
    (\A a \in Apis : api[a].at = "idle") /\ (\A v \in Workers : work[v].kind = "idle")
        /\ crossed = {}
    => \A d \in Docs : phase[d] = "completed" /\ ListDocumentGroups(d, "candidates") # {}
                            => d \in ReviewQueue
===============================================================================
