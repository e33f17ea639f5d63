----------------------------- MODULE LexiconIndex -----------------------------
(***************************************************************************)
(* The counts of a user's lexicon index on PostgreSQL: per document and    *)
(* word (lexicon_group_index_documents, "slices") and per word of the user *)
(* (lexicon_group_index, "rows"), which all documents share.  Ingestion    *)
(* workers of several documents and rebuild tasks write them, each in a    *)
(* transaction under READ COMMITTED.                                       *)
(*                                                                         *)
(* Every count of a row is computed from the slices it was merged from, so *)
(* a row is the occurrence counts of those slices, one per document.       *)
(***************************************************************************)
EXTENDS Integers, FiniteSets

CONSTANTS
    Docs,          \* the user's documents; each has one ingestion worker
    Forms,         \* normalized forms
    Tasks,         \* rebuild requests or tasks that may run at the same time
    PageCount,     \* pages of every document
    Text,          \* Text[d][p][f]: occurrences of f on page p of d
    RebuildDuringClear, \* may a rebuild run while a document is cleared?
    MaxStarts,     \* bound on the ingestion jobs of a document
    MaxRebuilds,   \* bound on the rebuilds of a behaviour
    MaxFaults      \* bound on the faults of a behaviour

ASSUME ProcessesAssumption == Docs \cap Tasks = {}
ASSUME PagesAssumption == PageCount \in Nat \ {0}
ASSUME TextAssumption == Text \in [Docs -> [1..PageCount -> [Forms -> Nat]]]
ASSUME BoundsAssumption == /\ RebuildDuringClear \in BOOLEAN
                           /\ MaxStarts \in Nat /\ MaxRebuilds \in Nat /\ MaxFaults \in Nat

VARIABLES
    stage,      \* stage[d]: how far the ingestion of d got
    done,       \* done[d]: stored pages of d
    resumed,    \* resumed[d]: the running job is a resume job
    affected,   \* affected[d]: affected_index_forms of d's worker
    occ,        \* occ[d][f]: rows of occurrences
    slice,      \* slice[d][f]: occurrence_count of the slice, 0 if there is none
    listed,     \* the forms that have a row
    merged,     \* merged[f]: the slices the row of f was merged from
    txn,        \* txn[x]: the open index transaction of worker or task x
    stale,      \* history: forms last published by a transaction that overlapped another
    starts, rebuilds, faults    \* counters of the bounds

docVars   == <<stage, done, resumed, affected>>
indexVars == <<slice, listed, merged, stale>>
bounds    == <<starts, rebuilds, faults>>
vars == <<docVars, occ, indexVars, txn, bounds>>

Processes == Docs \cup Tasks
Stages    == {"idle", "clearing", "storing", "publishing", "published",
              "completed", "failed"}

Ops  == {"clear", "save", "resume", "document", "user"}

\* Where an open transaction is: about to replace slices, waiting for the slices
\* another one replaced, waiting and the other one committed, past the slices,
\* writing rows.
Steps == {"closed", "begun", "blocked", "missed", "replaced", "writing"}

Counts   == [Forms -> Nat]
NoCounts == [f \in Forms |-> 0]
NoRow    == [d \in Docs |-> 0]

Closed == [step |-> "closed", op |-> "save", docs |-> {}, pairs |-> {},
           own |-> [d \in Docs |-> NoCounts], forms |-> {},
           seen |-> [f \in Forms |-> NoRow], todo |-> {},
           dropped |-> {}, rows |-> {}, alone |-> TRUE]

Transactions ==
    [step : Steps, op : Ops,
     docs : SUBSET Docs,                   \* the documents whose slices it replaces
     pairs : SUBSET (Docs \X Forms),       \* the slices it deleted or wrote
     own : [Docs -> Counts],               \* what it wrote to them
     forms : SUBSET Forms,                 \* the forms whose rows it publishes
     seen : [Forms -> [Docs -> Nat]],      \* the slices its publish statement read
     todo : SUBSET Forms,                  \* rows that statement has not written yet
     dropped : SUBSET Forms,               \* rows it deleted
     rows : SUBSET Forms,                  \* rows it wrote
     alone : BOOLEAN]                      \* history: nobody committed since it began

TypeOK ==
    /\ stage \in [Docs -> Stages]
    /\ done \in [Docs -> 0..PageCount]
    /\ resumed \in [Docs -> BOOLEAN]
    /\ affected \in [Docs -> SUBSET Forms]
    /\ occ \in [Docs -> Counts]
    /\ slice \in [Docs -> Counts]
    /\ listed \subseteq Forms
    /\ merged \in [Forms -> [Docs -> Nat]]
    /\ txn \in [Processes -> Transactions]
    /\ stale \subseteq Forms
    /\ starts \in [Docs -> 0..MaxStarts]
    /\ rebuilds \in 0..MaxRebuilds /\ faults \in 0..MaxFaults

Init ==
    /\ stage = [d \in Docs |-> "idle"]
    /\ done = [d \in Docs |-> 0]
    /\ resumed = [d \in Docs |-> FALSE]
    /\ affected = [d \in Docs |-> {}]
    /\ occ = [d \in Docs |-> NoCounts]
    /\ slice = [d \in Docs |-> NoCounts]
    /\ listed = {}
    /\ merged = [f \in Forms |-> NoRow]
    /\ txn = [x \in Processes |-> Closed]
    /\ stale = {}
    /\ starts = [d \in Docs |-> 0] /\ rebuilds = 0 /\ faults = 0

Fault == faults < MaxFaults /\ faults' = faults + 1

--------------------------------------------------------------------------------
(* Index transactions.                                                     *)

Open(x) == txn[x].step # "closed"

\* The slices x sees: the committed ones, and what it did to them.
View(x) == [d \in Docs |-> [f \in Forms |->
               IF <<d, f>> \in txn[x].pairs THEN txn[x].own[d][f] ELSE slice[d][f]]]

FormsOf(counts) == {f \in Forms : counts[f] > 0}

\* Others that replaced slices of documents of D, and hold their row locks.
SliceHolders(x, D) == {y \in Processes \ {x} : \E p \in txn[y].pairs : p[1] \in D}

\* The rows x deleted or wrote, and keeps locked until it ends.
Held(x) == txn[x].dropped \cup txn[x].rows

\* Faulty variant of DroppedBy: rebuild_user keeps the rows.
DroppedByNone(op) == {}

\* rebuild_user deletes every row of the user first.
DroppedBy(op) == IF op = "user" THEN listed ELSE {}

\* A transaction with operation op begins for the slices of D and the rows of F.
Begin(x, op, D, F) ==
    /\ ~Open(x)
    /\ txn' = [txn EXCEPT ![x] = [Closed EXCEPT
                  !.step = IF op = "save" THEN "replaced" ELSE "begun",
                  !.op = op, !.docs = D, !.forms = F, !.dropped = DroppedBy(op)]]

\* Its DELETE waits for a row that another transaction replaced.
Block(x) ==
    /\ txn[x].step = "begun"
    /\ SliceHolders(x, txn[x].docs) # {}
    /\ txn' = [txn EXCEPT ![x].step = "blocked"]
    /\ UNCHANGED <<docVars, occ, indexVars, bounds>>

\* What the DELETE leaves.  Rows inserted by a transaction it waited for are not
\* in its snapshot and survive.
LeftBy(x) == [d \in Docs |-> IF d \in txn[x].docs /\ txn[x].step # "missed"
                             THEN NoCounts ELSE slice[d]]

\* Faulty variant of Inserted: the slices are added to what is there.
InsertedOnTop(x) ==
    [d \in Docs |-> [f \in Forms |->
        IF d \in txn[x].docs THEN occ[d][f] + LeftBy(x)[d][f] ELSE 0]]

\* REBUILD_DOCUMENT_SLICES_SQL: the counts of the occurrences replace what is
\* there.  Clearing inserts nothing.
Inserted(x) ==
    [d \in Docs |-> [f \in Forms |->
        IF d \in txn[x].docs /\ txn[x].op # "clear" /\ occ[d][f] > 0
        THEN occ[d][f] ELSE LeftBy(x)[d][f]]]

\* The DELETE, and for a rebuild the INSERT, for each document of the
\* transaction (clear_document_index, rebuild_document_slices_sql).
ReplaceSlices(x) ==
    LET t == txn[x]
        touched == {p \in t.docs \X Forms :
                       \/ t.step # "missed" /\ slice[p[1]][p[2]] > 0
                       \/ t.op # "clear" /\ occ[p[1]][p[2]] > 0}
    IN  /\ t.step \in {"begun", "blocked", "missed"}
        /\ SliceHolders(x, t.docs) = {}
        /\ txn' = [txn EXCEPT ![x] = [t EXCEPT
                      !.step = "replaced", !.pairs = touched, !.own = Inserted(x),
                      !.forms = IF t.op = "clear" THEN t.forms
                                ELSE UNION {FormsOf(occ[d]) : d \in t.docs}]]
        /\ UNCHANGED <<docVars, occ, indexVars, bounds>>

\* Faulty variants of ReadRows: the slices of the other documents are not read;
\* the change is published instead of the total.
ReadRowsOfOwn(x) == [f \in Forms |-> [d \in Docs |->
                        IF d = x THEN View(x)[d][f] ELSE 0]]

ReadRowsDelta(x) == [f \in Forms |-> [d \in Docs |-> View(x)[d][f] - slice[d][f]]]

ReadRows(x) == [f \in Forms |-> [d \in Docs |-> View(x)[d][f]]]

\* Faulty variant of RowsToWrite: rows are updated, not inserted.
RowsToUpdate(x) == {f \in txn[x].forms \cap listed : \E d \in Docs : View(x)[d][f] > 0}

\* Only forms that have a slice come out of the SELECT.
RowsToWrite(x) == {f \in txn[x].forms : \E d \in Docs : View(x)[d][f] > 0}

\* REBUILD_GLOBAL_ROWS_SQL takes its snapshot.
StartPublish(x) ==
    /\ txn[x].step = "replaced"
    /\ txn' = [txn EXCEPT ![x].step = "writing",
                          ![x].seen = ReadRows(x), ![x].todo = RowsToWrite(x)]
    /\ UNCHANGED <<docVars, occ, indexVars, bounds>>

\* It writes one row, or waits until no other transaction holds it.
WriteRow(x, f) ==
    /\ txn[x].step = "writing" /\ f \in txn[x].todo
    /\ \A y \in Processes \ {x} : f \notin Held(y)
    /\ txn' = [txn EXCEPT ![x].todo = @ \ {f}, ![x].rows = @ \cup {f}]
    /\ UNCHANGED <<docVars, occ, indexVars, bounds>>

\* What the others see of x's commit: waiting deletes miss its slices.
Witnessed(x) == [y \in Processes |->
    IF y = x THEN Closed
    ELSE [txn[y] EXCEPT
            !.step = IF @ = "blocked" /\ \E p \in txn[x].pairs : p[1] \in txn[y].docs
                     THEN "missed" ELSE @,
            !.alone = @ /\ ~Open(y)]]

\* The commit.  remove_orphan_global_rows finds nothing: a published count is
\* never zero.
Commit(x) ==
    LET t == txn[x]
    IN  /\ t.step = "writing" /\ t.todo = {}
        /\ slice' = View(x)
        /\ listed' = (listed \ t.dropped) \cup t.rows
        /\ merged' = [f \in Forms |-> IF f \in t.rows THEN t.seen[f]
                                      ELSE IF f \in t.dropped THEN NoRow ELSE merged[f]]
        /\ stale' = IF t.alone THEN stale \ Held(x) ELSE stale \cup Held(x) \cup t.forms
        /\ txn' = Witnessed(x)

\* Every member of C waits for another one.
WaitsFor(x, y) ==
    \/ txn[x].step \in {"begun", "blocked", "missed"}
       /\ y \in SliceHolders(x, txn[x].docs)
    \/ txn[x].step = "writing" /\ txn[x].todo \cap Held(y) # {}

Deadlocked(x) ==
    \E C \in SUBSET Processes : /\ x \in C
                                /\ \A y \in C : /\ \E z \in C \ {y} : WaitsFor(y, z)
                                                /\ \E z \in C \ {y} : WaitsFor(z, y)

\* An exception, a killed process, or the database resolving a deadlock.
Rollback(x) ==
    /\ Open(x)
    /\ \/ Fault
       \/ Deadlocked(x) /\ UNCHANGED faults
    /\ txn' = [txn EXCEPT ![x] = Closed]
    /\ UNCHANGED <<done, resumed, affected, occ, indexVars, starts, rebuilds>>

--------------------------------------------------------------------------------
(* Ingestion of document d (process_job), as far as it touches the index.  *)

\* A new or retry job: clear_document_index, and the pages are deleted.
StartClear(d) ==
    /\ stage[d] \in {"idle", "failed"} /\ starts[d] < MaxStarts
    /\ RebuildDuringClear \/ \A x \in Tasks : ~Open(x)
    /\ starts' = [starts EXCEPT ![d] = @ + 1]
    /\ stage' = [stage EXCEPT ![d] = "clearing"]
    /\ resumed' = [resumed EXCEPT ![d] = FALSE]
    /\ LET F == FormsOf(slice[d]) IN Begin(d, "clear", {e \in {d} : F # {}}, F)
    /\ UNCHANGED <<done, affected, occ, indexVars, rebuilds, faults>>

CommitClear(d) ==
    /\ txn[d].op = "clear" /\ Commit(d)
    /\ stage' = [stage EXCEPT ![d] = "storing"]
    /\ done' = [done EXCEPT ![d] = 0]
    /\ affected' = [affected EXCEPT ![d] = {}]
    /\ occ' = [occ EXCEPT ![d] = NoCounts]
    /\ UNCHANGED <<resumed, bounds>>

\* A resume job of a failed one: it goes on after the stored pages.
StartResume(d) ==
    /\ stage[d] = "failed" /\ done[d] \in 1..(PageCount - 1) /\ starts[d] < MaxStarts
    /\ starts' = [starts EXCEPT ![d] = @ + 1]
    /\ stage' = [stage EXCEPT ![d] = "storing"]
    /\ resumed' = [resumed EXCEPT ![d] = TRUE]
    /\ affected' = [affected EXCEPT ![d] = {}]
    /\ UNCHANGED <<done, occ, indexVars, txn, rebuilds, faults>>

NextPage(d) == Text[d][done[d] + 1]

\* A transaction holds slices the next page of d changes.
PageLocked(d) == \E x \in Processes, f \in FormsOf(NextPage(d)) : <<d, f>> \in txn[x].pairs

\* The occurrences of a page and their slices (apply_page_occurrences with
\* rebuild_global=False, _apply_document_slice_delta).
StorePage(d) ==
    LET added(counts) == [counts EXCEPT ![d] = [f \in Forms |-> @[f] + NextPage(d)[f]]]
    IN  /\ stage[d] = "storing" /\ done[d] < PageCount
        /\ ~PageLocked(d)
        /\ done' = [done EXCEPT ![d] = @ + 1]
        /\ affected' = [affected EXCEPT ![d] = @ \cup FormsOf(NextPage(d))]
        /\ occ' = added(occ)
        /\ slice' = added(slice)
        /\ txn' = [x \in Processes |-> [txn[x] EXCEPT !.alone = @ /\ ~Open(x)]]
        /\ UNCHANGED <<stage, resumed, listed, merged, stale, bounds>>

\* The slice rows it loaded are replaced while it waits for them: its UPDATE
\* matches no row.
StorePageFails(d) ==
    /\ stage[d] = "storing" /\ done[d] < PageCount
    /\ PageLocked(d)
    /\ stage' = [stage EXCEPT ![d] = "failed"]
    /\ UNCHANGED <<done, resumed, affected, occ, indexVars, txn, bounds>>

\* All pages are stored: publish the affected rows, or rebuild after a resume.
StartSave(d) ==
    /\ stage[d] = "storing" /\ done[d] = PageCount
    /\ stage' = [stage EXCEPT ![d] = "publishing"]
    /\ IF resumed[d] THEN Begin(d, "resume", {d}, {})
                     ELSE Begin(d, "save", {}, affected[d])
    /\ UNCHANGED <<done, resumed, affected, occ, indexVars, bounds>>

CommitSave(d) ==
    /\ txn[d].op \in {"save", "resume"} /\ Commit(d)
    /\ stage' = [stage EXCEPT ![d] = "published"]
    /\ UNCHANGED <<done, resumed, affected, occ, bounds>>

Finish(d) ==
    /\ stage[d] = "published"
    /\ stage' = [stage EXCEPT ![d] = "completed"]
    /\ UNCHANGED <<done, resumed, affected, occ, indexVars, txn, bounds>>

\* The job fails between two transactions.
FailRun(d) ==
    /\ stage[d] \in {"storing", "published"} /\ Fault
    /\ stage' = [stage EXCEPT ![d] = "failed"]
    /\ UNCHANGED <<done, resumed, affected, occ, indexVars, txn, starts, rebuilds>>

FailTransaction(d) ==
    /\ Rollback(d)
    /\ stage' = [stage EXCEPT ![d] = "failed"]

Ingest(d) ==
    \/ StartClear(d) \/ CommitClear(d) \/ StartResume(d)
    \/ StorePage(d) \/ StorePageFails(d)
    \/ StartSave(d) \/ CommitSave(d) \/ Finish(d)
    \/ FailRun(d) \/ FailTransaction(d)

--------------------------------------------------------------------------------
(* Rebuilds (LexiconIndexRebuildService), in the request or in a task.     *)

StartRebuild(x) ==
    /\ rebuilds < MaxRebuilds
    /\ RebuildDuringClear \/ \A d \in Docs : stage[d] # "clearing"
    /\ rebuilds' = rebuilds + 1
    /\ \/ \E d \in Docs : Begin(x, "document", {d}, {})
       \* rebuild_user deletes the rows first, once nobody holds one of them.
       \/ /\ \A y \in Processes : Held(y) \cap listed = {}
          /\ Begin(x, "user", Docs, {})
    /\ UNCHANGED <<docVars, occ, indexVars, starts, faults>>

CommitRebuild(x) ==
    /\ Commit(x)
    /\ UNCHANGED <<docVars, occ, bounds>>

FailRebuild(x) == Rollback(x) /\ UNCHANGED stage

Rebuild(x) == StartRebuild(x) \/ CommitRebuild(x) \/ FailRebuild(x)

Transact(x) ==
    \/ Block(x) \/ ReplaceSlices(x) \/ StartPublish(x)
    \/ \E f \in Forms : WriteRow(x, f)

Next == \/ \E x \in Processes : Transact(x)
        \/ \E d \in Docs : Ingest(d)
        \/ \E x \in Tasks : Rebuild(x)

Spec == Init /\ [][Next]_vars

--------------------------------------------------------------------------------
(* What holds however ingestion and rebuilds interleave.                   *)

\* The slices of a document count exactly its occurrences, whatever failed, was
\* resumed or was rebuilt meanwhile: _apply_document_slice_delta adds to rows that
\* rebuild_document_slices_sql deletes and inserts again.
SlicesAreExact == slice = occ

\* Every word of a completed document has a row, although rebuild_user deletes
\* all rows of the user while documents publish theirs.
CompletedWordsAreListed ==
    \A d \in Docs : stage[d] = "completed" => FormsOf(occ[d]) \subseteq listed

\* The words of which every slice belongs to a completed document.
Settled(f) == /\ \E d \in Docs : slice[d][f] > 0
              /\ \A d \in Docs : slice[d][f] > 0 => stage[d] = "completed"

RowIsMerged(f) == f \in listed /\ merged[f] = [d \in Docs |-> slice[d][f]]

\* The row of a settled word is merged from the slices as they are, unless the
\* transaction that wrote it last overlapped another (rebuild_global_rows).
RowsAreMergedWithoutOverlap ==
    \A f \in Forms : Settled(f) /\ f \notin stale => RowIsMerged(f)

\* rebuild_user repairs whatever went wrong before: when nobody else commits
\* while it runs, slices are the occurrences and rows the merged slices.
RebuildRepairs ==
    [][\A x \in Tasks :
         CommitRebuild(x) /\ txn[x].op = "user" /\ txn[x].alone
         => /\ slice' = occ
            /\ listed' = {f \in Forms : \E d \in Docs : occ[d][f] > 0}
            /\ merged' = [f \in Forms |-> [d \in Docs |-> occ[d][f]]]]_vars

--------------------------------------------------------------------------------
(* What the repository says and its code does not keep.                    *)

\* The index is a read model of the occurrences: the row of a settled word is
\* merged from its slices.
RowsAreMerged == \A f \in Forms : Settled(f) => RowIsMerged(f)

================================================================================
