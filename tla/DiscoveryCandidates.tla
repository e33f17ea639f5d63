------------------------- MODULE DiscoveryCandidates --------------------------
(***************************************************************************)
(* The discovery candidate of one form of one document: full builds and    *)
(* reference-only refreshes judge the form by the evidence they read and   *)
(* write the row, while imports, curation and re-ingestion change that     *)
(* evidence and a reviewer decides on the row.                             *)
(*                                                                         *)
(* A build reads its evidence and the existing row, works, and commits at  *)
(* its end; the unit of work writes only the columns whose values differ   *)
(* from those it read.                                                     *)
(***************************************************************************)
EXTENDS FormEvidence, Sequences

CONSTANTS
    Tokens,        \* what the form may look like
    Sources,       \* imported reference sources, all active
    EntriesOf,     \* EntriesOf[s]: the entries an import of s brings
    Backgrounds,   \* what mappings, corpus and NER data may say of the form
    External,      \* cached external results the form may get
    Decisions,     \* reviewer decisions that are tried
    MaxRuns,       \* bound on the runs of a behaviour
    MaxImports,    \* bound on the imports of a source
    MaxEvents,     \* bound on finished imports and runs
    MaxChanges     \* bound on decisions and on changes of the other evidence

ASSUME EntriesAssumption == EntriesOf \in [Sources -> SUBSET Entries]
ASSUME NamesAssumption == "full" \notin Sources /\ "none" \notin Decisions
ASSUME BoundsAssumption == 
    MaxRuns \in Nat /\ MaxImports \in Nat /\ MaxEvents \in Nat /\ MaxChanges \in Nat

VARIABLES
    token,      \* the token, as its occurrences show it
    present,    \* the document has occurrences of the form
    known,      \* what the sources but the imported ones know
    imported,   \* imported[s]: finished_at of each completed import of s, in order
    row,        \* the candidate row, or Missing
    asked,      \* build requests that found no active run and did not insert yet
    runs,       \* the build runs, in the order of their creation
    now,        \* number of finished imports and runs: the clock of finished_at
    overlapped, \* history: a run read before another one that read before it wrote
    changes     \* counter of the bound

vars == <<token, present, known, imported, row, asked, runs, now, overlapped, changes>>

Modes    == {"full"} \cup Sources      \* the source of a reference-only run

Missing == [status |-> "missing"]
Unread  == [step |-> "unread"]

(***************************************************************************)
(* What a run reads.                                                       *)
(***************************************************************************)
EntriesImported == UNION {EntriesOf[s] : s \in {x \in Sources : imported[x] # <<>>}}

\* The resolver looks at the entries of all sources, the reference map at those of the run.
EvidenceFor(mode) ==
    [known EXCEPT !.entries = EntriesImported,
                  !.mapped = IF mode = "full" THEN EntriesImported
                             ELSE IF imported[mode] # <<>> THEN EntriesOf[mode] ELSE {}]

IsAffected(evidence) ==
    \/ \E e \in evidence.mapped : e.form = "w"
    \/ LET resolved == ResolveLexeme(evidence)
       IN resolved.source # "none" /\ \E e \in evidence.mapped : e.form = resolved.lemma

\* The derived columns of a row.
Columns == {"status", "type", "canonical", "link"}

Judge(evidence, mode) ==
    LET items == CollectEvidence(token, evidence, IF mode = "full" THEN "full" ELSE "refresh")
        verdict == ResolveForm(token, evidence.morphology # "none", items,
                               evidence.lexeme # "none")
    IN [status |-> verdict.status, type |-> verdict.type,
        canonical |-> CanonicalFormCandidate(evidence, items),
        link |-> evidence.lexeme]

(***************************************************************************)
(* What a run writes.                                                      *)
(***************************************************************************)
Changed(old, new) == {c \in Columns : old[c] # new[c]}

\* Mutants of Upsert: the type is not refreshed; the row is written afresh.
UpsertAfresh(old, new) ==
    [c \in Columns \cup {"review", "decision"} |->
        IF c \in Columns THEN new[c] ELSE IF c = "review" THEN "unreviewed" ELSE "none"]
UpsertStatusOnly(old, new) ==
    IF old = Missing THEN UpsertAfresh(old, new) ELSE [row EXCEPT !.status = new.status]

Upsert(old, new) ==
    IF old = Missing
    THEN [c \in Columns \cup {"review", "decision"} |->
            IF c \in Columns THEN new[c] ELSE IF c = "review" THEN "unreviewed" ELSE "none"]
    ELSE [row EXCEPT !.status    = IF "status"    \in Changed(old, new) THEN new.status    ELSE @,
                     !.type      = IF "type"      \in Changed(old, new) THEN new.type      ELSE @,
                     !.canonical = IF "canonical" \in Changed(old, new) THEN new.canonical ELSE @,
                     !.link      = IF "link"      \in Changed(old, new) THEN new.link      ELSE @]

\* An insert meets a row of another run; an update finds its row deleted.
WriteConflict(old, new) ==
    \/ old = Missing /\ row # Missing
    \/ old # Missing /\ row = Missing /\ Changed(old, new) # {}

\* _delete_stale_candidates of a full build removes the rows of forms it did not find.
DeletesRow(run) == run.mode = "full" /\ ~run.read.present

(***************************************************************************)
(* Requests.                                                               *)
(***************************************************************************)
IsActive(run) == run.step \in {"queued", "running", "read"}

NewRun(mode, import) ==
    [mode |-> mode, import |-> import, step |-> "queued", read |-> Unread,
     finished |-> 0, matched |-> FALSE]

AskBuild ==
    /\ asked < MaxRuns
    /\ \A i \in DOMAIN runs : ~IsActive(runs[i])
    /\ asked' = asked + 1
    /\ UNCHANGED <<token, present, known, imported, row, runs, now, overlapped, changes>>

StartBuild ==
    /\ asked > 0 /\ Len(runs) < MaxRuns
    /\ asked' = asked - 1
    /\ runs' = Append(runs, NewRun("full", 0))
    /\ UNCHANGED <<token, present, known, imported, row, now, overlapped, changes>>

(***************************************************************************)
(* The evidence state of a source: is the document checked against its     *)
(* latest completed import?                                                *)
(***************************************************************************)
LatestImport(s) == imported[s][Len(imported[s])]

Latest(found) == IF found = {} THEN 0 ELSE CHOOSE i \in found : \A j \in found : j <= i

LatestCheck(s) ==
    Latest({i \in DOMAIN runs : runs[i].mode = s /\ runs[i].import = LatestImport(s)})
PriorCheck(s) == Latest({i \in DOMAIN runs : runs[i].mode = s})

LatestFullCheck ==
    LET full == {i \in DOMAIN runs : runs[i].mode = "full" /\ runs[i].step = "completed"}
    IN IF full = {} THEN 0 ELSE CHOOSE i \in full : \A j \in full : runs[j].finished <= runs[i].finished

\* Mutant of FullCheckIsCurrent: the times are not compared.
FullCheckExists(s) == LatestFullCheck # 0

FullCheckIsCurrent(s) ==
    LatestFullCheck # 0 /\ runs[LatestFullCheck].finished >= LatestImport(s)

EvidenceState(s) ==
    IF LatestCheck(s) = 0
    THEN IF FullCheckIsCurrent(s) THEN "up_to_date"
         ELSE IF PriorCheck(s) # 0 THEN "stale" ELSE "never_checked"
    ELSE IF runs[LatestCheck(s)].step = "failed" THEN "failed"
         ELSE IF runs[LatestCheck(s)].step = "completed" THEN "up_to_date" ELSE "stale"

StatePriority == [failed |-> 0, never_checked |-> 1, stale |-> 2, up_to_date |-> 3]

SelectedForRefresh(s) ==
    /\ imported[s] # <<>>
    /\ \A t \in Sources : imported[t] # <<>> =>
           StatePriority[EvidenceState(s)] <= StatePriority[EvidenceState(t)]

\* The reviewer names a source or leaves the choice to the service.
StartRefresh(s, named) ==
    /\ Len(runs) < MaxRuns
    /\ imported[s] # <<>> /\ (named \/ SelectedForRefresh(s))
    /\ \A i \in DOMAIN runs : ~(runs[i].mode = s /\ IsActive(runs[i]))
    /\ runs' = Append(runs, NewRun(s, LatestImport(s)))
    /\ UNCHANGED <<token, present, known, imported, row, asked, now, overlapped, changes>>

(***************************************************************************)
(* The worker: process_run.                                                *)
(***************************************************************************)
BeginRun(i) ==
    /\ runs[i].step = "queued"
    /\ runs' = [runs EXCEPT ![i].step = "running"]
    /\ UNCHANGED <<token, present, known, imported, row, asked, now, overlapped, changes>>

ReadEvidence(i) ==
    /\ runs[i].step = "running"
    /\ LET evidence == EvidenceFor(runs[i].mode)
       IN runs' = [runs EXCEPT ![i].step = "read",
                     ![i].read = [step |-> "read", at |-> now, present |-> present,
                                  evidence |-> evidence, row |-> row,
                                  affected |-> runs[i].mode = "full" \/ IsAffected(evidence),
                                  new |-> Judge(evidence, runs[i].mode)]]
    /\ overlapped' = (overlapped \/ \E j \in DOMAIN runs : runs[j].step = "read")
    /\ UNCHANGED <<token, present, known, imported, row, asked, now, changes>>

\* Mutant of Finish: finished_at is not written.
FinishWithoutTime(i, step) ==
    /\ now < MaxEvents
    /\ now' = now + 1
    /\ runs' = [runs EXCEPT ![i].step = step]

Finish(i, step) ==
    /\ now < MaxEvents
    /\ now' = now + 1
    /\ runs' = [runs EXCEPT ![i].step = step, ![i].finished = now + 1,
                            ![i].matched = step = "completed" /\ runs[i].read.affected
                                           /\ runs[i].read.present]

WriteCandidate(i) ==
    LET read == runs[i].read
    IN /\ runs[i].step = "read"
       /\ \/ DeletesRow(runs[i]) /\ row' = Missing /\ Finish(i, "completed")
          \/ /\ ~read.present /\ runs[i].mode # "full"
             /\ row' = row /\ Finish(i, "completed")
          \/ /\ read.present /\ ~read.affected
             /\ row' = row /\ Finish(i, "completed")
          \/ /\ read.present /\ read.affected /\ ~WriteConflict(read.row, read.new)
             /\ row' = IF row = Missing /\ read.row # Missing THEN row
                       ELSE Upsert(read.row, read.new)
             /\ Finish(i, "completed")
          \/ /\ read.present /\ read.affected /\ WriteConflict(read.row, read.new)
             /\ row' = row /\ Finish(i, "failed")
       /\ UNCHANGED <<token, present, known, imported, asked, overlapped, changes>>

\* Any exception before the commit.
FailRun(i) ==
    /\ runs[i].step = "read"
    /\ Finish(i, "failed")
    /\ UNCHANGED <<token, present, known, imported, row, asked, overlapped, changes>>

(***************************************************************************)
(* The reviewer: record_decision.                                          *)
(***************************************************************************)
\* create_lexeme makes a lexeme that holds the form; if one does already, that is reused.
LexemeForCandidate ==
    IF known.lexeme # "none" THEN known.lexeme
    ELSE IF row.canonical = "l" THEN "l" ELSE "own"

\* "other" is a lexeme of the user that does not hold the form.
Decide(decision, linked) ==
    /\ changes < MaxChanges /\ changes' = changes + 1
    /\ row # Missing
    /\ decision = "link_lexeme" => linked # "none"
    /\ LET lexeme == IF decision = "create_lexeme" THEN LexemeForCandidate ELSE linked
       IN /\ row' = [row EXCEPT !.review = "reviewed", !.decision = decision,
                                !.link = IF lexeme = "none" THEN @ ELSE lexeme]
          /\ known' = [known EXCEPT !.lexeme = IF decision = "create_lexeme" THEN lexeme ELSE @]
    /\ UNCHANGED <<token, present, imported, asked, runs, now, overlapped>>

(***************************************************************************)
(* What changes the evidence: code of other modules.                       *)
(***************************************************************************)
ImportCompletes(s) ==
    /\ Len(imported[s]) < MaxImports /\ now < MaxEvents
    /\ now' = now + 1
    /\ imported' = [imported EXCEPT ![s] = Append(@, now + 1)]
    /\ UNCHANGED <<token, present, known, row, asked, runs, overlapped, changes>>

MorphologyCompletes ==
    /\ changes < MaxChanges /\ changes' = changes + 1
    /\ known.morphology = "none"
    /\ known' = [known EXCEPT !.morphology = "lemma"]
    /\ UNCHANGED <<token, present, imported, row, asked, runs, now, overlapped>>

ExternalResultIsCached(result) ==
    /\ changes < MaxChanges /\ changes' = changes + 1
    /\ known.external = "none"
    /\ known' = [known EXCEPT !.external = result]
    /\ UNCHANGED <<token, present, imported, row, asked, runs, now, overlapped>>

\* A retry of the ingestion clears the occurrences and stores them again.
Reingest ==
    /\ changes < MaxChanges /\ changes' = changes + 1
    /\ present' = ~present
    /\ UNCHANGED <<token, known, imported, row, asked, runs, now, overlapped>>

Init ==
    /\ token \in Tokens
    /\ present = TRUE
    /\ \E g \in Backgrounds :
          known = [mapping |-> g.mapping, lexeme |-> "none", lemmaLexeme |-> FALSE,
                   entries |-> {}, mapped |-> {}, corpus |-> g.corpus,
                   lemmaCorpus |-> g.lemmaCorpus, morphology |-> "none", ner |-> g.ner,
                   external |-> "none"]
    /\ imported = [s \in Sources |-> <<>>]
    /\ row = Missing /\ asked = 0 /\ runs = <<>> /\ now = 0 /\ overlapped = FALSE
    /\ changes = 0

Next ==
    \/ AskBuild \/ StartBuild
    \/ \E s \in Sources, named \in BOOLEAN : StartRefresh(s, named)
    \/ \E i \in DOMAIN runs : BeginRun(i) \/ ReadEvidence(i) \/ WriteCandidate(i) \/ FailRun(i)
    \/ \E d \in Decisions, l \in {"none", "other"} : Decide(d, l)
    \/ \E s \in Sources : ImportCompletes(s)
    \/ MorphologyCompletes
    \/ \E r \in External : ExternalResultIsCached(r)
    \/ Reingest

Spec == Init /\ [][Next]_vars

(***************************************************************************)
(* Properties.                                                             *)
(***************************************************************************)
Statuses == SuppressedStatuses \cup {"conflicting_sources", "unknown_plausible",
                                     "possible_named_entity", "possible_ocr_noise"}

TypeOf(status) ==
    IF status \in {"resolved_known", "resolved_by_dictionary", "resolved_by_lemma",
                   "resolved_as_variant"} THEN "known_suppressed"
    ELSE IF status = "attested_in_corpus" THEN "attested_suppressed"
    ELSE IF status = "probable_ocr_noise" THEN "noise_suppressed"
    ELSE IF status = "possible_named_entity" THEN "named_entity_candidate"
    ELSE IF status = "possible_ocr_noise" THEN "possible_ocr_corruption" ELSE status

\* The rows and the runs are well-formed, and a run ends at the latest now.
TypeOK ==
    /\ row # Missing => /\ row.status \in Statuses /\ row.link \in {"none", "own", "l", "other"}
                        /\ row.canonical \in Forms \cup {"none"}
                        /\ row.review = "reviewed" <=> row.decision # "none"
    /\ \A i \in DOMAIN runs : /\ runs[i].finished \in 0..now
                              /\ runs[i].finished > 0 <=> runs[i].step \in {"completed", "failed"}

\* A candidate's type is that of its status as long as no two runs overlapped.
\* Two that overlap each write the columns that differ from what they read, and
\* can leave the status of one beside the type of the other.
TypeMatchesStatusWithoutOverlap ==
    row # Missing /\ ~overlapped => row.type = TypeOf(row.status)

\* A run never undoes a reviewer's decision; the row is lost only to a full build
\* that read the document while it had no occurrence of the form.
DecisionsOutliveBuilds ==
    [][row # Missing /\ runs' # runs =>
         \/ /\ row' # Missing
            /\ row'.review = row.review /\ row'.decision = row.decision
         \/ \E i \in DOMAIN runs : /\ runs[i].mode = "full" /\ ~runs[i].read.present
                                   /\ runs[i].step = "read" /\ runs'[i].step = "completed"]_vars

\* A source is reported up to date only if the check that says so read the entries
\* of an import of it, except for an import that finished while a full build ran.
UpToDateMeansRead ==
    \A s \in Sources : imported[s] # <<>> /\ EvidenceState(s) = "up_to_date" =>
        LET check == runs[IF LatestCheck(s) # 0 THEN LatestCheck(s) ELSE LatestFullCheck]
        IN \/ EntriesOf[s] \subseteq check.read.evidence.mapped /\ check.read.at >= LatestImport(s)
           \/ check.mode = "full" /\ check.read.at < LatestImport(s)
              /\ LatestImport(s) < check.finished

\* Only a lexeme, a defined dictionary entry or an approved headword resolves a
\* form: morphology, names, the corpus, fuzzy hits and page texts never do.
ResolvedMeansTrusted ==
    \A i \in DOMAIN runs :
        runs[i].read # Unread
        /\ TypeOf(runs[i].read.new.status) = "known_suppressed" =>
            LET e == runs[i].read.evidence
            IN \/ e.lexeme # "none" \/ e.lemmaLexeme
               \/ \E x \in e.mapped : x.defined
               \/ runs[i].mode = "full" /\ e.external = "approved"

(***************************************************************************)
(* What the lists show.                                                    *)
(***************************************************************************)
IsListed ==
    /\ row # Missing
    /\ row.status \notin SuppressedStatuses /\ row.type \notin SuppressedTypes
    /\ present /\ token.armenian /\ token.script \notin {"latin", "mixed", "other"}
    /\ row.status = "unknown_plausible" => token.occurrences < 4 /\ token.pages < 6

Summary ==
    LET Count(condition) == IF condition THEN 1 ELSE 0
    IN [total |-> Count(row # Missing), visible |-> Count(IsListed),
        suppressed |-> Count(row # Missing /\ ~IsListed),
        reviewed |-> Count(row # Missing /\ row.review = "reviewed")]
===============================================================================
