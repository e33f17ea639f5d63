------------------------ MODULE ReferenceMatching_proofs ------------------------
(***************************************************************************)
(* Proofs about ReferenceMatching and ReferenceStatus, for any requests,   *)
(* entries, words, lexemes, workers and faults.                            *)
(***************************************************************************)
EXTENDS ReferenceStatus, FiniteSetTheorems, FunctionTheorems, SequenceTheorems, TLAPS

-------------------------------------------------------------------------------
(* Shapes. *)

StatsRecords == [total : Int, matched : Int, unmatched : Int,
                 exact : Int, normalized : Int, fuzzy : Int]
StoredRows   == [run : Runs, row : ResultRows]
MatchRows    == [target : Targets, entry : Entries, type : MatchTypes]

\* The columns of the runs; a run that waits or is swept exists.
RunsInv ==
    /\ status \in [Runs -> Statuses] /\ request \in [Runs -> Requests \cup {NoRequest}]
    /\ retryOf \in [Runs -> Runs \cup {NoRun}] /\ stats \in [Runs -> StatsRecords]
    /\ \A r \in Runs : Fresh(r) <=> request[r] = NoRequest
    /\ broker \subseteq {r \in Runs : ~Fresh(r)} /\ sweeping \subseteq {r \in Runs : ~Fresh(r)}

\* Every run is created once.
CreatedInv ==
    /\ created \in Seq(Runs)
    /\ \A r \in Runs : ~Fresh(r) <=> \E i \in DOMAIN created : created[i] = r
    /\ \A i, j \in DOMAIN created : created[i] = created[j] => i = j

DataInv ==
    /\ entries \subseteq Entries /\ books \subseteq Words /\ forms \in [Lexemes -> SUBSET Words]
    /\ matches \subseteq MatchRows /\ writer \in [Targets -> Runs \cup {NoRun}]

\* Fuzzy matches are looked for only when there are no others.
OneKind(found) == (\E m \in found : m.type = "fuzzy") => \A m \in found : m.type = "fuzzy"

IsRow(row, q, known) ==
    IF q.direction = "source_to_internal" THEN row \in EntryRows /\ row.target[2] \in known
    ELSE row \in TargetRows /\ OneKind(row.found)

OnePerTarget(rows) == \A a, b \in rows : a.target = b.target => a = b

\* The rows of a run that asked for q, when these entries are known.
AreRows(rows, q, known) == OnePerTarget(rows) /\ \A row \in rows : IsRow(row, q, known)

Rows(r) == {x.row : x \in RowsOf(r)}

ResultsInv == results \subseteq StoredRows /\ \A r \in Runs : AreRows(Rows(r), request[r], entries)

IsWork(t) ==
    \/ t = NoWork
    \/ /\ t = [at |-> t.at, run |-> t.run, gone |-> t.gone]
       /\ t.at \in {"started", "failing"}
    \/ t = [at |-> "working", run |-> t.run, gone |-> t.gone, rows |-> t.rows]
    \/ t = [at |-> "replacing", run |-> t.run, gone |-> t.gone, rows |-> t.rows,
            crossed |-> t.crossed, old |-> t.old]

Writes(t) == t.at \in {"working", "replacing"}

\* A worker works for a run that exists, deletes rows of that run, and stores what a run
\* of that direction stores.
RightWork(t, states, requests, known) ==
    /\ IsWork(t)
    /\ t.at # "idle" => /\ t.run \in Runs /\ states[t.run] # "none"
                        /\ \A x \in t.gone : x.run = t.run
    /\ Writes(t) => AreRows(t.rows, requests[t.run], known)
    /\ t.at = "replacing" => requests[t.run].direction = "internal_to_reference"

WorkInv ==
    /\ work = [w \in Workers |-> work[w]]
    /\ \A w \in Workers : RightWork(work[w], status, request, entries)

-------------------------------------------------------------------------------
(* The counts. *)

\* Only a completed run has rows, or one that something failed which had read it before.
CountsInv ==
    /\ \A r \in Runs :
        /\ status[r] = "completed" => stats[r] = StatsOf(Rows(r))
        /\ RowsOf(r) # {} => status[r] = "completed" \/ (status[r] = "failed" /\ r \in raced)
        /\ r \in sweeping /\ RowsOf(r) # {} => r \in raced
    /\ \A w \in Workers :
        work[w].at = "failing" => RowsOf(work[w].run) \subseteq work[w].gone \/ work[w].run \in raced

-------------------------------------------------------------------------------
(* The stored matches. *)

FoundFor(t) == {[entry |-> m.entry, type |-> m.type] : m \in StoredFor(t)}

\* A worker that replaces matches deletes all of a target, unless another run crossed it,
\* and only those of its targets.
ReplacedInv ==
    \A w \in Workers : work[w].at = "replacing" =>
        /\ \A row \in work[w].rows :
            row.target \notin work[w].crossed => StoredFor(row.target) \subseteq work[w].old
        /\ \A m \in work[w].old : \E row \in work[w].rows : row.target = m.target

\* The rows of the run that saved a target last show what is stored for it.
SavedInv ==
    /\ \A t \in Targets : writer[t] = NoRun => StoredFor(t) = {}
    /\ \A t \in Targets \ mixed :
        /\ OneKind(FoundFor(t))
        /\ \A x \in RowsOf(writer[t]) : x.row.target = t => x.row.found = FoundFor(t)

IInv == /\ RunsInv /\ CreatedInv /\ DataInv /\ ResultsInv /\ WorkInv
        /\ CountsInv /\ ReplacedInv /\ SavedInv
-------------------------------------------------------------------------------
(* Finite sets. *)

AllTargets == Targets \cup ({"entry"} \X Entries)

LEMMA TargetsAreFinite == IsFiniteSet(Targets) /\ IsFiniteSet(AllTargets)
<1>1. IsFiniteSet({"group"}) /\ IsFiniteSet({"lexeme"}) /\ IsFiniteSet({"entry"})
  BY FS_Singleton
<1>2. IsFiniteSet({"group"} \X Words) /\ IsFiniteSet({"lexeme"} \X Lexemes)
      /\ IsFiniteSet({"entry"} \X Entries)
  BY <1>1, DataAssumption, FS_Product
<1>3. IsFiniteSet(Targets)
  BY <1>2, FS_Union DEF Targets
<1> QED
  BY <1>2, <1>3, FS_Union DEF AllTargets

LEMMA RowsHaveTargets ==
  ASSUME NEW rows, NEW q, NEW known, AreRows(rows, q, known)
  PROVE  \A row \in rows : row.target \in AllTargets
  BY DEF AreRows, IsRow, EntryRows, TargetRows, AllTargets

\* One row for each of finitely many targets.
LEMMA RowsAreFinite ==
  ASSUME NEW rows, NEW q, NEW known, AreRows(rows, q, known)
  PROVE  IsFiniteSet(rows)
<1> DEFINE f == [row \in rows |-> row.target]
<1>1. f \in [rows -> AllTargets]
  BY RowsHaveTargets
<1>2. \A a, b \in rows : f[a] = f[b] => a = b
  BY DEF AreRows, OnePerTarget
<1>3. f \in Injection(rows, AllTargets)
  BY <1>1, <1>2, Fun_IsInj
<1> QED
  BY <1>3, TargetsAreFinite, FS_Injection

LEMMA SubsetIsFinite ==
  ASSUME NEW S, IsFiniteSet(S), NEW T, T \subseteq S
  PROVE  IsFiniteSet(T) /\ Cardinality(T) \in Nat /\ Cardinality(T) <= Cardinality(S)
         /\ (Cardinality(T) > 0 <=> T # {})
<1>1. IsFiniteSet(T) /\ Cardinality(T) <= Cardinality(S)
  BY FS_Subset
<1>2. Cardinality(T) \in Nat
  BY <1>1, FS_CardinalityType
<1>3. Cardinality(T) = 0 <=> T = {}
  BY <1>1, FS_EmptySet
<1> QED
  BY <1>1, <1>2, <1>3

LEMMA StatsAreNumbers ==
  ASSUME NEW rows, IsFiniteSet(rows)
  PROVE  StatsOf(rows) \in StatsRecords
<1> DEFINE best(type) == Cardinality({r \in rows : r.target[1] # "entry" /\ BestType(r.found) = type})
           hits       == Cardinality({r \in rows : IsMatched(r)})
           others     == Cardinality({r \in rows : r.target[1] = "entry" /\ IsMatched(r)})
<1>1. best("exact") \in Int /\ best("normalized") \in Int /\ best("fuzzy") \in Int
  BY SubsetIsFinite
<1>2. hits \in Int /\ others \in Int /\ Cardinality(rows) \in Int
  BY SubsetIsFinite
<1>3. StatsOf(rows) = [total |-> Cardinality(rows), matched |-> hits,
                       unmatched |-> Cardinality(rows) - hits, exact |-> best("exact"),
                       normalized |-> best("normalized") + others, fuzzy |-> best("fuzzy")]
  BY DEF StatsOf
<1> HIDE DEF best, hits, others
<1> QED
  BY <1>1, <1>2, <1>3 DEF StatsRecords

-------------------------------------------------------------------------------
(* What a run reads. *)

LEMMA FuzzyAlone ==
  ASSUME NEW catalog, catalog \subseteq Entries, NEW values, NEW fuzzy
  PROVE  /\ MatchesOf(catalog, values, fuzzy) \in SUBSET [entry : Entries, type : MatchTypes]
         /\ OneKind(MatchesOf(catalog, values, fuzzy))
<1>1. /\ ExactMatches(catalog, values) \subseteq [entry : Entries, type : MatchTypes]
      /\ \A m \in ExactMatches(catalog, values) : m.type = "exact"
  BY DEF ExactMatches, MatchTypes
<1>2. /\ NormalizedMatches(catalog, values) \subseteq [entry : Entries, type : MatchTypes]
      /\ \A m \in NormalizedMatches(catalog, values) : m.type = "normalized"
  BY DEF NormalizedMatches, MatchTypes
<1>3. /\ FuzzyMatches(catalog, values) \subseteq [entry : Entries, type : MatchTypes]
      /\ \A m \in FuzzyMatches(catalog, values) : m.type = "fuzzy"
  BY DEF FuzzyMatches, FuzzyCandidates, MatchTypes
<1> QED
  BY <1>1, <1>2, <1>3 DEF MatchesOf, OneKind

LEMMA TargetRowsAreRows ==
  ASSUME DataInv, NEW q, q.direction = "internal_to_reference"
  PROVE  AreRows({TargetRow(q, t) : t \in GroupTargets(q) \cup LexemeTargets(q)}, q, entries)
<1>1. \A t \in GroupTargets(q) \cup LexemeTargets(q) : t \in Targets
  BY DEF GroupTargets, LexemeTargets, Targets, DataInv
<1>2. ASSUME NEW t \in Targets
      PROVE  TargetRow(q, t) \in TargetRows /\ OneKind(TargetRow(q, t).found)
             /\ TargetRow(q, t).target = t
  <2>1. entries \subseteq Entries
    BY DEF DataInv
  <2>2. /\ MatchesOf(entries, ValuesOf(t), q.fuzzy) \in SUBSET [entry : Entries, type : MatchTypes]
        /\ OneKind(MatchesOf(entries, ValuesOf(t), q.fuzzy))
    BY <2>1, FuzzyAlone
  <2> QED
    BY <2>2 DEF TargetRow, TargetRows
<1> QED
  BY <1>1, <1>2 DEF AreRows, OnePerTarget, IsRow

LEMMA EntryRowsAreRows ==
  ASSUME DataInv, NEW q, q.direction = "source_to_internal"
  PROVE  AreRows({EntryRow(q, e) : e \in {x \in entries : SourceOf[x] = q.source}}, q, entries)
<1>1. ASSUME NEW e \in entries
      PROVE  EntryRow(q, e) \in EntryRows /\ EntryRow(q, e).target = <<"entry", e>>
  <2> DEFINE lexemes == IF q.target = "imported_books" THEN {} ELSE LexemesWith(NormOf[e])
             count   == IF q.target = "lexicon" THEN 0 ELSE OccurrencesOf(NormOf[e])
  <2>1. lexemes \subseteq Lexemes /\ count \in {0, 1} /\ e \in Entries
    BY DEF LexemesWith, OccurrencesOf, DataInv
  <2>2. Cardinality(lexemes) \in Nat
    BY <2>1, DataAssumption, SubsetIsFinite
  <2>3. EntryRow(q, e) = [target |-> <<"entry", e>>, lexemes |-> lexemes, books |-> count,
                          count |-> Cardinality(lexemes) + count]
    BY DEF EntryRow
  <2> HIDE DEF lexemes, count
  <2>4. Cardinality(lexemes) + count \in Nat
    BY <2>1, <2>2
  <2> QED
    BY <2>1, <2>3, <2>4 DEF EntryRows
<1>2. \A e \in entries : EntryRow(q, e).target[2] = e
  BY <1>1
<1> QED
  BY <1>1, <1>2 DEF AreRows, OnePerTarget, IsRow

-------------------------------------------------------------------------------
(* The runs. *)

\* A run that was created stays, with its request; entries stay.
Kept == /\ \A r \in Runs : ~Fresh(r) => status'[r] # "none" /\ request'[r] = request[r]
        /\ entries \subseteq entries'

\* Who asks for a run gives a request; a retry takes that of a run that failed.
LEMMA RequestedRun ==
  ASSUME RunsInv, NEW r \in Runs, Request(r)
  PROVE  /\ Fresh(r) /\ sweeping' = sweeping
         /\ \E q \in Requests, old \in Runs \cup {NoRun}, sent \in BOOLEAN : AddRun(r, q, old, sent)
<1>1. CASE \E sent \in BOOLEAN, q \in Requests : CreateRun(r, q, sent)
  BY <1>1 DEF CreateRun
<1>2. CASE \E sent \in BOOLEAN, old \in Runs : RetryRun(r, old, sent)
  <2>1. PICK sent \in BOOLEAN, old \in Runs : RetryRun(r, old, sent)
    BY <1>2
  <2>2. status[old] = "failed"
    BY <2>1 DEF RetryRun, MayRetry
  <2>3. request[old] \in Requests
    BY <2>2 DEF RunsInv, Fresh
  <2> QED
    BY <2>1, <2>3 DEF RetryRun
<1> QED
  BY <1>1, <1>2 DEF Request

LEMMA AddedRunIsRight ==
  ASSUME RunsInv, NEW r \in Runs, Fresh(r), sweeping' = sweeping, NEW q \in Requests,
         NEW old \in Runs \cup {NoRun}, NEW sent \in BOOLEAN, AddRun(r, q, old, sent)
  PROVE  RunsInv' /\ Kept
<1>1. q # NoRequest
  BY RequestsAssumption DEF NoRequest
<1>2. /\ status' = [status EXCEPT ![r] = IF sent THEN "queued" ELSE "failed"]
      /\ request' = [request EXCEPT ![r] = q] /\ retryOf' = [retryOf EXCEPT ![r] = old]
      /\ stats' = stats /\ broker' = IF sent THEN broker \cup {r} ELSE broker
      /\ entries' = entries
  BY DEF AddRun, dataVars
<1>3. status' \in [Runs -> Statuses] /\ request' \in [Runs -> Requests \cup {NoRequest}]
      /\ retryOf' \in [Runs -> Runs \cup {NoRun}] /\ stats' \in [Runs -> StatsRecords]
  BY <1>2 DEF RunsInv, Statuses
<1>4. \A x \in Runs : status'[x] = "none" <=> request'[x] = NoRequest
  BY <1>1, <1>2 DEF RunsInv, Fresh
<1>5. Kept
  BY <1>2 DEF Kept, RunsInv, Fresh
<1>6. \A x \in broker' : x \in Runs /\ status'[x] # "none"
  BY <1>2 DEF RunsInv, Fresh
<1>7. \A x \in sweeping' : x \in Runs /\ status'[x] # "none"
  BY <1>2 DEF RunsInv, Fresh
<1> QED
  BY <1>3, <1>4, <1>5, <1>6, <1>7 DEF RunsInv, Fresh

\* The end of a run, by a worker or by the sweep.
LEMMA EndedRunIsRight ==
  ASSUME RunsInv, NEW r \in Runs, ~Fresh(r), NEW end \in {"completed", "failed"},
         status' = [status EXCEPT ![r] = end], UNCHANGED <<request, retryOf, broker>>,
         sweeping' \subseteq sweeping, stats' \in [Runs -> StatsRecords], entries \subseteq entries'
  PROVE  RunsInv' /\ Kept
<1>1. status' \in [Runs -> Statuses]
  BY DEF RunsInv, Statuses
<1>2. \A x \in Runs : status'[x] = "none" <=> status[x] = "none"
  BY DEF RunsInv, Fresh
<1> QED
  BY <1>1, <1>2 DEF RunsInv, Fresh, Kept

\* Nothing but the queue and the sweep's list changes.
LEMMA SameRunsAreRight ==
  ASSUME RunsInv, UNCHANGED <<status, request, retryOf, stats>>,
         broker' \subseteq {r \in Runs : ~Fresh(r)}, sweeping' \subseteq {r \in Runs : ~Fresh(r)},
         entries \subseteq entries'
  PROVE  RunsInv' /\ Kept
  BY DEF RunsInv, Fresh, Kept

LEMMA SweepRetryIsRight ==
  ASSUME RunsInv, NEW r \in Runs, NEW x \in Runs, NEW sent \in BOOLEAN, SweepRetry(r, x, sent)
  PROVE  RunsInv' /\ Kept /\ request[r] \in Requests /\ r # x
<1>1. r \in Runs /\ ~Fresh(r) /\ Fresh(x) /\ r # x
  BY DEF SweepRetry, RunsInv
<1>2. request[r] \in Requests
  BY <1>1 DEF RunsInv
<1>3. request[r] # NoRequest
  BY <1>1 DEF RunsInv
<1>4. /\ status' = [status EXCEPT ![r] = "failed", ![x] = "queued"]
      /\ request' = [request EXCEPT ![x] = request[r]] /\ retryOf' = [retryOf EXCEPT ![x] = r]
      /\ sweeping' = sweeping \ {r} /\ broker' = IF sent THEN broker \cup {x} ELSE broker
      /\ stats' = stats /\ entries' = entries
  BY DEF SweepRetry, dataVars
<1>5. status' \in [Runs -> Statuses] /\ request' \in [Runs -> Requests \cup {NoRequest}]
      /\ retryOf' \in [Runs -> Runs \cup {NoRun}] /\ stats' \in [Runs -> StatsRecords]
  BY <1>2, <1>4 DEF RunsInv, Statuses
<1>6. \A y \in Runs : status'[y] = IF y = x THEN "queued" ELSE IF y = r THEN "failed" ELSE status[y]
  BY <1>1, <1>4 DEF RunsInv
<1>7. \A y \in Runs : request'[y] = IF y = x THEN request[r] ELSE request[y]
  BY <1>4 DEF RunsInv
<1>8. \A y \in Runs : status'[y] = "none" <=> request'[y] = NoRequest
  BY <1>1, <1>3, <1>6, <1>7 DEF RunsInv, Fresh
<1>9. Kept
  <2>1. ASSUME NEW y \in Runs, ~Fresh(y)
        PROVE  status'[y] # "none" /\ request'[y] = request[y]
    <3>1. y # x
      BY <1>1, <2>1
    <3> QED
      BY <2>1, <3>1, <1>6, <1>7 DEF Fresh
  <2> QED
    BY <2>1, <1>4 DEF Kept
<1>10. \A y \in broker' \cup sweeping' : y \in Runs /\ status'[y] # "none"
  BY <1>1, <1>4, <1>6 DEF RunsInv, Fresh
<1> QED
  BY <1>2, <1>1, <1>5, <1>8, <1>9, <1>10 DEF RunsInv, Fresh

\* What a worker stores in its run.
LEMMA CompletedStats ==
  ASSUME RunsInv, WorkInv, NEW w \in Workers, Writes(work[w]), Complete(w)
  PROVE  /\ work[w].run \in Runs /\ ~Fresh(work[w].run)
         /\ stats' \in [Runs -> StatsRecords]
         /\ stats'[work[w].run] = StatsOf(work[w].rows)
         /\ \A r \in Runs : r # work[w].run => stats'[r] = stats[r]
<1>1. work[w].run \in Runs /\ ~Fresh(work[w].run) /\ AreRows(work[w].rows, request[work[w].run], entries)
  BY DEF WorkInv, RightWork, Writes, Fresh
<1>2. StatsOf(work[w].rows) \in StatsRecords
  BY <1>1, RowsAreFinite, StatsAreNumbers
<1>3. stats' = [stats EXCEPT ![work[w].run] = StatsOf(work[w].rows)]
  BY DEF Complete
<1> QED
  BY <1>1, <1>2, <1>3 DEF RunsInv

LEMMA RunsAreKept ==
  ASSUME RunsInv, WorkInv, [Next]_vars
  PROVE  RunsInv' /\ Kept
<1>1. ASSUME NEW r \in Runs, Request(r) PROVE RunsInv' /\ Kept
  BY <1>1, RequestedRun, AddedRunIsRight
<1>2. ASSUME NEW r \in Runs, LoseMessage(r) \/ DuplicateMessage(r) \/ SweepRead(r) \/ SweepSkip(r)
      PROVE  RunsInv' /\ Kept
  <2>1. UNCHANGED <<status, request, retryOf, stats, entries>>
    BY <1>2 DEF LoseMessage, DuplicateMessage, SweepRead, SweepSkip, runVars, dataVars
  <2>2. broker' \subseteq {x \in Runs : ~Fresh(x)}
    BY <1>2 DEF LoseMessage, DuplicateMessage, SweepRead, SweepSkip, RunsInv
  <2>3. sweeping' \subseteq {x \in Runs : ~Fresh(x)}
    BY <1>2 DEF LoseMessage, DuplicateMessage, SweepRead, SweepSkip, RunsInv, Fresh
  <2> QED
    BY <2>1, <2>2, <2>3, SameRunsAreRight
<1>3. ASSUME NEW r \in Runs, SweepFail(r) PROVE RunsInv' /\ Kept
  <2>1. ~Fresh(r) /\ stats' \in [Runs -> StatsRecords] /\ sweeping' \subseteq sweeping
        /\ entries' = entries /\ UNCHANGED <<request, retryOf, broker>>
        /\ status' = [status EXCEPT ![r] = "failed"]
    BY <1>3 DEF SweepFail, RunsInv, dataVars
  <2> QED
    BY <2>1, EndedRunIsRight
<1>4. ASSUME NEW r \in Runs, NEW x \in Runs, NEW sent \in BOOLEAN, SweepRetry(r, x, sent)
      PROVE  RunsInv' /\ Kept
  BY <1>4, SweepRetryIsRight
<1>5. ASSUME NEW w \in Workers, CompleteEntries(w) \/ CompleteTargets(w) PROVE RunsInv' /\ Kept
  <2>1. Writes(work[w]) /\ Complete(w)
    BY <1>5 DEF CompleteEntries, CompleteTargets, Writes
  <2>2. work[w].run \in Runs /\ ~Fresh(work[w].run) /\ stats' \in [Runs -> StatsRecords]
    BY <2>1, CompletedStats
  <2>3. /\ status' = [status EXCEPT ![work[w].run] = "completed"]
        /\ UNCHANGED <<request, retryOf, broker, sweeping, entries>>
    BY <2>1 DEF Complete, dataVars
  <2> QED
    BY <2>2, <2>3, EndedRunIsRight
<1>6. ASSUME NEW w \in Workers, WriteFailure(w) PROVE RunsInv' /\ Kept
  <2>1. work[w].run \in Runs /\ ~Fresh(work[w].run)
    BY <1>6 DEF WriteFailure, WorkInv, RightWork, Fresh
  <2>2. /\ status' = [status EXCEPT ![work[w].run] = "failed"]
        /\ UNCHANGED <<request, retryOf, broker, sweeping, entries, stats>>
    BY <1>6 DEF WriteFailure, dataVars
  <2>3. stats' \in [Runs -> StatsRecords]
    BY <2>2 DEF RunsInv
  <2> QED
    BY <2>1, <2>2, <2>3, EndedRunIsRight
<1>7. ASSUME \/ \E w \in Workers : \/ \E r \in Runs : Take(w, r)
                                  \/ ReadTargets(w) \/ ReadEntries(w) \/ DeleteMatches(w)
                                  \/ FailRun(w) \/ KillWorker(w)
             \/ \E e \in Entries : ImportEntry(e)
             \/ \E w \in Words : IngestWord(w)
             \/ \E l \in Lexemes : CurateLexeme(l)
             \/ UNCHANGED vars
      PROVE  RunsInv' /\ Kept
  <2>1. UNCHANGED <<status, request, retryOf, stats, sweeping>> /\ broker' \subseteq broker
        /\ entries \subseteq entries'
    BY <1>7 DEF Take, ReadTargets, ReadEntries, DeleteMatches, FailRun, KillWorker, ImportEntry,
                IngestWord, CurateLexeme, Change, runVars, dataVars, vars
  <2> QED
    BY <2>1, SameRunsAreRight DEF RunsInv
<1> QED
  BY <1>1, <1>2, <1>3, <1>4, <1>5, <1>6, <1>7 DEF Next, Work, Sweep

-------------------------------------------------------------------------------
(* The order of the runs, and the data around them. *)

LEMMA AppendedOnce ==
  ASSUME RunsInv, CreatedInv, NEW r \in Runs, Fresh(r), created' = Append(created, r),
         \A x \in Runs : ~Fresh(x)' <=> (~Fresh(x) \/ x = r)
  PROVE  CreatedInv'
<1>1. created \in Seq(Runs)
  BY DEF CreatedInv
<1>2. /\ created' \in Seq(Runs) /\ Len(created') = Len(created) + 1
      /\ \A i \in 1..Len(created) : created'[i] = created[i]
      /\ created'[Len(created) + 1] = r
  BY <1>1, AppendProperties
<1>3. DOMAIN created = 1..Len(created) /\ DOMAIN created' = 1..(Len(created) + 1)
      /\ Len(created) \in Nat
  BY <1>1, <1>2, LenProperties
<1>4. \A i \in DOMAIN created : created[i] # r
  BY <1>1, <1>3 DEF CreatedInv
<1>5. \A x \in Runs : ~Fresh(x)' <=> \E i \in DOMAIN created' : created'[i] = x
  <2>1. SUFFICES ASSUME NEW x \in Runs
                 PROVE  (~Fresh(x) \/ x = r) <=> \E i \in DOMAIN created' : created'[i] = x
    OBVIOUS
  <2>2. ~Fresh(x) <=> \E i \in DOMAIN created : created[i] = x
    BY DEF CreatedInv
  <2>3. ASSUME ~Fresh(x) \/ x = r PROVE \E i \in DOMAIN created' : created'[i] = x
    BY <1>2, <1>3, <2>2, <2>3
  <2>4. ASSUME NEW i \in DOMAIN created', created'[i] = x PROVE ~Fresh(x) \/ x = r
    BY <1>2, <1>3, <2>2, <2>4
  <2> QED
    BY <2>3, <2>4
<1>6. \A i, j \in DOMAIN created' : created'[i] = created'[j] => i = j
  BY <1>2, <1>3, <1>4 DEF CreatedInv
<1> QED
  BY <1>2, <1>5, <1>6 DEF CreatedInv

LEMMA RunsAreCreatedOnce ==
  ASSUME RunsInv, WorkInv, CreatedInv, [Next]_vars
  PROVE  CreatedInv'
<1>1. ASSUME NEW r \in Runs, Request(r) PROVE CreatedInv'
  <2>1. PICK q \in Requests, old \in Runs \cup {NoRun}, sent \in BOOLEAN : AddRun(r, q, old, sent)
    BY <1>1, RequestedRun
  <2>2. Fresh(r)
    BY <1>1, RequestedRun
  <2>3. created' = Append(created, r) /\ \A x \in Runs : ~Fresh(x)' <=> (~Fresh(x) \/ x = r)
    BY <2>1 DEF AddRun, RunsInv, Fresh
  <2> QED
    BY <2>2, <2>3, AppendedOnce
<1>2. ASSUME NEW r \in Runs, NEW x \in Runs, NEW sent \in BOOLEAN, SweepRetry(r, x, sent)
      PROVE  CreatedInv'
  <2>1. r # x /\ Fresh(x) /\ ~Fresh(r)
    BY <1>2, SweepRetryIsRight DEF SweepRetry, RunsInv
  <2>2. created' = Append(created, x) /\ status' = [status EXCEPT ![r] = "failed", ![x] = "queued"]
    BY <1>2 DEF SweepRetry
  <2>3. \A y \in Runs : status'[y] = IF y = x THEN "queued" ELSE IF y = r THEN "failed" ELSE status[y]
    BY <2>1, <2>2 DEF RunsInv
  <2>4. \A y \in Runs : ~Fresh(y)' <=> (~Fresh(y) \/ y = x)
    BY <2>1, <2>3 DEF Fresh
  <2> QED
    BY <2>1, <2>2, <2>4, AppendedOnce
<1>3. ASSUME UNCHANGED created, \A x \in Runs : Fresh(x)' <=> Fresh(x) PROVE CreatedInv'
  BY <1>3 DEF CreatedInv
<1>4. ASSUME NEW r \in Runs, SweepFail(r) PROVE CreatedInv'
  <2>1. ~Fresh(r)
    BY <1>4 DEF SweepFail, RunsInv
  <2> QED
    BY <1>3, <1>4, <2>1 DEF SweepFail, RunsInv, Fresh
<1>5. ASSUME NEW w \in Workers, CompleteEntries(w) \/ CompleteTargets(w) \/ WriteFailure(w)
      PROVE  CreatedInv'
  <2>1. work[w].run \in Runs /\ ~Fresh(work[w].run)
    BY <1>5 DEF CompleteEntries, CompleteTargets, WriteFailure, WorkInv, RightWork, Fresh
  <2>2. created' = created /\ \E end \in {"completed", "failed"} :
                                  status' = [status EXCEPT ![work[w].run] = end]
    BY <1>5 DEF CompleteEntries, CompleteTargets, WriteFailure, Complete
  <2> QED
    BY <1>3, <2>1, <2>2 DEF RunsInv, Fresh
<1>6. ASSUME UNCHANGED runVars PROVE CreatedInv'
  BY <1>3, <1>6 DEF runVars, Fresh
<1>7. ASSUME NEW r \in Runs, LoseMessage(r) \/ DuplicateMessage(r) \/ SweepRead(r) \/ SweepSkip(r)
      PROVE  UNCHANGED runVars
  BY <1>7 DEF LoseMessage, DuplicateMessage, SweepRead, SweepSkip
<1>8. ASSUME \/ \E w \in Workers : \/ \E r \in Runs : Take(w, r)
                                  \/ ReadTargets(w) \/ ReadEntries(w) \/ DeleteMatches(w)
                                  \/ FailRun(w) \/ KillWorker(w)
             \/ \E e \in Entries : ImportEntry(e)
             \/ \E w \in Words : IngestWord(w)
             \/ \E l \in Lexemes : CurateLexeme(l)
             \/ UNCHANGED vars
      PROVE  UNCHANGED runVars
  BY <1>8 DEF Take, ReadTargets, ReadEntries, DeleteMatches, FailRun, KillWorker, ImportEntry,
              IngestWord, CurateLexeme, Change, vars
<1> QED
  BY <1>1, <1>2, <1>4, <1>5, <1>6, <1>7, <1>8 DEF Next, Work, Sweep

\* The matches of a run of that direction are matches of targets.
LEMMA NewMatchesAreMatches ==
  ASSUME WorkInv, NEW w \in Workers, work[w].at = "replacing"
  PROVE  /\ \A row \in work[w].rows : row \in TargetRows /\ OneKind(row.found)
         /\ \A a, b \in work[w].rows : a.target = b.target => a = b
         /\ work[w].run \in Runs
         /\ NewMatches(w) \subseteq MatchRows
<1>1. /\ AreRows(work[w].rows, request[work[w].run], entries) /\ work[w].run \in Runs
      /\ request[work[w].run].direction = "internal_to_reference"
  BY DEF WorkInv, RightWork, Writes, Fresh
<1>2. \A row \in work[w].rows : row \in TargetRows /\ OneKind(row.found)
  BY <1>1 DEF AreRows, IsRow
<1>3. NewMatches(w) \subseteq MatchRows
  <2>1. SUFFICES ASSUME NEW row \in work[w].rows, NEW f \in row.found
                 PROVE  [target |-> row.target, entry |-> f.entry, type |-> f.type] \in MatchRows
    BY DEF NewMatches
  <2> QED
    BY <1>2 DEF TargetRows, MatchRows
<1> QED
  BY <1>1, <1>2, <1>3 DEF AreRows, OnePerTarget

LEMMA DataIsRight ==
  ASSUME WorkInv, DataInv, [Next]_vars
  PROVE  DataInv'
<1>1. ASSUME NEW w \in Workers, CompleteTargets(w) PROVE DataInv'
  <2>1. /\ UNCHANGED dataVars /\ matches' = (matches \ work[w].old) \cup NewMatches(w)
        /\ writer' = [t \in Targets |-> IF t \in {row.target : row \in work[w].rows} THEN work[w].run
                                        ELSE writer[t]]
        /\ work[w].at = "replacing"
    BY <1>1 DEF CompleteTargets, Complete
  <2>2. NewMatches(w) \subseteq MatchRows /\ work[w].run \in Runs
    BY <2>1, NewMatchesAreMatches
  <2> QED
    BY <2>1, <2>2 DEF DataInv, dataVars
<1>2. ASSUME NEW w \in Words, IngestWord(w) PROVE DataInv'
  BY <1>2 DEF IngestWord, Change, DataInv, rowVars
<1>3. ASSUME NEW e \in Entries, ImportEntry(e) PROVE DataInv'
  BY <1>3 DEF ImportEntry, Change, DataInv, rowVars
<1>4. ASSUME NEW l \in Lexemes, CurateLexeme(l) PROVE DataInv'
  BY <1>4 DEF CurateLexeme, Change, DataInv, rowVars
<1>5. ASSUME UNCHANGED <<matches, writer, dataVars>> PROVE DataInv'
  BY <1>5 DEF DataInv, dataVars
<1>6. ASSUME NEW r \in Runs, Request(r) PROVE UNCHANGED <<matches, writer, dataVars>>
  BY <1>6 DEF Request, CreateRun, RetryRun, AddRun, rowVars
<1>7. ASSUME NEW r \in Runs, LoseMessage(r) \/ DuplicateMessage(r) \/ Sweep(r)
      PROVE  UNCHANGED <<matches, writer, dataVars>>
  BY <1>7 DEF LoseMessage, DuplicateMessage, Sweep, SweepRead, SweepSkip, SweepFail, SweepRetry, rowVars
<1>8. ASSUME \/ \E w \in Workers : \/ \E r \in Runs : Take(w, r)
                                  \/ ReadTargets(w) \/ ReadEntries(w) \/ DeleteMatches(w)
                                  \/ FailRun(w) \/ KillWorker(w) \/ CompleteEntries(w) \/ WriteFailure(w)
             \/ UNCHANGED vars
      PROVE  UNCHANGED <<matches, writer, dataVars>>
  BY <1>8 DEF Take, ReadTargets, ReadEntries, DeleteMatches, FailRun, KillWorker, CompleteEntries,
              WriteFailure, Complete, rowVars, vars
<1> QED
  BY <1>1, <1>2, <1>3, <1>4, <1>5, <1>6, <1>7, <1>8 DEF Next, Work

-------------------------------------------------------------------------------
(* The workers. *)

LEMMA KnownRowsStay ==
  ASSUME NEW rows, NEW q, AreRows(rows, q, entries), entries \subseteq entries'
  PROVE  AreRows(rows, q, entries')
  BY DEF AreRows, IsRow

LEMMA RightWorkStays ==
  ASSUME NEW t, RightWork(t, status, request, entries), Kept
  PROVE  RightWork(t, status', request', entries')
<1>1. ASSUME t.at # "idle"
      PROVE  /\ t.run \in Runs /\ status'[t.run] # "none" /\ \A x \in t.gone : x.run = t.run
             /\ request'[t.run] = request[t.run]
  BY <1>1 DEF RightWork, Kept, Fresh
<1>2. ASSUME Writes(t) PROVE AreRows(t.rows, request'[t.run], entries')
  <2>1. AreRows(t.rows, request[t.run], entries) /\ t.at # "idle" /\ entries \subseteq entries'
    BY <1>2 DEF RightWork, Writes, Kept
  <2> QED
    BY <2>1, <1>1, KnownRowsStay
<1> QED
  BY <1>1, <1>2 DEF RightWork

LEMMA ChangedWorkIsRight ==
  ASSUME WorkInv, Kept, NEW w \in Workers, NEW t, RightWork(t, status, request, entries),
         work' = [work EXCEPT ![w] = t]
  PROVE  WorkInv'
<1>1. /\ work' = [v \in Workers |-> work'[v]]
      /\ \A v \in Workers : work'[v] = IF v = w THEN t ELSE work[v]
  BY DEF WorkInv
<1>2. \A v \in Workers : RightWork(work'[v], status, request, entries)
  BY <1>1 DEF WorkInv
<1>3. \A v \in Workers : RightWork(work'[v], status', request', entries')
  BY <1>2, RightWorkStays
<1> QED
  BY <1>1, <1>3 DEF WorkInv

LEMMA UnchangedWorkIsRight ==
  ASSUME WorkInv, Kept, UNCHANGED work
  PROVE  WorkInv'
<1>1. \A v \in Workers : RightWork(work[v], status', request', entries')
  BY RightWorkStays DEF WorkInv
<1> QED
  BY <1>1 DEF WorkInv

LEMMA NoWorkIsRight == RightWork(NoWork, status, request, entries) /\ ~Writes(NoWork)
  BY DEF RightWork, IsWork, NoWork, Writes

LEMMA CrossedWorkIsRight ==
  ASSUME NEW t, NEW targets, t.at = "replacing", RightWork(t, status, request, entries)
  PROVE  RightWork([t EXCEPT !.crossed = @ \cup targets], status, request, entries)
<1>1. t = [at |-> "replacing", run |-> t.run, gone |-> t.gone, rows |-> t.rows,
           crossed |-> t.crossed, old |-> t.old]
  BY DEF RightWork, IsWork, NoWork
<1> DEFINE u == [t EXCEPT !.crossed = @ \cup targets]
<1>2. /\ u = [at |-> "replacing", run |-> t.run, gone |-> t.gone, rows |-> t.rows,
              crossed |-> t.crossed \cup targets, old |-> t.old]
      /\ u.at = "replacing" /\ u.run = t.run /\ u.gone = t.gone /\ u.rows = t.rows
      /\ u.crossed = t.crossed \cup targets /\ u.old = t.old
  BY <1>1
<1> HIDE DEF u
<1>3. IsWork(u)
  BY <1>2 DEF IsWork
<1>4. RightWork(u, status, request, entries)
  BY <1>2, <1>3 DEF RightWork, Writes
<1> QED
  BY <1>4 DEF u

LEMMA CompletedWorkIsRight ==
  ASSUME WorkInv, Kept, NEW w \in Workers, Complete(w)
  PROVE  WorkInv'
<1>1. work' = [v \in Workers |->
                 IF v = w THEN NoWork
                 ELSE IF work[v].at = "replacing"
                      THEN [work[v] EXCEPT !.crossed = @ \cup {row.target : row \in work[w].rows}]
                      ELSE work[v]]
  BY DEF Complete
<1>2. ASSUME NEW v \in Workers PROVE RightWork(work'[v], status, request, entries)
  <2>1. RightWork(work[v], status, request, entries)
    BY DEF WorkInv
  <2>2. CASE v = w
    BY <1>1, <2>2, NoWorkIsRight
  <2>3. CASE v # w /\ work[v].at = "replacing"
    <3>1. work'[v] = [work[v] EXCEPT !.crossed = @ \cup {row.target : row \in work[w].rows}]
      BY <1>1, <2>3
    <3> QED
      BY <3>1, <2>1, <2>3, CrossedWorkIsRight
  <2>4. CASE v # w /\ work[v].at # "replacing"
    BY <1>1, <2>1, <2>4
  <2> QED
    BY <2>2, <2>3, <2>4
<1>3. \A v \in Workers : RightWork(work'[v], status', request', entries')
  BY <1>2, RightWorkStays
<1>4. work' = [v \in Workers |-> work'[v]]
  BY <1>1
<1> QED
  BY <1>3, <1>4 DEF WorkInv

\* What a worker holds after each of its steps.
LEMMA WorkAfterTake ==
  ASSUME RunsInv, NEW w \in Workers, NEW r \in Runs, Take(w, r)
  PROVE  RightWork([at |-> "started", run |-> r, gone |-> RowsOf(r)], status, request, entries)
<1>1. ~Fresh(r)
  BY DEF Take, RunsInv
<1> DEFINE t == [at |-> "started", run |-> r, gone |-> RowsOf(r)]
<1>2. /\ IsWork(t) /\ t.run = r /\ ~Writes(t) /\ t.at # "replacing"
      /\ \A x \in t.gone : x.run = r
  BY DEF IsWork, Writes, RowsOf
<1> QED
  BY <1>1, <1>2 DEF RightWork, Fresh

LEMMA WorkAfterRead ==
  ASSUME WorkInv, NEW w \in Workers, work[w].at # "idle", NEW gone, NEW rows,
         \A x \in gone : x.run = work[w].run,
         AreRows(rows, request[work[w].run], entries)
  PROVE  RightWork([at |-> "working", run |-> work[w].run, gone |-> gone, rows |-> rows],
                   status, request, entries)
<1> DEFINE t == [at |-> "working", run |-> work[w].run, gone |-> gone, rows |-> rows]
<1>1. IsWork(t) /\ t.run = work[w].run /\ t.gone = gone /\ t.rows = rows /\ t.at = "working"
  BY DEF IsWork
<1>2. work[w].run \in Runs /\ status[work[w].run] # "none"
  BY DEF WorkInv, RightWork
<1> HIDE DEF t
<1>3. RightWork(t, status, request, entries)
  BY <1>1, <1>2 DEF RightWork
<1> QED
  BY <1>3 DEF t

LEMMA WorkAfterDelete ==
  ASSUME WorkInv, NEW w \in Workers, work[w].at = "working", NEW crossed, NEW old,
         request[work[w].run].direction = "internal_to_reference"
  PROVE  RightWork([at |-> "replacing", run |-> work[w].run, gone |-> work[w].gone,
                    rows |-> work[w].rows, crossed |-> crossed, old |-> old],
                   status, request, entries)
<1> DEFINE t == [at |-> "replacing", run |-> work[w].run, gone |-> work[w].gone,
                 rows |-> work[w].rows, crossed |-> crossed, old |-> old]
<1>1. /\ IsWork(t) /\ t.run = work[w].run /\ t.gone = work[w].gone /\ t.rows = work[w].rows
      /\ t.at = "replacing"
  BY DEF IsWork
<1>2. /\ work[w].run \in Runs /\ status[work[w].run] # "none"
      /\ \A x \in work[w].gone : x.run = work[w].run
      /\ AreRows(work[w].rows, request[work[w].run], entries)
  BY DEF WorkInv, RightWork, Writes
<1> HIDE DEF t
<1>3. RightWork(t, status, request, entries)
  BY <1>1, <1>2 DEF RightWork
<1> QED
  BY <1>3 DEF t

LEMMA WorkAfterFailure ==
  ASSUME WorkInv, NEW w \in Workers, work[w].at # "idle"
  PROVE  RightWork([at |-> "failing", run |-> work[w].run, gone |-> RowsOf(work[w].run)],
                   status, request, entries)
<1> DEFINE t == [at |-> "failing", run |-> work[w].run, gone |-> RowsOf(work[w].run)]
<1>1. /\ IsWork(t) /\ t.run = work[w].run /\ ~Writes(t) /\ t.at = "failing"
      /\ \A x \in t.gone : x.run = work[w].run
  BY DEF IsWork, Writes, RowsOf
<1>2. work[w].run \in Runs /\ status[work[w].run] # "none"
  BY DEF WorkInv, RightWork
<1> HIDE DEF t
<1>3. RightWork(t, status, request, entries)
  BY <1>1, <1>2 DEF RightWork
<1> QED
  BY <1>3 DEF t

LEMMA WorkIsRight ==
  ASSUME RunsInv, DataInv, WorkInv, [Next]_vars
  PROVE  WorkInv'
<1>1. Kept
  BY RunsAreKept
<1>2. ASSUME NEW w \in Workers, NEW r \in Runs, Take(w, r) PROVE WorkInv'
  <2>1. work' = [work EXCEPT ![w] = [at |-> "started", run |-> r, gone |-> RowsOf(r)]]
    BY <1>2 DEF Take
  <2>2. RightWork([at |-> "started", run |-> r, gone |-> RowsOf(r)], status, request, entries)
    BY <1>2, WorkAfterTake
  <2> QED
    BY <1>1, <2>1, <2>2, ChangedWorkIsRight
<1>3. ASSUME NEW w \in Workers, ReadTargets(w) PROVE WorkInv'
  <2> DEFINE r == work[w].run
             q == request[r]
             rows == {TargetRow(q, t) : t \in GroupTargets(q) \cup LexemeTargets(q)}
  <2>1. /\ work[w].at # "idle" /\ q.direction = "internal_to_reference"
        /\ work' = [work EXCEPT ![w] = [at |-> "working", run |-> r, gone |-> RowsOf(r), rows |-> rows]]
    BY <1>3 DEF ReadTargets
  <2>2. AreRows(rows, q, entries)
    BY <2>1, TargetRowsAreRows
  <2>3. \A x \in RowsOf(r) : x.run = work[w].run
    BY DEF RowsOf
  <2> HIDE DEF rows
  <2>4. RightWork([at |-> "working", run |-> r, gone |-> RowsOf(r), rows |-> rows],
                  status, request, entries)
    BY <2>1, <2>2, <2>3, WorkAfterRead
  <2> QED
    BY <1>1, <2>1, <2>4, ChangedWorkIsRight
<1>4. ASSUME NEW w \in Workers, ReadEntries(w) PROVE WorkInv'
  <2> DEFINE r == work[w].run
             q == request[r]
             rows == {EntryRow(q, e) : e \in {x \in entries : SourceOf[x] = q.source}}
  <2>1. /\ work[w].at # "idle" /\ q.direction = "source_to_internal"
        /\ work' = [work EXCEPT ![w] = [at |-> "working", run |-> r, gone |-> work[w].gone, rows |-> rows]]
    BY <1>4 DEF ReadEntries
  <2>2. AreRows(rows, q, entries)
    BY <2>1, EntryRowsAreRows
  <2>3. \A x \in work[w].gone : x.run = work[w].run
    BY <2>1 DEF WorkInv, RightWork
  <2> HIDE DEF rows
  <2>4. RightWork([at |-> "working", run |-> r, gone |-> work[w].gone, rows |-> rows],
                  status, request, entries)
    BY <2>1, <2>2, <2>3, WorkAfterRead
  <2> QED
    BY <1>1, <2>1, <2>4, ChangedWorkIsRight
<1>5. ASSUME NEW w \in Workers, DeleteMatches(w) PROVE WorkInv'
  <2> DEFINE old == {m \in matches : \E row \in work[w].rows : row.target = m.target}
             t   == [at |-> "replacing", run |-> work[w].run, gone |-> work[w].gone,
                     rows |-> work[w].rows, crossed |-> {}, old |-> old]
  <2>1. /\ work[w].at = "working" /\ request[work[w].run].direction = "internal_to_reference"
        /\ work' = [work EXCEPT ![w] = t]
    BY <1>5 DEF DeleteMatches
  <2> HIDE DEF old
  <2>2. RightWork(t, status, request, entries)
    BY <2>1, WorkAfterDelete
  <2> QED
    BY <1>1, <2>1, <2>2, ChangedWorkIsRight
<1>6. ASSUME NEW w \in Workers, CompleteEntries(w) \/ CompleteTargets(w) PROVE WorkInv'
  BY <1>1, <1>6, CompletedWorkIsRight DEF CompleteEntries, CompleteTargets
<1>7. ASSUME NEW w \in Workers, FailRun(w) PROVE WorkInv'
  <2>1. /\ work[w].at # "idle"
        /\ work' = [work EXCEPT ![w] = [at |-> "failing", run |-> work[w].run,
                                        gone |-> RowsOf(work[w].run)]]
    BY <1>7 DEF FailRun
  <2>2. RightWork([at |-> "failing", run |-> work[w].run, gone |-> RowsOf(work[w].run)],
                  status, request, entries)
    BY <2>1, WorkAfterFailure
  <2> QED
    BY <1>1, <2>1, <2>2, ChangedWorkIsRight
<1>8. ASSUME NEW w \in Workers, WriteFailure(w) \/ KillWorker(w) PROVE WorkInv'
  <2>1. work' = [work EXCEPT ![w] = NoWork]
    BY <1>8 DEF WriteFailure, KillWorker
  <2> QED
    BY <1>1, <2>1, NoWorkIsRight, ChangedWorkIsRight
<1>9. ASSUME NEW r \in Runs, Request(r) \/ LoseMessage(r) \/ DuplicateMessage(r) \/ Sweep(r)
      PROVE  UNCHANGED work
  BY <1>9 DEF Request, CreateRun, RetryRun, AddRun, LoseMessage, DuplicateMessage, Sweep, SweepRead,
              SweepSkip, SweepFail, SweepRetry
<1>10. ASSUME \/ \E e \in Entries : ImportEntry(e)
              \/ \E w \in Words : IngestWord(w)
              \/ \E l \in Lexemes : CurateLexeme(l)
              \/ UNCHANGED vars
       PROVE  UNCHANGED work
  BY <1>10 DEF ImportEntry, IngestWord, CurateLexeme, Change, vars
<1> QED
  BY <1>1, <1>2, <1>3, <1>4, <1>5, <1>6, <1>7, <1>8, <1>9, <1>10, UnchangedWorkIsRight DEF Next, Work

-------------------------------------------------------------------------------
(* The results and the counts. *)

\* A run that completes replaces all its rows, and no others.
LEMMA CompletedRows ==
  ASSUME WorkInv, NEW w \in Workers, Writes(work[w]), ~ResultsCollide(w), Complete(w),
         NEW r, r = work[w].run
  PROVE  /\ Rows(r)' = work[w].rows
         /\ RowsOf(r)' = {[run |-> r, row |-> x] : x \in work[w].rows}
         /\ \A s : s # r => RowsOf(s)' = RowsOf(s) /\ Rows(s)' = Rows(s)
<1> DEFINE new == {[run |-> r, row |-> x] : x \in work[w].rows}
<1>1. results' = (results \ work[w].gone) \cup new
  BY DEF Complete
<1>2. \A x \in work[w].gone : x.run = r
  BY DEF WorkInv, RightWork, Writes
<1>3. \A x \in RowsOf(r) : x \in work[w].gone
  BY DEF ResultsCollide
<1>4. \A x \in new : x.run = r /\ x.row \in work[w].rows
  OBVIOUS
<1>5. ASSUME NEW x \in work[w].rows PROVE \E y \in new : y.row = x
  <2>1. [run |-> r, row |-> x] \in new /\ [run |-> r, row |-> x].row = x
    OBVIOUS
  <2> QED
    BY <2>1
<1> HIDE DEF new
<1>6. RowsOf(r)' = new
  BY <1>1, <1>3, <1>4 DEF RowsOf
<1>7. {x.row : x \in new} = work[w].rows
  BY <1>4, <1>5
<1>8. ASSUME NEW s, s # r PROVE RowsOf(s)' = RowsOf(s)
  BY <1>1, <1>2, <1>4, <1>8 DEF RowsOf
<1>9. Rows(r)' = work[w].rows
  BY <1>6, <1>7 DEF Rows
<1>10. \A s : s # r => RowsOf(s)' = RowsOf(s) /\ Rows(s)' = Rows(s)
  BY <1>8 DEF Rows
<1> QED
  BY <1>6, <1>9, <1>10 DEF new

LEMMA CompletedRowsAreStored ==
  ASSUME RunsInv, WorkInv, ResultsInv, NEW w \in Workers, Writes(work[w]), Complete(w)
  PROVE  results' \subseteq StoredRows
<1>1. results' = (results \ work[w].gone) \cup {[run |-> work[w].run, row |-> x] : x \in work[w].rows}
  BY DEF Complete
<1>2. work[w].run \in Runs /\ AreRows(work[w].rows, request[work[w].run], entries)
  BY DEF WorkInv, RightWork, Writes
<1>3. \A x \in work[w].rows : x \in ResultRows
  BY <1>2 DEF AreRows, IsRow, ResultRows
<1>4. \A x \in work[w].rows : [run |-> work[w].run, row |-> x] \in StoredRows
  BY <1>2, <1>3 DEF StoredRows
<1> QED
  BY <1>1, <1>4 DEF ResultsInv

LEMMA FewerRowsAreRight ==
  ASSUME RunsInv, CountsInv, ResultsInv, Kept, results' \subseteq results
  PROVE  ResultsInv'
<1>1. ASSUME NEW r \in Runs PROVE AreRows(Rows(r)', request'[r], entries')
  <2>1. Rows(r)' \subseteq Rows(r)
    BY DEF Rows, RowsOf
  <2>2. CASE Fresh(r)
    <3>1. RowsOf(r) = {}
      BY <2>2 DEF CountsInv, Fresh
    <3>2. Rows(r)' = {}
      BY <2>1, <3>1 DEF Rows
    <3> QED
      BY <3>2 DEF AreRows, OnePerTarget
  <2>3. CASE ~Fresh(r)
    <3>1. request'[r] = request[r] /\ AreRows(Rows(r), request[r], entries)
      BY <2>3 DEF Kept, ResultsInv
    <3> HIDE DEF Rows
    <3>2. AreRows(Rows(r)', request[r], entries)
      BY <2>1, <3>1 DEF AreRows, OnePerTarget
    <3> QED
      BY <3>1, <3>2, KnownRowsStay DEF Kept
  <2> QED
    BY <2>2, <2>3
<1>2. results' \subseteq StoredRows
  BY DEF ResultsInv
<1> QED
  BY <1>1, <1>2 DEF ResultsInv

LEMMA ResultsAreRight ==
  ASSUME RunsInv, WorkInv, CountsInv, ResultsInv, [Next]_vars
  PROVE  ResultsInv'
<1>1. Kept
  BY RunsAreKept
<1>2. ASSUME NEW w \in Workers, CompleteEntries(w) \/ CompleteTargets(w) PROVE ResultsInv'
  <2>1. Writes(work[w]) /\ ~ResultsCollide(w) /\ Complete(w)
    BY <1>2 DEF CompleteEntries, CompleteTargets, Writes
  <2>2. \A r : /\ r = work[w].run => Rows(r)' = work[w].rows
               /\ r # work[w].run => RowsOf(r)' = RowsOf(r) /\ Rows(r)' = Rows(r)
    BY <2>1, CompletedRows
  <2>3. AreRows(work[w].rows, request[work[w].run], entries)
    BY <2>1 DEF WorkInv, RightWork
  <2>4. request' = request
    BY <2>1 DEF Complete
  <2>5. ASSUME NEW r \in Runs PROVE AreRows(Rows(r)', request'[r], entries')
    <3>1. CASE r = work[w].run
      BY <1>1, <2>2, <2>3, <2>4, <3>1, KnownRowsStay DEF Kept
    <3>2. CASE r # work[w].run
      <4>1. AreRows(Rows(r), request[r], entries)
        BY DEF ResultsInv
      <4>2. Rows(r)' = Rows(r)
        BY <2>2, <3>2
      <4> QED
        BY <1>1, <2>4, <4>1, <4>2, KnownRowsStay DEF Kept
    <3> QED
      BY <3>1, <3>2
  <2>6. results' \subseteq StoredRows
    BY <2>1, CompletedRowsAreStored
  <2> QED
    BY <2>5, <2>6 DEF ResultsInv
<1>3. ASSUME NEW w \in Workers, WriteFailure(w) PROVE results' \subseteq results
  BY <1>3 DEF WriteFailure
<1>4. ASSUME NEW r \in Runs, Request(r) PROVE results' \subseteq results
  BY <1>4 DEF Request, CreateRun, RetryRun, AddRun, rowVars
<1>5. ASSUME NEW r \in Runs, LoseMessage(r) \/ DuplicateMessage(r) \/ Sweep(r) PROVE results' \subseteq results
  BY <1>5 DEF LoseMessage, DuplicateMessage, Sweep, SweepRead, SweepSkip, SweepFail, SweepRetry, rowVars
<1>6. ASSUME \/ \E w \in Workers : \/ \E r \in Runs : Take(w, r)
                                  \/ ReadTargets(w) \/ ReadEntries(w) \/ DeleteMatches(w)
                                  \/ FailRun(w) \/ KillWorker(w)
             \/ \E e \in Entries : ImportEntry(e)
             \/ \E w \in Words : IngestWord(w)
             \/ \E l \in Lexemes : CurateLexeme(l)
             \/ UNCHANGED vars
      PROVE  results' \subseteq results
  BY <1>6 DEF Take, ReadTargets, ReadEntries, DeleteMatches, FailRun, KillWorker, ImportEntry,
              IngestWord, CurateLexeme, Change, rowVars, vars
<1> QED
  BY <1>1, <1>2, <1>3, <1>4, <1>5, <1>6, FewerRowsAreRight DEF Next, Work

\* A worker is no nearer to failing a run than before, or has just read its rows.
LEMMA CountsStay ==
  ASSUME CountsInv, UNCHANGED <<status, stats, results, raced>>, sweeping' \subseteq sweeping,
         \A v \in Workers : work'[v].at = "failing" =>
             work'[v] = work[v] \/ work'[v].gone = RowsOf(work'[v].run)
  PROVE  CountsInv'
<1>1. \A r : RowsOf(r)' = RowsOf(r) /\ Rows(r)' = Rows(r)
  BY DEF Rows, RowsOf
<1>2. \A r \in Runs : /\ status'[r] = "completed" => stats'[r] = StatsOf(Rows(r)')
                      /\ RowsOf(r)' # {} => status'[r] = "completed" \/ (status'[r] = "failed" /\ r \in raced')
                      /\ r \in sweeping' /\ RowsOf(r)' # {} => r \in raced'
  BY <1>1 DEF CountsInv
<1>3. ASSUME NEW v \in Workers, work'[v].at = "failing"
      PROVE  RowsOf(work'[v].run) \subseteq work'[v].gone \/ work'[v].run \in raced
  BY <1>3 DEF CountsInv
<1>4. ASSUME NEW v \in Workers, work'[v].at = "failing"
      PROVE  RowsOf(work[v].run)' \subseteq work'[v].gone \/ work'[v].run \in raced'
  <2>1. RowsOf(work[v].run)' = RowsOf(work'[v].run)
    BY DEF RowsOf
  <2> QED
    BY <1>3, <1>4, <2>1
<1> QED
  BY <1>2, <1>4 DEF CountsInv

LEMMA CountsAfterRequest ==
  ASSUME RunsInv, CountsInv, NEW r \in Runs, Request(r)
  PROVE  CountsInv'
<1>1. Fresh(r) /\ sweeping' = sweeping
  BY RequestedRun
<1>2. /\ \E s \in {"queued", "failed"} : status' = [status EXCEPT ![r] = s]
      /\ UNCHANGED <<stats, results, work, raced>>
  BY DEF Request, CreateRun, RetryRun, AddRun, rowVars
<1>3. \A x : RowsOf(x)' = RowsOf(x) /\ Rows(x)' = Rows(x)
  BY <1>2 DEF Rows, RowsOf
<1>4. RowsOf(r) = {}
  BY <1>1 DEF CountsInv, Fresh
<1>5. \A x \in Runs : x # r => status'[x] = status[x]
  BY <1>2 DEF RunsInv
<1>6. status'[r] # "completed"
  BY <1>2 DEF RunsInv
<1>7. ASSUME NEW x \in Runs
      PROVE  /\ status'[x] = "completed" => stats'[x] = StatsOf(Rows(x)')
             /\ RowsOf(x)' # {} => status'[x] = "completed" \/ (status'[x] = "failed" /\ x \in raced')
             /\ x \in sweeping' /\ RowsOf(x)' # {} => x \in raced'
  <2>1. CASE x = r
    BY <1>1, <1>3, <1>4, <1>6, <2>1
  <2>2. CASE x # r
    BY <1>1, <1>2, <1>3, <1>5, <2>2 DEF CountsInv
  <2> QED
    BY <2>1, <2>2
<1>8. ASSUME NEW v \in Workers, work'[v].at = "failing"
      PROVE  RowsOf(work[v].run)' \subseteq work'[v].gone \/ work'[v].run \in raced'
  BY <1>2, <1>3, <1>8 DEF CountsInv
<1> QED
  BY <1>7, <1>8 DEF CountsInv

\* A run that completes while something is about to fail it is raced.
LEMMA CountsAfterCompletion ==
  ASSUME RunsInv, WorkInv, CountsInv, NEW w \in Workers, Writes(work[w]), ~ResultsCollide(w),
         Complete(w)
  PROVE  CountsInv'
<1>1. \A r : /\ r = work[w].run => Rows(r)' = work[w].rows
             /\ r # work[w].run => RowsOf(r)' = RowsOf(r) /\ Rows(r)' = Rows(r)
  BY CompletedRows
<1>2. /\ work[w].run \in Runs /\ ~Fresh(work[w].run)
      /\ stats'[work[w].run] = StatsOf(work[w].rows)
      /\ \A r \in Runs : r # work[w].run => stats'[r] = stats[r]
  BY CompletedStats
<1>3. /\ status'[work[w].run] = "completed"
      /\ \A r \in Runs : r # work[w].run => status'[r] = status[r]
  BY <1>2 DEF Complete, RunsInv
<1>4. /\ sweeping' = sweeping
      /\ work[w].run \in sweeping => work[w].run \in raced'
      /\ \A v \in Workers : work[v].run = work[w].run /\ work[v].at = "failing" => work[w].run \in raced'
      /\ \A r : r # work[w].run => (r \in raced' <=> r \in raced)
  BY DEF Complete
<1>5. ASSUME NEW r \in Runs
      PROVE  /\ status'[r] = "completed" => stats'[r] = StatsOf(Rows(r)')
             /\ RowsOf(r)' # {} => status'[r] = "completed" \/ (status'[r] = "failed" /\ r \in raced')
             /\ r \in sweeping' /\ RowsOf(r)' # {} => r \in raced'
  <2>1. CASE r = work[w].run
    BY <1>1, <1>2, <1>3, <1>4, <2>1
  <2>2. CASE r # work[w].run
    BY <1>1, <1>2, <1>3, <1>4, <2>2 DEF CountsInv
  <2> QED
    BY <2>1, <2>2
<1>6. ASSUME NEW v \in Workers, work'[v].at = "failing" PROVE work'[v] = work[v]
  <2>1. work'[v] = IF v = w THEN NoWork
                   ELSE IF work[v].at = "replacing"
                        THEN [work[v] EXCEPT !.crossed = @ \cup {row.target : row \in work[w].rows}]
                        ELSE work[v]
    BY DEF Complete
  <2>2. CASE v = w
    BY <1>6, <2>1, <2>2 DEF NoWork
  <2>3. CASE v # w /\ work[v].at = "replacing"
    <3>1. [work[v] EXCEPT !.crossed = @ \cup {row.target : row \in work[w].rows}].at = work[v].at
      BY <2>3 DEF WorkInv, RightWork, IsWork, NoWork
    <3> QED
      BY <1>6, <2>1, <2>3, <3>1
  <2> QED
    BY <2>1, <2>2, <2>3
<1>7. ASSUME NEW v \in Workers, NEW r, work'[v].at = "failing", r = work'[v].run
      PROVE  RowsOf(r)' \subseteq work'[v].gone \/ r \in raced'
  <2>1. work[v].at = "failing" /\ work[v].run = r /\ work'[v].gone = work[v].gone
    BY <1>6, <1>7
  <2>2. CASE r = work[w].run
    BY <1>4, <2>1, <2>2
  <2>3. CASE r # work[w].run
    <3>1. RowsOf(r) \subseteq work[v].gone \/ r \in raced
      BY <2>1 DEF CountsInv
    <3> QED
      BY <1>1, <1>4, <2>1, <2>3, <3>1
  <2> QED
    BY <2>2, <2>3
<1>8. \A v \in Workers : work'[v].at = "failing" =>
          RowsOf(work[v].run)' \subseteq work'[v].gone \/ work'[v].run \in raced'
  BY <1>7 DEF RowsOf
<1> QED
  BY <1>5, <1>8 DEF CountsInv

LEMMA CountsAfterFailure ==
  ASSUME RunsInv, WorkInv, CountsInv, NEW w \in Workers, WriteFailure(w)
  PROVE  CountsInv'
<1>1. /\ work[w].at = "failing" /\ status' = [status EXCEPT ![work[w].run] = "failed"]
      /\ results' = results \ work[w].gone /\ UNCHANGED <<stats, sweeping, raced>>
      /\ work' = [work EXCEPT ![w] = NoWork]
  BY DEF WriteFailure
<1>2. work[w].run \in Runs /\ \A x \in work[w].gone : x.run = work[w].run
  BY <1>1 DEF WorkInv, RightWork
<1>3. \A r : RowsOf(r)' \subseteq RowsOf(r) /\ (r # work[w].run => RowsOf(r)' = RowsOf(r))
  BY <1>1, <1>2 DEF RowsOf
<1>4. \A r : r # work[w].run => Rows(r)' = Rows(r)
  BY <1>3 DEF Rows
<1>5. /\ status'[work[w].run] = "failed"
      /\ \A r \in Runs : r # work[w].run => status'[r] = status[r]
  BY <1>1, <1>2 DEF RunsInv
<1>6. ASSUME NEW r, r = work[w].run, RowsOf(r)' # {} PROVE r \in raced
  <2>1. RowsOf(r) \subseteq work[w].gone \/ r \in raced
    BY <1>1, <1>6 DEF CountsInv
  <2>2. RowsOf(r)' = RowsOf(r) \ work[w].gone
    BY <1>1 DEF RowsOf
  <2> QED
    BY <1>6, <2>1, <2>2
<1>7. ASSUME NEW r \in Runs
      PROVE  /\ status'[r] = "completed" => stats'[r] = StatsOf(Rows(r)')
             /\ RowsOf(r)' # {} => status'[r] = "completed" \/ (status'[r] = "failed" /\ r \in raced')
             /\ r \in sweeping' /\ RowsOf(r)' # {} => r \in raced'
  <2>1. CASE r = work[w].run
    BY <1>1, <1>5, <1>6, <2>1
  <2>2. CASE r # work[w].run
    BY <1>1, <1>3, <1>4, <1>5, <2>2 DEF CountsInv
  <2> QED
    BY <2>1, <2>2
<1>8. ASSUME NEW v \in Workers, work'[v].at = "failing" PROVE work'[v] = work[v]
  BY <1>1, <1>8 DEF WorkInv, NoWork
<1>9. ASSUME NEW v \in Workers, NEW r, work'[v].at = "failing", r = work'[v].run
      PROVE  RowsOf(r)' \subseteq work'[v].gone \/ r \in raced'
  <2>1. RowsOf(r) \subseteq work[v].gone \/ r \in raced
    BY <1>8, <1>9 DEF CountsInv
  <2> QED
    BY <1>1, <1>3, <1>8, <1>9, <2>1
<1>10. \A v \in Workers : work'[v].at = "failing" =>
           RowsOf(work[v].run)' \subseteq work'[v].gone \/ work'[v].run \in raced'
  BY <1>9 DEF RowsOf
<1> QED
  BY <1>7, <1>10 DEF CountsInv

\* A run is read as stale while it has no rows; what it stores later is raced.
LEMMA CountsAfterSweep ==
  ASSUME RunsInv, CountsInv, NEW r \in Runs, Sweep(r)
  PROVE  CountsInv'
<1>1. UNCHANGED <<stats, work, raced>> /\ results' \subseteq results
  BY DEF Sweep, SweepRead, SweepSkip, SweepFail, SweepRetry, rowVars, runVars
<1>2. results' = results
  <2>1. CASE SweepRead(r)
    <3>1. RowsOf(r) = {}
      BY <2>1 DEF SweepRead, CountsInv
    <3> QED
      BY <2>1, <3>1 DEF SweepRead
  <2> QED
    BY <2>1 DEF Sweep, SweepSkip, SweepFail, SweepRetry, rowVars
<1>3. \A x : RowsOf(x)' = RowsOf(x) /\ Rows(x)' = Rows(x)
  BY <1>2 DEF Rows, RowsOf
<1>4. ASSUME NEW x \in Runs
      PROVE  /\ status'[x] = "completed" => stats'[x] = StatsOf(Rows(x)')
             /\ RowsOf(x)' # {} => status'[x] = "completed" \/ (status'[x] = "failed" /\ x \in raced')
             /\ x \in sweeping' /\ RowsOf(x)' # {} => x \in raced'
  <2>1. /\ status[x] = "completed" => stats[x] = StatsOf(Rows(x))
        /\ RowsOf(x) # {} => status[x] = "completed" \/ (status[x] = "failed" /\ x \in raced)
        /\ x \in sweeping /\ RowsOf(x) # {} => x \in raced
    BY DEF CountsInv
  <2>2. CASE SweepRead(r)
    <3>1. RowsOf(r) = {} /\ status' = status /\ sweeping' = sweeping \cup {r}
      BY <2>2 DEF SweepRead, CountsInv, runVars
    <3> QED
      BY <1>1, <1>3, <2>1, <3>1
  <2>3. CASE SweepSkip(r)
    BY <1>1, <1>3, <2>1, <2>3 DEF SweepSkip, runVars
  <2>4. CASE SweepFail(r)
    <3>1. /\ r \in sweeping /\ sweeping' = sweeping \ {r} /\ status'[r] = "failed"
          /\ x # r => status'[x] = status[x]
      BY <2>4 DEF SweepFail, RunsInv
    <3> QED
      BY <1>1, <1>3, <2>1, <3>1
  <2>5. CASE \E y \in Runs, sent \in BOOLEAN : SweepRetry(r, y, sent)
    <3>1. PICK y \in Runs, sent \in BOOLEAN : SweepRetry(r, y, sent)
      BY <2>5
    <3>2. r # y /\ Fresh(y)
      BY <3>1, SweepRetryIsRight DEF SweepRetry
    <3>3. /\ r \in sweeping /\ sweeping' = sweeping \ {r}
          /\ status' = [status EXCEPT ![r] = "failed", ![y] = "queued"]
      BY <3>1 DEF SweepRetry
    <3>4. status'[x] = IF x = y THEN "queued" ELSE IF x = r THEN "failed" ELSE status[x]
      BY <3>2, <3>3 DEF RunsInv
    <3>5. x = y => RowsOf(x) = {}
      BY <2>1, <3>2 DEF Fresh
    <3> QED
      BY <1>1, <1>3, <2>1, <3>3, <3>4, <3>5
  <2> QED
    BY <2>2, <2>3, <2>4, <2>5 DEF Sweep
<1>5. ASSUME NEW v \in Workers, work'[v].at = "failing"
      PROVE  RowsOf(work[v].run)' \subseteq work'[v].gone \/ work'[v].run \in raced'
  BY <1>1, <1>2, <1>5 DEF CountsInv, RowsOf
<1> QED
  BY <1>4, <1>5 DEF CountsInv

LEMMA CountsAreRight ==
  ASSUME RunsInv, WorkInv, CountsInv, [Next]_vars
  PROVE  CountsInv'
<1>1. ASSUME NEW r \in Runs, Request(r) PROVE CountsInv'
  BY <1>1, CountsAfterRequest
<1>2. ASSUME NEW r \in Runs, Sweep(r) PROVE CountsInv'
  BY <1>2, CountsAfterSweep
<1>3. ASSUME NEW w \in Workers, CompleteEntries(w) \/ CompleteTargets(w) PROVE CountsInv'
  <2>1. Writes(work[w]) /\ ~ResultsCollide(w) /\ Complete(w)
    BY <1>3 DEF CompleteEntries, CompleteTargets, Writes
  <2> QED
    BY <2>1, CountsAfterCompletion
<1>4. ASSUME NEW w \in Workers, WriteFailure(w) PROVE CountsInv'
  BY <1>4, CountsAfterFailure
<1>5. ASSUME NEW w \in Workers, NEW t, work' = [work EXCEPT ![w] = t],
             t.at = "failing" => t.gone = RowsOf(t.run),
             UNCHANGED <<status, stats, results, raced, sweeping>>
      PROVE  CountsInv'
  <2>1. \A v \in Workers : work'[v] = IF v = w THEN t ELSE work[v]
    BY <1>5 DEF WorkInv
  <2> QED
    BY <1>5, <2>1, CountsStay
<1>6. ASSUME NEW w \in Workers,
             (\E r \in Runs : Take(w, r)) \/ ReadTargets(w) \/ ReadEntries(w) \/ DeleteMatches(w)
                 \/ KillWorker(w)
      PROVE  CountsInv'
  <2>1. UNCHANGED <<status, stats, results, raced, sweeping>>
    BY <1>6 DEF Take, ReadTargets, ReadEntries, DeleteMatches, KillWorker, runVars, rowVars
  <2>2. CASE \E r \in Runs : Take(w, r)
    <3>1. PICK r \in Runs : Take(w, r)
      BY <2>2
    <3> DEFINE t == [at |-> "started", run |-> r, gone |-> RowsOf(r)]
    <3>2. work' = [work EXCEPT ![w] = t] /\ t.at = "started"
      BY <3>1 DEF Take
    <3> HIDE DEF t
    <3> QED
      BY <1>5, <2>1, <3>2
  <2>3. CASE ReadTargets(w)
    <3> DEFINE rows == {TargetRow(request[work[w].run], u) :
                          u \in GroupTargets(request[work[w].run]) \cup LexemeTargets(request[work[w].run])}
               t    == [at |-> "working", run |-> work[w].run, gone |-> RowsOf(work[w].run), rows |-> rows]
    <3>1. work' = [work EXCEPT ![w] = t]
      BY <2>3 DEF ReadTargets
    <3> HIDE DEF rows
    <3>2. t.at = "working"
      OBVIOUS
    <3> HIDE DEF t
    <3> QED
      BY <1>5, <2>1, <3>1, <3>2
  <2>4. CASE ReadEntries(w)
    <3> DEFINE rows == {EntryRow(request[work[w].run], e) :
                          e \in {x \in entries : SourceOf[x] = request[work[w].run].source}}
               t    == [at |-> "working", run |-> work[w].run, gone |-> work[w].gone, rows |-> rows]
    <3>1. work' = [work EXCEPT ![w] = t]
      BY <2>4 DEF ReadEntries
    <3> HIDE DEF rows
    <3>2. t.at = "working"
      OBVIOUS
    <3> HIDE DEF t
    <3> QED
      BY <1>5, <2>1, <3>1, <3>2
  <2>5. CASE DeleteMatches(w)
    <3> DEFINE old == {m \in matches : \E row \in work[w].rows : row.target = m.target}
               t   == [at |-> "replacing", run |-> work[w].run, gone |-> work[w].gone,
                       rows |-> work[w].rows, crossed |-> {}, old |-> old]
    <3>1. work' = [work EXCEPT ![w] = t]
      BY <2>5 DEF DeleteMatches
    <3> HIDE DEF old
    <3>2. t.at = "replacing"
      OBVIOUS
    <3> HIDE DEF t
    <3> QED
      BY <1>5, <2>1, <3>1, <3>2
  <2>6. CASE KillWorker(w)
    BY <1>5, <2>1, <2>6 DEF KillWorker, NoWork
  <2> QED
    BY <1>6, <2>2, <2>3, <2>4, <2>5, <2>6
<1>7. ASSUME NEW w \in Workers, FailRun(w) PROVE CountsInv'
  <2> DEFINE t == [at |-> "failing", run |-> work[w].run, gone |-> RowsOf(work[w].run)]
  <2>1. /\ work' = [work EXCEPT ![w] = t] /\ t.gone = RowsOf(t.run)
        /\ UNCHANGED <<status, stats, results, raced, sweeping>>
    BY <1>7 DEF FailRun, runVars, rowVars
  <2> HIDE DEF t
  <2> QED
    BY <1>5, <2>1
<1>8. ASSUME UNCHANGED <<status, stats, results, raced, sweeping, work>> PROVE CountsInv'
  BY <1>8, CountsStay
<1>9. ASSUME NEW r \in Runs, LoseMessage(r) \/ DuplicateMessage(r)
      PROVE  UNCHANGED <<status, stats, results, raced, sweeping, work>>
  BY <1>9 DEF LoseMessage, DuplicateMessage, runVars, rowVars
<1>10. ASSUME \/ \E e \in Entries : ImportEntry(e)
              \/ \E w \in Words : IngestWord(w)
              \/ \E l \in Lexemes : CurateLexeme(l)
              \/ UNCHANGED vars
       PROVE  UNCHANGED <<status, stats, results, raced, sweeping, work>>
  BY <1>10 DEF ImportEntry, IngestWord, CurateLexeme, Change, runVars, rowVars, vars
<1> QED
  BY <1>1, <1>2, <1>3, <1>4, <1>6, <1>7, <1>8, <1>9, <1>10 DEF Next, Work

-------------------------------------------------------------------------------
(* The stored matches. *)

LEMMA NewMatchesAre ==
  ASSUME NEW w
  PROVE  /\ \A m \in NewMatches(w) : \E row \in work[w].rows : \E f \in row.found :
                m = [target |-> row.target, entry |-> f.entry, type |-> f.type]
         /\ \A row \in work[w].rows : \A f \in row.found :
                [target |-> row.target, entry |-> f.entry, type |-> f.type] \in NewMatches(w)
<1>1. ASSUME NEW m \in NewMatches(w)
      PROVE  \E row \in work[w].rows : \E f \in row.found :
                 m = [target |-> row.target, entry |-> f.entry, type |-> f.type]
  <2>1. PICK x \in UNION {{row} \X row.found : row \in work[w].rows} :
             m = [target |-> x[1].target, entry |-> x[2].entry, type |-> x[2].type]
    BY <1>1 DEF NewMatches
  <2>2. x[1] \in work[w].rows /\ x[2] \in x[1].found
    BY <2>1
  <2> QED
    BY <2>1, <2>2
<1>2. ASSUME NEW row \in work[w].rows, NEW f \in row.found
      PROVE  [target |-> row.target, entry |-> f.entry, type |-> f.type] \in NewMatches(w)
  <2>1. <<row, f>> \in UNION {{y} \X y.found : y \in work[w].rows}
    OBVIOUS
  <2>2. <<row, f>>[1] = row /\ <<row, f>>[2] = f
    OBVIOUS
  <2> QED
    BY <2>1, <2>2 DEF NewMatches
<1> QED
  BY <1>1, <1>2

\* The matches of a target a run did not read stay, and those of a target nobody crossed
\* become what the run found.
LEMMA StoredAfterCompletion ==
  ASSUME DataInv, WorkInv, ReplacedInv, NEW w \in Workers, CompleteTargets(w), NEW t \in Targets
  PROVE  /\ (\A row \in work[w].rows : row.target # t) => StoredFor(t)' = StoredFor(t)
         /\ \A row \in work[w].rows :
                row.target = t /\ t \notin work[w].crossed => FoundFor(t)' = row.found
<1>1. work[w].at = "replacing" /\ matches' = (matches \ work[w].old) \cup NewMatches(w)
  BY DEF CompleteTargets
<1>2. /\ \A row \in work[w].rows :
             row.target \notin work[w].crossed => StoredFor(row.target) \subseteq work[w].old
      /\ \A m \in work[w].old : \E row \in work[w].rows : row.target = m.target
  BY <1>1 DEF ReplacedInv
<1>3. /\ \A row \in work[w].rows : row \in TargetRows
      /\ \A a, b \in work[w].rows : a.target = b.target => a = b
  BY <1>1, NewMatchesAreMatches
<1>4. ASSUME \A row \in work[w].rows : row.target # t PROVE StoredFor(t)' = StoredFor(t)
  <2>1. \A m \in NewMatches(w) : m.target # t
    BY <1>4, NewMatchesAre
  <2>2. \A m \in work[w].old : m.target # t
    BY <1>2, <1>4
  <2> QED
    BY <1>1, <2>1, <2>2 DEF StoredFor
<1>5. ASSUME NEW row \in work[w].rows, row.target = t, t \notin work[w].crossed
      PROVE  FoundFor(t)' = row.found
  <2>1. StoredFor(t)' = {m \in NewMatches(w) : m.target = t}
    BY <1>1, <1>2, <1>5 DEF StoredFor
  <2>2. \A f \in row.found : f = [entry |-> f.entry, type |-> f.type]
    BY <1>3 DEF TargetRows
  <2>3. ASSUME NEW m \in NewMatches(w), m.target = t
        PROVE  [entry |-> m.entry, type |-> m.type] \in row.found
    <3>0. PICK x \in work[w].rows : \E f \in x.found :
               m = [target |-> x.target, entry |-> f.entry, type |-> f.type]
      BY NewMatchesAre
    <3>1. PICK f \in x.found : m = [target |-> x.target, entry |-> f.entry, type |-> f.type]
      BY <3>0
    <3>2. m.target = x.target /\ m.entry = f.entry /\ m.type = f.type
      BY <3>1
    <3>3. x = row
      BY <1>3, <1>5, <2>3, <3>2
    <3> QED
      BY <2>2, <3>2, <3>3
  <2>4. ASSUME NEW f \in row.found
        PROVE  \E m \in {n \in NewMatches(w) : n.target = t} : f = [entry |-> m.entry, type |-> m.type]
    <3> DEFINE m == [target |-> row.target, entry |-> f.entry, type |-> f.type]
    <3>1. m \in NewMatches(w)
      BY NewMatchesAre
    <3>2. m.target = t /\ m.entry = f.entry /\ m.type = f.type
      BY <1>5
    <3> HIDE DEF m
    <3> QED
      BY <2>2, <3>1, <3>2
  <2>5. FoundFor(t)' = {[entry |-> m.entry, type |-> m.type] : m \in {n \in NewMatches(w) : n.target = t}}
    BY <2>1 DEF FoundFor
  <2>6. \A f : f \in FoundFor(t)' <=> f \in row.found
    BY <2>3, <2>4, <2>5
  <2>7. /\ \A f \in FoundFor(t)' : f \in row.found
        /\ \A f \in row.found : f \in FoundFor(t)'
    BY <2>6
  <2> HIDE DEF FoundFor
  <2> QED
    BY <2>7
<1> QED
  BY <1>4, <1>5

LEMMA ReplacedStay ==
  ASSUME ReplacedInv, matches' = matches,
         \A v \in Workers : work'[v].at = "replacing" =>
             /\ work[v].at = "replacing" /\ work'[v].rows = work[v].rows /\ work'[v].old = work[v].old
             /\ work[v].crossed \subseteq work'[v].crossed
  PROVE  ReplacedInv'
<1>1. ASSUME NEW v \in Workers, work'[v].at = "replacing"
      PROVE  /\ \A row \in work'[v].rows :
                 row.target \notin work'[v].crossed => StoredFor(row.target)' \subseteq work'[v].old
             /\ \A m \in work'[v].old : \E row \in work'[v].rows : row.target = m.target
  <2>1. /\ \A row \in work[v].rows :
              row.target \notin work[v].crossed => StoredFor(row.target) \subseteq work[v].old
        /\ \A m \in work[v].old : \E row \in work[v].rows : row.target = m.target
    BY <1>1 DEF ReplacedInv
  <2>2. \A t : StoredFor(t)' = StoredFor(t)
    BY DEF StoredFor
  <2> QED
    BY <1>1, <2>1, <2>2
<1> QED
  BY <1>1 DEF ReplacedInv

\* What completing does to the other workers that replace matches.
LEMMA OthersAreCrossed ==
  ASSUME WorkInv, NEW w \in Workers, Complete(w), NEW v \in Workers, work'[v].at = "replacing"
  PROVE  /\ v # w /\ work[v].at = "replacing" /\ work'[v].rows = work[v].rows
         /\ work'[v].old = work[v].old
         /\ work'[v].crossed = work[v].crossed \cup {row.target : row \in work[w].rows}
<1>1. work'[v] = IF v = w THEN NoWork
                 ELSE IF work[v].at = "replacing"
                      THEN [work[v] EXCEPT !.crossed = @ \cup {row.target : row \in work[w].rows}]
                      ELSE work[v]
  BY DEF Complete
<1>2. v # w /\ work[v].at = "replacing"
  BY <1>1 DEF NoWork
<1>3. work[v] = [at |-> "replacing", run |-> work[v].run, gone |-> work[v].gone,
                 rows |-> work[v].rows, crossed |-> work[v].crossed, old |-> work[v].old]
  BY <1>2 DEF WorkInv, RightWork, IsWork, NoWork
<1>4. work'[v] = [work[v] EXCEPT !.crossed = @ \cup {row.target : row \in work[w].rows}]
  BY <1>1, <1>2
<1> QED
  BY <1>2, <1>3, <1>4

LEMMA ReplacedAfterCompletion ==
  ASSUME DataInv, WorkInv, ReplacedInv, NEW w \in Workers, CompleteTargets(w)
  PROVE  ReplacedInv'
<1>1. Complete(w)
  BY DEF CompleteTargets
<1>2. ASSUME NEW v \in Workers, work'[v].at = "replacing"
      PROVE  /\ \A row \in work'[v].rows :
                 row.target \notin work'[v].crossed => StoredFor(row.target)' \subseteq work'[v].old
             /\ \A m \in work'[v].old : \E row \in work'[v].rows : row.target = m.target
  <2>1. /\ work[v].at = "replacing" /\ work'[v].rows = work[v].rows /\ work'[v].old = work[v].old
        /\ work'[v].crossed = work[v].crossed \cup {row.target : row \in work[w].rows}
    BY <1>1, <1>2, OthersAreCrossed
  <2>2. /\ \A row \in work[v].rows :
              row.target \notin work[v].crossed => StoredFor(row.target) \subseteq work[v].old
        /\ \A m \in work[v].old : \E row \in work[v].rows : row.target = m.target
    BY <2>1 DEF ReplacedInv
  <2>3. \A row \in work[v].rows : row.target \in Targets
    BY <2>1, NewMatchesAreMatches DEF TargetRows
  <2>4. ASSUME NEW row \in work[v].rows, row.target \notin work'[v].crossed, NEW t, t = row.target
        PROVE  StoredFor(t)' \subseteq work[v].old
    <3>1. \A x \in work[w].rows : x.target # t
      BY <2>1, <2>4
    <3>2. StoredFor(t)' = StoredFor(t)
      BY <2>3, <2>4, <3>1, StoredAfterCompletion
    <3>3. StoredFor(t) \subseteq work[v].old
      BY <2>1, <2>2, <2>4
    <3> QED
      BY <3>2, <3>3
  <2> QED
    BY <2>1, <2>2, <2>4
<1> QED
  BY <1>2 DEF ReplacedInv

\* A worker that reads the stored matches of its targets deletes all of them.
LEMMA ReplacedAfterDelete ==
  ASSUME WorkInv, ReplacedInv, NEW w \in Workers, DeleteMatches(w)
  PROVE  ReplacedInv'
<1> DEFINE old == {m \in matches : \E row \in work[w].rows : row.target = m.target}
           t   == [at |-> "replacing", run |-> work[w].run, gone |-> work[w].gone,
                   rows |-> work[w].rows, crossed |-> {}, old |-> old]
<1>1. work' = [work EXCEPT ![w] = t] /\ matches' = matches
  BY DEF DeleteMatches, rowVars
<1>2. /\ \A m \in old : \E row \in work[w].rows : row.target = m.target
      /\ \A row \in work[w].rows : StoredFor(row.target) \subseteq old
  BY DEF StoredFor
<1> HIDE DEF old
<1>3. t.rows = work[w].rows /\ t.old = old
  OBVIOUS
<1> HIDE DEF t
<1>4. \A v \in Workers : work'[v] = IF v = w THEN t ELSE work[v]
  BY <1>1 DEF WorkInv
<1>5. \A x : StoredFor(x)' = StoredFor(x)
  BY <1>1 DEF StoredFor
<1>6. ASSUME NEW v \in Workers, work'[v].at = "replacing"
      PROVE  /\ \A row \in work'[v].rows :
                 row.target \notin work'[v].crossed => StoredFor(row.target)' \subseteq work'[v].old
             /\ \A m \in work'[v].old : \E row \in work'[v].rows : row.target = m.target
  <2>1. CASE v = w
    BY <1>2, <1>3, <1>4, <1>5, <2>1
  <2>2. CASE v # w
    BY <1>4, <1>5, <1>6, <2>2 DEF ReplacedInv
  <2> QED
    BY <2>1, <2>2
<1> QED
  BY <1>6 DEF ReplacedInv

LEMMA ReplacedIsRight ==
  ASSUME DataInv, WorkInv, ReplacedInv, [Next]_vars
  PROVE  ReplacedInv'
<1>1. ASSUME NEW w \in Workers, DeleteMatches(w) PROVE ReplacedInv'
  BY <1>1, ReplacedAfterDelete
<1>2. ASSUME NEW w \in Workers, CompleteTargets(w) PROVE ReplacedInv'
  BY <1>2, ReplacedAfterCompletion
<1>3. ASSUME NEW w \in Workers, CompleteEntries(w) PROVE ReplacedInv'
  <2>1. Complete(w) /\ matches' = matches
    BY <1>3 DEF CompleteEntries
  <2>2. \A v \in Workers : work'[v].at = "replacing" =>
            /\ work[v].at = "replacing" /\ work'[v].rows = work[v].rows /\ work'[v].old = work[v].old
            /\ work[v].crossed \subseteq work'[v].crossed
    BY <2>1, OthersAreCrossed
  <2> QED
    BY <2>1, <2>2, ReplacedStay
<1>4. ASSUME NEW w \in Workers, NEW t, work' = [work EXCEPT ![w] = t], t.at # "replacing",
             matches' = matches
      PROVE  ReplacedInv'
  <2>1. \A v \in Workers : work'[v].at = "replacing" => work'[v] = work[v]
    BY <1>4 DEF WorkInv
  <2> QED
    BY <1>4, <2>1, ReplacedStay
<1>5. ASSUME NEW w \in Workers, NEW r \in Runs, Take(w, r) PROVE ReplacedInv'
  <2> DEFINE t == [at |-> "started", run |-> r, gone |-> RowsOf(r)]
  <2>1. work' = [work EXCEPT ![w] = t] /\ matches' = matches /\ t.at # "replacing"
    BY <1>5 DEF Take, rowVars
  <2> HIDE DEF t
  <2> QED
    BY <1>4, <2>1
<1>6. ASSUME NEW w \in Workers, ReadTargets(w) PROVE ReplacedInv'
  <2> DEFINE rows == {TargetRow(request[work[w].run], u) :
                        u \in GroupTargets(request[work[w].run]) \cup LexemeTargets(request[work[w].run])}
             t    == [at |-> "working", run |-> work[w].run, gone |-> RowsOf(work[w].run), rows |-> rows]
  <2>1. work' = [work EXCEPT ![w] = t] /\ matches' = matches
    BY <1>6 DEF ReadTargets, rowVars
  <2> HIDE DEF rows
  <2>2. t.at # "replacing"
    OBVIOUS
  <2> HIDE DEF t
  <2> QED
    BY <1>4, <2>1, <2>2
<1>7. ASSUME NEW w \in Workers, ReadEntries(w) PROVE ReplacedInv'
  <2> DEFINE rows == {EntryRow(request[work[w].run], e) :
                        e \in {x \in entries : SourceOf[x] = request[work[w].run].source}}
             t    == [at |-> "working", run |-> work[w].run, gone |-> work[w].gone, rows |-> rows]
  <2>1. work' = [work EXCEPT ![w] = t] /\ matches' = matches
    BY <1>7 DEF ReadEntries, rowVars
  <2> HIDE DEF rows
  <2>2. t.at # "replacing"
    OBVIOUS
  <2> HIDE DEF t
  <2> QED
    BY <1>4, <2>1, <2>2
<1>8. ASSUME NEW w \in Workers, FailRun(w) PROVE ReplacedInv'
  <2> DEFINE t == [at |-> "failing", run |-> work[w].run, gone |-> RowsOf(work[w].run)]
  <2>1. work' = [work EXCEPT ![w] = t] /\ matches' = matches /\ t.at # "replacing"
    BY <1>8 DEF FailRun, rowVars
  <2> HIDE DEF t
  <2> QED
    BY <1>4, <2>1
<1>9. ASSUME NEW w \in Workers, WriteFailure(w) \/ KillWorker(w) PROVE ReplacedInv'
  <2>1. work' = [work EXCEPT ![w] = NoWork] /\ matches' = matches /\ NoWork.at # "replacing"
    BY <1>9 DEF WriteFailure, KillWorker, rowVars, NoWork
  <2> QED
    BY <1>4, <2>1
<1>10. ASSUME UNCHANGED <<work, matches>> PROVE ReplacedInv'
  BY <1>10, ReplacedStay
<1>11. ASSUME NEW r \in Runs, Request(r) PROVE UNCHANGED <<work, matches>>
  BY <1>11 DEF Request, CreateRun, RetryRun, AddRun, rowVars
<1>12. ASSUME NEW r \in Runs, LoseMessage(r) \/ DuplicateMessage(r) \/ Sweep(r)
       PROVE  UNCHANGED <<work, matches>>
  BY <1>12 DEF LoseMessage, DuplicateMessage, Sweep, SweepRead, SweepSkip, SweepFail, SweepRetry, rowVars
<1>13. ASSUME \/ \E e \in Entries : ImportEntry(e)
              \/ \E w \in Words : IngestWord(w)
              \/ \E l \in Lexemes : CurateLexeme(l)
              \/ UNCHANGED vars
       PROVE  UNCHANGED <<work, matches>>
  BY <1>13 DEF ImportEntry, IngestWord, CurateLexeme, Change, rowVars, vars
<1> QED
  BY <1>1, <1>2, <1>3, <1>5, <1>6, <1>7, <1>8, <1>9, <1>10, <1>11, <1>12, <1>13 DEF Next, Work

\* Rows that go away tell nothing wrong.
LEMMA SavedStay ==
  ASSUME SavedInv, UNCHANGED <<matches, writer, mixed>>, results' \subseteq results
  PROVE  SavedInv'
<1>1. \A t : StoredFor(t)' = StoredFor(t) /\ FoundFor(t)' = FoundFor(t)
  BY DEF StoredFor, FoundFor
<1>2. \A t \in Targets : writer'[t] = NoRun => StoredFor(t)' = {}
  BY <1>1 DEF SavedInv
<1>3. ASSUME NEW t \in Targets \ mixed'
      PROVE  /\ OneKind(FoundFor(t)')
             /\ \A x \in RowsOf(writer[t])' : x.row.target = t => x.row.found = FoundFor(t)'
  <2>1. RowsOf(writer[t])' \subseteq RowsOf(writer[t])
    BY DEF RowsOf
  <2> QED
    BY <1>1, <2>1 DEF SavedInv
<1> QED
  BY <1>2, <1>3 DEF SavedInv, OneKind

LEMMA SavedAfterTargets ==
  ASSUME RunsInv, DataInv, WorkInv, ReplacedInv, SavedInv, NEW w \in Workers, CompleteTargets(w)
  PROVE  SavedInv'
<1>1. /\ work[w].at = "replacing" /\ Writes(work[w]) /\ ~ResultsCollide(w) /\ Complete(w)
      /\ writer' = [t \in Targets |-> IF t \in {row.target : row \in work[w].rows} THEN work[w].run
                                      ELSE writer[t]]
      /\ mixed' = (mixed \ {row.target : row \in work[w].rows})
                    \cup ({row.target : row \in work[w].rows} \cap work[w].crossed)
  BY DEF CompleteTargets, Writes
<1>2. /\ \A row \in work[w].rows : row \in TargetRows /\ OneKind(row.found)
      /\ \A a, b \in work[w].rows : a.target = b.target => a = b
      /\ work[w].run \in Runs
  BY <1>1, NewMatchesAreMatches
<1>3. \A r : /\ r = work[w].run => RowsOf(r)' = {[run |-> r, row |-> x] : x \in work[w].rows}
             /\ r # work[w].run => RowsOf(r)' = RowsOf(r)
  BY <1>1, CompletedRows
<1>4. ASSUME NEW t \in Targets
      PROVE  /\ writer'[t] = NoRun => StoredFor(t)' = {}
             /\ t \notin mixed' => /\ OneKind(FoundFor(t)')
                                   /\ \A r : r = writer'[t] => \A x \in RowsOf(r)' :
                                         x.row.target = t => x.row.found = FoundFor(t)'
  <2>1. CASE \A row \in work[w].rows : row.target # t
    <3>1. StoredFor(t)' = StoredFor(t)
      BY <2>1, StoredAfterCompletion
    <3>2. FoundFor(t)' = FoundFor(t)
      BY <3>1 DEF FoundFor
    <3>3. writer'[t] = writer[t] /\ (t \in mixed' <=> t \in mixed)
      BY <1>1, <2>1
    <3>4. ASSUME NEW r, r = writer[t], t \notin mixed, NEW x \in RowsOf(r)', x.row.target = t
          PROVE  x.row.found = FoundFor(t)
      <4>1. r # work[w].run
        BY <1>3, <2>1, <3>4
      <4> QED
        BY <1>3, <3>4, <4>1 DEF SavedInv
    <3>5. /\ writer[t] = NoRun => StoredFor(t) = {}
          /\ t \notin mixed => OneKind(FoundFor(t))
      BY DEF SavedInv
    <3> QED
      BY <3>1, <3>2, <3>3, <3>4, <3>5
  <2>2. CASE \E row \in work[w].rows : row.target = t
    <3>1. PICK row \in work[w].rows : row.target = t
      BY <2>2
    <3>2. writer'[t] = work[w].run /\ (t \in mixed' <=> t \in work[w].crossed)
      BY <1>1, <3>1
    <3>3. t \notin mixed' => FoundFor(t)' = row.found
      BY <3>1, <3>2, StoredAfterCompletion
    <3>4. ASSUME NEW r, r = work[w].run, NEW x \in RowsOf(r)', x.row.target = t
          PROVE  x.row.found = row.found
      <4>1. PICK y \in work[w].rows : x = [run |-> r, row |-> y]
        BY <1>3, <3>4
      <4>2. x.row = y
        BY <4>1
      <4> QED
        BY <1>2, <3>1, <3>4, <4>2
    <3>5. work[w].run # NoRun /\ OneKind(row.found)
      BY <1>2, RunsAssumption
    <3> QED
      BY <3>2, <3>3, <3>4, <3>5
  <2> QED
    BY <2>1, <2>2
<1>5. \A t \in Targets \ mixed' : \A x \in RowsOf(writer[t])' : x.row.target = t => x.row.found = FoundFor(t)'
  BY <1>4 DEF RowsOf
<1> QED
  BY <1>4, <1>5 DEF SavedInv, OneKind

\* A source-first run stores nothing for a target.
LEMMA SavedAfterEntries ==
  ASSUME RunsInv, DataInv, WorkInv, SavedInv, NEW w \in Workers, CompleteEntries(w)
  PROVE  SavedInv'
<1>1. /\ Writes(work[w]) /\ ~ResultsCollide(w) /\ Complete(w) /\ UNCHANGED <<matches, writer, mixed>>
      /\ request[work[w].run].direction = "source_to_internal"
  BY DEF CompleteEntries, Writes
<1>2. \A r : /\ r = work[w].run => RowsOf(r)' = {[run |-> r, row |-> x] : x \in work[w].rows}
             /\ r # work[w].run => RowsOf(r)' = RowsOf(r)
  BY <1>1, CompletedRows
<1>3. \A row \in work[w].rows : row.target \notin Targets
  <2>1. AreRows(work[w].rows, request[work[w].run], entries)
    BY <1>1 DEF WorkInv, RightWork
  <2>2. \A row \in work[w].rows : row \in EntryRows
    BY <1>1, <2>1 DEF AreRows, IsRow
  <2> QED
    BY <2>2 DEF EntryRows, Targets
<1>4. \A t : StoredFor(t)' = StoredFor(t) /\ FoundFor(t)' = FoundFor(t)
  BY <1>1 DEF StoredFor, FoundFor
<1>5. ASSUME NEW t \in Targets \ mixed, NEW r, r = writer[t], NEW x \in RowsOf(r)', x.row.target = t
      PROVE  x.row.found = FoundFor(t)
  <2>1. CASE r = work[w].run
    <3>1. PICK y \in work[w].rows : x = [run |-> r, row |-> y]
      BY <1>2, <1>5, <2>1
    <3>2. x.row = y
      BY <3>1
    <3> QED
      BY <1>3, <1>5, <3>2
  <2>2. CASE r # work[w].run
    BY <1>2, <1>5, <2>2 DEF SavedInv
  <2> QED
    BY <2>1, <2>2
<1>6. /\ \A t \in Targets : writer'[t] = NoRun => StoredFor(t)' = {}
      /\ \A t \in Targets \ mixed' : OneKind(FoundFor(t)')
  BY <1>1, <1>4 DEF SavedInv
<1>7. \A t \in Targets \ mixed' : \A x \in RowsOf(writer[t])' : x.row.target = t => x.row.found = FoundFor(t)'
  BY <1>1, <1>4, <1>5 DEF RowsOf
<1> QED
  BY <1>6, <1>7 DEF SavedInv, OneKind

LEMMA SavedIsRight ==
  ASSUME RunsInv, DataInv, WorkInv, CountsInv, ReplacedInv, SavedInv, [Next]_vars
  PROVE  SavedInv'
<1>1. ASSUME NEW w \in Workers, CompleteTargets(w) PROVE SavedInv'
  BY <1>1, SavedAfterTargets
<1>2. ASSUME NEW w \in Workers, CompleteEntries(w) PROVE SavedInv'
  BY <1>2, SavedAfterEntries
<1>3. ASSUME NEW r \in Runs, Request(r)
      PROVE  UNCHANGED <<matches, writer, mixed>> /\ results' \subseteq results
  BY <1>3 DEF Request, CreateRun, RetryRun, AddRun, rowVars
<1>4. ASSUME NEW r \in Runs, LoseMessage(r) \/ DuplicateMessage(r) \/ Sweep(r)
      PROVE  UNCHANGED <<matches, writer, mixed>> /\ results' \subseteq results
  BY <1>4 DEF LoseMessage, DuplicateMessage, Sweep, SweepRead, SweepSkip, SweepFail, SweepRetry, rowVars
<1>5. ASSUME \/ \E w \in Workers : \/ \E r \in Runs : Take(w, r)
                                  \/ ReadTargets(w) \/ ReadEntries(w) \/ DeleteMatches(w)
                                  \/ FailRun(w) \/ WriteFailure(w) \/ KillWorker(w)
             \/ \E e \in Entries : ImportEntry(e)
             \/ \E w \in Words : IngestWord(w)
             \/ \E l \in Lexemes : CurateLexeme(l)
             \/ UNCHANGED vars
      PROVE  UNCHANGED <<matches, writer, mixed>> /\ results' \subseteq results
  BY <1>5 DEF Take, ReadTargets, ReadEntries, DeleteMatches, FailRun, WriteFailure, KillWorker,
              ImportEntry, IngestWord, CurateLexeme, Change, rowVars, vars
<1> QED
  BY <1>1, <1>2, <1>3, <1>4, <1>5, SavedStay DEF Next, Work

-------------------------------------------------------------------------------
(* The inductive invariant. *)

LEMMA InitIsRight == Init => IInv
<1> SUFFICES ASSUME Init PROVE IInv
  OBVIOUS
<1>1. RunsInv
  <2>1. NoStats \in StatsRecords
    BY DEF NoStats, StatsRecords
  <2> QED
    BY <2>1 DEF Init, RunsInv, Fresh, Statuses
<1>2. CreatedInv
  BY DEF Init, CreatedInv, Fresh
<1>3. DataInv
  BY BooksAssumption DEF Init, DataInv
<1>4. \A r : RowsOf(r) = {} /\ Rows(r) = {}
  BY DEF Init, RowsOf, Rows
<1>5. ResultsInv
  BY <1>4 DEF Init, ResultsInv, AreRows, OnePerTarget
<1>6. WorkInv
  BY NoWorkIsRight DEF Init, WorkInv
<1>7. \A w \in Workers : work[w].at = "idle"
  BY DEF Init, NoWork
<1>8. CountsInv
  BY <1>4, <1>7 DEF Init, CountsInv
<1>9. ReplacedInv
  BY <1>7 DEF ReplacedInv
<1>10. SavedInv
  <2>1. \A t : StoredFor(t) = {} /\ FoundFor(t) = {}
    BY DEF Init, StoredFor, FoundFor
  <2> QED
    BY <1>4, <2>1 DEF SavedInv, OneKind
<1> QED
  BY <1>1, <1>2, <1>3, <1>5, <1>6, <1>8, <1>9, <1>10 DEF IInv

LEMMA IInvHolds == Spec => []IInv
<1>1. Init => IInv
  BY InitIsRight
<1>2. IInv /\ [Next]_vars => IInv'
  BY RunsAreKept, RunsAreCreatedOnce, DataIsRight, ResultsAreRight, WorkIsRight, CountsAreRight,
     ReplacedIsRight, SavedIsRight DEF IInv
<1> QED
  BY <1>1, <1>2, PTL DEF Spec

-------------------------------------------------------------------------------
(* The theorems. *)

\* The rows, the requests and the transactions of the workers have the shape the code gives
\* them (TypeOK), whatever is delivered twice, killed or swept.
THEOREM MatchingTypeCorrect == Spec => []TypeOK
<1>1. IInv => TypeOK
  <2> SUFFICES ASSUME IInv PROVE TypeOK
    OBVIOUS
  <2>1. /\ status \in [Runs -> Statuses] /\ retryOf \in [Runs -> Runs \cup {NoRun}]
        /\ \A r \in Runs : request[r] \in Requests \cup {NoRequest}
        /\ \A r \in Runs : Fresh(r) <=> request[r] = NoRequest
        /\ broker \subseteq Runs /\ sweeping \subseteq Runs
    BY DEF IInv, RunsInv
  <2>2. created \in Seq(Runs)
    BY DEF IInv, CreatedInv
  <2>3. \A row \in results : row.run \in Runs /\ row.row \in ResultRows
    BY DEF IInv, ResultsInv, StoredRows
  <2>4. /\ matches \subseteq [target : Targets, entry : Entries, type : MatchTypes]
        /\ entries \subseteq Entries /\ books \subseteq Words /\ forms \in [Lexemes -> SUBSET Words]
    BY DEF IInv, DataInv, MatchRows
  <2>5. ASSUME NEW w \in Workers
        PROVE  /\ work[w].at \in {"idle", "started", "working", "replacing", "failing"}
               /\ work[w].at # "idle" => ~Fresh(work[w].run)
               /\ work[w].at \in {"working", "replacing"} => work[w].rows \subseteq ResultRows
    <3>1. RightWork(work[w], status, request, entries)
      BY DEF IInv, WorkInv
    <3>2. work[w].at \in {"idle", "started", "working", "replacing", "failing"}
      BY <3>1 DEF RightWork, IsWork, NoWork
    <3>3. work[w].at # "idle" => ~Fresh(work[w].run)
      BY <3>1 DEF RightWork, Fresh
    <3>4. ASSUME work[w].at \in {"working", "replacing"} PROVE work[w].rows \subseteq ResultRows
      <4>1. AreRows(work[w].rows, request[work[w].run], entries)
        BY <3>1, <3>4 DEF RightWork, Writes
      <4> QED
        BY <4>1 DEF AreRows, IsRow, ResultRows
    <3> QED
      BY <3>2, <3>3, <3>4
  <2> QED
    BY <2>1, <2>2, <2>3, <2>4, <2>5 DEF TypeOK
<1> QED
  BY <1>1, IInvHolds, PTL

\* What is stored for a target is what one run found for it, however the runs overlap,
\* unless another run saved the target between the delete and the save
\* (StoredMatchesOfOneRun).
THEOREM StoredMatchesAreOfOneRun == Spec => []StoredMatchesOfOneRun
<1>1. IInv => StoredMatchesOfOneRun
  <2> SUFFICES ASSUME IInv, NEW t \in Targets \ mixed
               PROVE  LET stored == {[entry |-> m.entry, type |-> m.type] :
                                        m \in {x \in matches : x.target = t}}
                          kept   == {x.row.found : x \in {y \in RowsOf(writer[t]) : y.row.target = t}}
                      IN  /\ writer[t] = NoRun => stored = {}
                          /\ kept # {} => stored \in kept
                          /\ (\E m \in stored : m.type = "fuzzy") => \A m \in stored : m.type = "fuzzy"
    BY DEF StoredMatchesOfOneRun
  <2>1. FoundFor(t) = {[entry |-> m.entry, type |-> m.type] : m \in {x \in matches : x.target = t}}
    BY DEF FoundFor, StoredFor
  <2>2. writer[t] = NoRun => FoundFor(t) = {}
    BY DEF IInv, SavedInv, FoundFor
  <2>3. OneKind(FoundFor(t))
    BY DEF IInv, SavedInv
  <2>4. ASSUME NEW x \in RowsOf(writer[t]), x.row.target = t PROVE x.row.found = FoundFor(t)
    BY <2>4 DEF IInv, SavedInv
  <2> HIDE DEF FoundFor
  <2> QED
    BY <2>1, <2>2, <2>3, <2>4 DEF OneKind
<1> QED
  BY <1>1, IInvHolds, PTL

-------------------------------------------------------------------------------
(* The lists and the counts of a run. *)

LEMMA RowsOfOneRun ==
  ASSUME ResultsInv, NEW r \in Runs
  PROVE  /\ IsFiniteSet(Rows(r)) /\ IsFiniteSet(RowsOf(r))
         /\ Cardinality(RowsOf(r)) = Cardinality(Rows(r))
         /\ AreRows(Rows(r), request[r], entries)
<1>1. AreRows(Rows(r), request[r], entries)
  BY DEF ResultsInv
<1>2. IsFiniteSet(Rows(r))
  BY <1>1, RowsAreFinite
<1> DEFINE f == [y \in Rows(r) |-> [run |-> r, row |-> y]]
<1>3. \A x \in RowsOf(r) : x = [run |-> r, row |-> x.row] /\ x.row \in Rows(r)
  BY DEF ResultsInv, StoredRows, RowsOf, Rows
<1>4. \A y \in Rows(r) : [run |-> r, row |-> y] \in RowsOf(r)
  BY <1>3 DEF Rows
<1>5. f \in [Rows(r) -> RowsOf(r)]
  BY <1>4
<1>6. \A a, b \in Rows(r) : f[a] = f[b] => a = b
  <2>1. \A a \in Rows(r) : f[a].row = a
    OBVIOUS
  <2> QED
    BY <2>1
<1>7. \A x \in RowsOf(r) : \E y \in Rows(r) : f[y] = x
  BY <1>3
<1>8. f \in Bijection(Rows(r), RowsOf(r))
  BY <1>5, <1>6, <1>7, Fun_IsBij
<1>9. ExistsBijection(Rows(r), RowsOf(r))
  BY <1>8 DEF ExistsBijection
<1> QED
  BY <1>1, <1>2, <1>9, FS_Bijection

\* A run shows each of its rows that passes the filter in one of its two lists.
LEMMA ListedRows ==
  ASSUME ResultsInv, NEW r \in Runs, NEW filter
  PROVE  TargetResults(r, filter, "all") \cup EntryResults(r, filter, "any")
           = {row \in Rows(r) : Passes(row, filter)}
<1>1. AreRows(Rows(r), request[r], entries)
  BY DEF ResultsInv
<1>2. TargetResults(r, filter, "all")
        = {row \in Rows(r) : row.target[1] \in {"group", "lexeme"} /\ Passes(row, filter)}
  BY DEF TargetResults, Rows
<1>3. CASE request[r].direction = "source_to_internal"
  <2>1. \A row \in Rows(r) : row.target[1] = "entry"
    BY <1>1, <1>3 DEF AreRows, IsRow, EntryRows
  <2>2. EntryResults(r, filter, "any")
          = {row \in Rows(r) : row.target[1] = "entry" /\ Passes(row, filter)}
    BY <1>3 DEF EntryResults, Rows
  <2> QED
    BY <1>2, <2>1, <2>2
<1>4. CASE request[r].direction # "source_to_internal"
  <2>1. \A row \in Rows(r) : row.target[1] \in {"group", "lexeme"}
    BY <1>1, <1>4 DEF AreRows, IsRow, TargetRows, Targets
  <2>2. EntryResults(r, filter, "any") = {}
    BY <1>4 DEF EntryResults
  <2> QED
    BY <1>2, <2>1, <2>2
<1> QED
  BY <1>3, <1>4

LEMMA BestIsFuzzy ==
  ASSUME NEW found \in SUBSET [entry : Entries, type : MatchTypes]
  PROVE  BestType(found) = "fuzzy" <=> found # {} /\ \A m \in found : m.type = "fuzzy"
<1>1. \A m \in found : m.type \in {"exact", "normalized", "fuzzy"}
  BY DEF MatchTypes
<1> QED
  BY <1>1 DEF BestType

\* The counts of a completed run are those of the rows its lists show, one for each target,
\* and other runs have no rows but when they completed while something failed them
\* (CountsMatchResults).
THEOREM CountsAreThoseOfTheRows == Spec => []CountsMatchResults
<1>1. IInv => CountsMatchResults
  <2> SUFFICES ASSUME IInv, NEW r \in Runs
               PROVE  LET listed(filter) ==
                            TargetResults(r, filter, "all") \cup EntryResults(r, filter, "any") IN
                      IF status[r] = "completed"
                      THEN /\ stats[r].total = Cardinality(RowsOf(r))
                           /\ stats[r].matched = Cardinality(listed("matched"))
                           /\ stats[r].unmatched = Cardinality(listed("unmatched"))
                           /\ stats[r].fuzzy = Cardinality({row \in listed("matched") :
                                 row.target[1] # "entry" /\ \A m \in TargetDetail(row) : m.type = "fuzzy"})
                           /\ \A a, b \in listed("all") : a.target = b.target => a = b
                      ELSE listed("all") # {} => r \in raced /\ status[r] = "failed"
    BY DEF CountsMatchResults
  <2> DEFINE listed(filter) == TargetResults(r, filter, "all") \cup EntryResults(r, filter, "any")
             passed(filter) == {row \in Rows(r) : Passes(row, filter)}
  <2>1. /\ listed("matched") = passed("matched") /\ listed("unmatched") = passed("unmatched")
        /\ listed("all") = passed("all")
    BY ListedRows DEF IInv
  <2>2. /\ passed("matched") = {row \in Rows(r) : IsMatched(row)}
        /\ passed("unmatched") = Rows(r) \ {row \in Rows(r) : IsMatched(row)}
        /\ passed("all") = Rows(r)
    BY DEF Passes
  <2>3. /\ IsFiniteSet(Rows(r)) /\ Cardinality(RowsOf(r)) = Cardinality(Rows(r))
        /\ AreRows(Rows(r), request[r], entries)
    BY RowsOfOneRun DEF IInv
  <2>4. ASSUME status[r] = "completed"
        PROVE  /\ stats[r].total = Cardinality(RowsOf(r))
               /\ stats[r].matched = Cardinality(listed("matched"))
               /\ stats[r].unmatched = Cardinality(listed("unmatched"))
               /\ stats[r].fuzzy = Cardinality({row \in listed("matched") :
                     row.target[1] # "entry" /\ \A m \in TargetDetail(row) : m.type = "fuzzy"})
               /\ \A a, b \in listed("all") : a.target = b.target => a = b
    <3>1. stats[r] = StatsOf(Rows(r))
      BY <2>4 DEF IInv, CountsInv
    <3>2. /\ stats[r].total = Cardinality(Rows(r))
          /\ stats[r].matched = Cardinality({row \in Rows(r) : IsMatched(row)})
          /\ stats[r].unmatched = Cardinality(Rows(r)) - Cardinality({row \in Rows(r) : IsMatched(row)})
          /\ stats[r].fuzzy = Cardinality({row \in Rows(r) : row.target[1] # "entry"
                                                            /\ BestType(row.found) = "fuzzy"})
      BY <3>1 DEF StatsOf
    <3>3. Cardinality(passed("unmatched"))
            = Cardinality(Rows(r)) - Cardinality({row \in Rows(r) : IsMatched(row)})
      <4> DEFINE M == {row \in Rows(r) : IsMatched(row)}
      <4>1. Rows(r) \cap M = M
        OBVIOUS
      <4>2. Cardinality(Rows(r) \ M) = Cardinality(Rows(r)) - Cardinality(Rows(r) \cap M)
        BY <2>3, FS_Difference
      <4> QED
        BY <2>2, <4>1, <4>2
    <3>4. {row \in Rows(r) : row.target[1] # "entry" /\ BestType(row.found) = "fuzzy"}
            = {row \in passed("matched") :
                 row.target[1] # "entry" /\ \A m \in TargetDetail(row) : m.type = "fuzzy"}
      <4>1. ASSUME NEW row \in Rows(r), row.target[1] # "entry"
            PROVE  BestType(row.found) = "fuzzy"
                     <=> IsMatched(row) /\ \A m \in TargetDetail(row) : m.type = "fuzzy"
        <5>1. row \in TargetRows
          BY <2>3, <4>1 DEF AreRows, IsRow, EntryRows
        <5>2. row.found \in SUBSET [entry : Entries, type : MatchTypes]
          BY <5>1 DEF TargetRows
        <5> QED
          BY <4>1, <5>2, BestIsFuzzy DEF IsMatched, TargetDetail
      <4> QED
        BY <2>2, <4>1
    <3>5. \A a, b \in Rows(r) : a.target = b.target => a = b
      BY <2>3 DEF AreRows, OnePerTarget
    <3> HIDE DEF listed, passed
    <3> QED
      BY <2>1, <2>2, <2>3, <3>2, <3>3, <3>4, <3>5
  <2>5. ASSUME status[r] # "completed", listed("all") # {}
        PROVE  r \in raced /\ status[r] = "failed"
    <3>1. RowsOf(r) # {}
      BY <2>1, <2>2, <2>5 DEF Rows
    <3> QED
      BY <2>5, <3>1 DEF IInv, CountsInv
  <2> HIDE DEF listed, passed
  <2>6. IF status[r] = "completed"
        THEN /\ stats[r].total = Cardinality(RowsOf(r))
             /\ stats[r].matched = Cardinality(listed("matched"))
             /\ stats[r].unmatched = Cardinality(listed("unmatched"))
             /\ stats[r].fuzzy = Cardinality({row \in listed("matched") :
                   row.target[1] # "entry" /\ \A m \in TargetDetail(row) : m.type = "fuzzy"})
             /\ \A a, b \in listed("all") : a.target = b.target => a = b
        ELSE listed("all") # {} => r \in raced /\ status[r] = "failed"
    BY <2>4, <2>5
  <2> QED
    BY <2>6 DEF listed
<1> QED
  BY <1>1, IInvHolds, PTL

-------------------------------------------------------------------------------
(* The summaries and the filters. *)

\* The latest source-first rows are rows of known entries, one for each.
LEMMA LatestRows ==
  ASSUME RunsInv, CreatedInv, ResultsInv
  PROVE  /\ \A row \in LatestResults : /\ row \in EntryRows /\ row.target[1] = "entry"
                                       /\ row.target[2] \in entries
                                       /\ row.target = <<"entry", row.target[2]>>
         /\ \A a, b \in LatestResults : a.target = b.target => a = b
         /\ IsFiniteSet(LatestResults)
<1>1. ASSUME NEW x \in SourceFirst
      PROVE  /\ x.run \in Runs /\ x.row \in Rows(x.run) /\ ~Fresh(x.run)
             /\ AreRows(Rows(x.run), request[x.run], entries)
             /\ x.row \in EntryRows /\ x.row.target[2] \in entries
  <2>1. x \in results /\ status[x.run] = "completed"
        /\ request[x.run].direction = "source_to_internal"
    BY DEF SourceFirst
  <2>2. x.run \in Runs /\ x.row \in Rows(x.run) /\ ~Fresh(x.run)
    BY <2>1 DEF ResultsInv, StoredRows, Rows, RowsOf, Fresh
  <2>3. AreRows(Rows(x.run), request[x.run], entries)
    BY <2>2 DEF ResultsInv
  <2>4. IsRow(x.row, request[x.run], entries)
    BY <2>2, <2>3 DEF AreRows
  <2> QED
    BY <2>1, <2>2, <2>3, <2>4 DEF IsRow
<1>2. ASSUME NEW r \in Runs, ~Fresh(r)
      PROVE  CreatedAt(r) \in DOMAIN created /\ created[CreatedAt(r)] = r
  BY <1>2 DEF CreatedInv, CreatedAt
<1>3. \A i \in DOMAIN created : i \in Int
  BY LenProperties DEF CreatedInv
<1>4. ASSUME NEW row \in LatestResults
      PROVE  /\ row \in EntryRows /\ row.target[1] = "entry" /\ row.target[2] \in entries
             /\ row.target = <<"entry", row.target[2]>>
  <2>1. PICK x \in SourceFirst : row = x.row
    BY DEF LatestResults
  <2>2. row \in EntryRows /\ row.target[2] \in entries
    BY <1>1, <2>1
  <2> QED
    BY <2>2 DEF EntryRows
<1>5. ASSUME NEW a \in LatestResults, NEW b \in LatestResults, a.target = b.target
      PROVE  a = b
  <2>1. PICK y \in SourceFirst : /\ a = y.row
                                 /\ \A z \in SourceFirst : z.row.target = y.row.target
                                        => CreatedAt(z.run) <= CreatedAt(y.run)
    BY DEF LatestResults
  <2>2. PICK x \in SourceFirst : /\ b = x.row
                                 /\ \A z \in SourceFirst : z.row.target = x.row.target
                                        => CreatedAt(z.run) <= CreatedAt(x.run)
    BY DEF LatestResults
  <2>3. CreatedAt(y.run) <= CreatedAt(x.run) /\ CreatedAt(x.run) <= CreatedAt(y.run)
    BY <1>5, <2>1, <2>2
  <2>4. /\ y.run \in Runs /\ ~Fresh(y.run) /\ x.run \in Runs /\ ~Fresh(x.run)
    BY <1>1
  <2>5. /\ CreatedAt(y.run) \in Int /\ created[CreatedAt(y.run)] = y.run
        /\ CreatedAt(x.run) \in Int /\ created[CreatedAt(x.run)] = x.run
    BY <1>2, <1>3, <2>4
  <2>6. CreatedAt(y.run) = CreatedAt(x.run)
    BY <2>3, <2>5
  <2>7. y.run = x.run
    BY <2>5, <2>6
  <2>8. y.row \in Rows(y.run) /\ x.row \in Rows(y.run) /\ OnePerTarget(Rows(y.run))
    BY <1>1, <2>7 DEF AreRows
  <2> QED
    BY <1>5, <2>1, <2>2, <2>8 DEF OnePerTarget
<1>6. AreRows(LatestResults, [direction |-> "source_to_internal"], entries)
  BY <1>4, <1>5 DEF AreRows, OnePerTarget, IsRow
<1>7. IsFiniteSet(LatestResults)
  BY <1>6, RowsAreFinite
<1> QED
  BY <1>4, <1>5, <1>7

LEMMA MatchesAreFinite == ASSUME DataInv PROVE IsFiniteSet(matches) /\ IsFiniteSet(entries)
<1>1. IsFiniteSet(MatchTypes)
  <2>1. MatchTypes = ({"exact"} \cup {"normalized"}) \cup {"fuzzy"}
    BY DEF MatchTypes
  <2>2. IsFiniteSet({"exact"}) /\ IsFiniteSet({"normalized"}) /\ IsFiniteSet({"fuzzy"})
    BY FS_Singleton
  <2>3. IsFiniteSet({"exact"} \cup {"normalized"})
    BY <2>2, FS_Union
  <2> QED
    BY <2>1, <2>2, <2>3, FS_Union
<1>2. IsFiniteSet(Entries \X MatchTypes)
  BY <1>1, DataAssumption, FS_Product
<1>3. IsFiniteSet(Targets \X (Entries \X MatchTypes))
  BY <1>2, TargetsAreFinite, FS_Product
<1> DEFINE f == [m \in MatchRows |-> <<m.target, <<m.entry, m.type>>>>]
<1>4. f \in [MatchRows -> Targets \X (Entries \X MatchTypes)]
  BY DEF MatchRows
<1>5. \A a, b \in MatchRows : f[a] = f[b] => a = b
  <2>1. \A a \in MatchRows : a = [target |-> f[a][1], entry |-> f[a][2][1], type |-> f[a][2][2]]
    BY DEF MatchRows
  <2> QED
    BY <2>1
<1>6. f \in Injection(MatchRows, Targets \X (Entries \X MatchTypes))
  BY <1>4, <1>5, Fun_IsInj
<1>7. IsFiniteSet(MatchRows)
  BY <1>3, <1>6, FS_Injection
<1> QED
  BY <1>7, DataAssumption, FS_Subset DEF DataInv

\* A set of these has as many members as 0 exactly when it is empty.
LEMMA NotEmpty ==
  ASSUME NEW S, IsFiniteSet(S), NEW T, T \subseteq S
  PROVE  Cardinality(T) > 0 <=> T # {}
  BY SubsetIsFinite

LEMMA GroupsAreListed ==
  ASSUME IInv, NEW w \in Words
  PROVE  GroupSummary(w) > 0 <=> w \in MatchedGroups
<1> DEFINE matched == {row \in LatestOf({w}) : IsMatched(row)}
           stored  == StoredFor(<<"group", w>>)
           named   == EntriesWith({w})
<1>1. /\ Cardinality(matched) > 0 <=> matched # {}
      /\ Cardinality(stored) > 0 <=> stored # {}
      /\ Cardinality(named) > 0 <=> named # {}
  <2>1. matched \subseteq LatestResults /\ stored \subseteq matches /\ named \subseteq entries
    BY DEF LatestOf, StoredFor, EntriesWith
  <2>2. IsFiniteSet(LatestResults) /\ IsFiniteSet(matches) /\ IsFiniteSet(entries)
    BY LatestRows, MatchesAreFinite DEF IInv
  <2> HIDE DEF matched, stored, named
  <2> QED
    BY <2>1, <2>2, NotEmpty
<1>2. GroupSummary(w) = IF matched # {} THEN Cardinality(matched)
                        ELSE IF stored # {} THEN Cardinality(stored) ELSE Cardinality(named)
  BY DEF GroupSummary
<1>3. matched # {} <=> \E row \in LatestResults : FormOf(row) = w /\ IsMatched(row)
  BY DEF LatestOf
<1>4. named # {} <=> \E e \in entries : NormOf[e] = w
  BY DEF EntriesWith
<1>5. \A row \in LatestResults : FormOf(row) = w => named # {}
  BY <1>4, LatestRows DEF IInv, FormOf
<1>6. w \in MatchedGroups <=>
          \/ \E row \in LatestResults : FormOf(row) = w /\ IsMatched(row)
          \/ stored # {} /\ \A row \in LatestResults : FormOf(row) # w
          \/ \E e \in entries : NormOf[e] = w
  BY DEF MatchedGroups
<1> HIDE DEF matched, stored, named
<1> QED
  BY <1>1, <1>2, <1>3, <1>4, <1>5, <1>6

LEMMA LexemesShowMatches ==
  ASSUME IInv, NEW l \in MatchedLexemes
  PROVE  LexemeSummary(l) > 0
<1> DEFINE latest  == LatestOf(FormsOf(l))
           matched == {row \in latest : IsMatched(row)}
           stored  == StoredFor(<<"lexeme", l>>)
           direct  == IF latest = {} THEN stored ELSE {}
           named   == Cardinality(EntriesWith(FormsOf(l)))
<1>1. /\ Cardinality(matched) > 0 <=> matched # {}
      /\ Cardinality(direct) > 0 <=> direct # {}
  <2>1. matched \subseteq LatestResults /\ direct \subseteq matches
    BY DEF LatestOf, StoredFor
  <2>2. IsFiniteSet(LatestResults) /\ IsFiniteSet(matches)
    BY LatestRows, MatchesAreFinite DEF IInv
  <2> HIDE DEF matched, direct
  <2> QED
    BY <2>1, <2>2, NotEmpty
<1>2. LexemeSummary(l) = IF matched # {} THEN Cardinality(matched)
                         ELSE IF direct # {} THEN Cardinality(direct) ELSE named
  BY DEF LexemeSummary
<1>3. \/ \E row \in LatestResults : IsMatched(row) /\ FormOf(row) \in FormsOf(l)
      \/ stored # {} /\ \A row \in LatestResults : FormOf(row) \notin FormsOf(l)
  BY DEF MatchedLexemes, LexemesWithRows
<1>4. ASSUME NEW row \in LatestResults, IsMatched(row), FormOf(row) \in FormsOf(l)
      PROVE  matched # {}
  BY <1>4 DEF LatestOf
<1>5. ASSUME stored # {}, \A row \in LatestResults : FormOf(row) \notin FormsOf(l)
      PROVE  direct # {}
  <2>1. latest = {}
    BY <1>5 DEF LatestOf
  <2> QED
    BY <1>5, <2>1
<1> HIDE DEF latest, matched, stored, direct, named
<1> QED
  BY <1>1, <1>2, <1>3, <1>4, <1>5

LEMMA MaxWithZero ==
  ASSUME NEW c \in Int
  PROVE  Max({0} \cup {c}) = IF c > 0 THEN c ELSE 0
<1> DEFINE m == IF c > 0 THEN c ELSE 0
<1>2. \A x \in {0} \cup {c} : (\A y \in {0} \cup {c} : x >= y) <=> x = m
  OBVIOUS
<1> QED
  BY <1>2 DEF Max

LEMMA EntriesAreListed ==
  ASSUME IInv, NEW e \in entries
  PROVE  EntrySummary(e) > 0 <=> e \in MatchedEntries
<1> DEFINE latest == {row \in LatestResults : row.target = <<"entry", e>>}
           stored == {m \in matches : m.entry = e}
<1>1. EntrySummary(e) = IF latest # {} THEN Max({0} \cup {row.count : row \in latest})
                        ELSE Cardinality(stored)
  BY DEF EntrySummary
<1>2. Cardinality(stored) > 0 <=> stored # {}
  BY MatchesAreFinite, NotEmpty DEF IInv
<1>3. \A row \in LatestResults : row.target[2] = e <=> row \in latest
  BY LatestRows DEF IInv
<1>4. e \in MatchedEntries <=> \/ \E row \in latest : IsMatched(row)
                               \/ latest = {} /\ stored # {}
  BY <1>3 DEF MatchedEntries
<1>5. CASE latest = {}
  <2> HIDE DEF latest, stored
  <2> QED
    BY <1>1, <1>2, <1>4, <1>5
<1>6. CASE latest # {}
  <2>1. PICK row \in latest : TRUE
    BY <1>6
  <2>2. latest = {row}
    BY <2>1, LatestRows DEF IInv
  <2>3. row.count \in Nat /\ row.target[1] = "entry"
    BY <2>1, LatestRows DEF IInv, EntryRows
  <2>4. IsMatched(row) <=> row.count > 0
    BY <2>3 DEF IsMatched
  <2> HIDE DEF latest, stored
  <2>5. {x.count : x \in latest} = {row.count}
    BY <2>2
  <2>6. EntrySummary(e) = Max({0} \cup {row.count})
    BY <1>1, <1>6, <2>5
  <2>7. EntrySummary(e) = IF row.count > 0 THEN row.count ELSE 0
    BY <2>3, <2>6, MaxWithZero
  <2> QED
    BY <1>4, <1>6, <2>2, <2>3, <2>4, <2>7
<1> QED
  BY <1>5, <1>6

LEMMA SourcesAreCounted ==
  ASSUME IInv, NEW s
  PROVE  SourceCounts(s).unmatched = Cardinality(ListedEntries(s, "unmatched"))
<1> DEFINE all     == {e \in entries : SourceOf[e] = s}
           matched == ListedEntries(s, "matched")
<1>1. IsFiniteSet(all) /\ Cardinality(all) \in Nat
  BY MatchesAreFinite, SubsetIsFinite DEF IInv
<1>2. matched \subseteq all /\ ListedEntries(s, "unmatched") = all \ matched
  BY DEF ListedEntries
<1>3. SourceCounts(s).unmatched = Max({Cardinality(all) - Cardinality(matched), 0})
  BY DEF SourceCounts
<1> HIDE DEF all, matched
<1>4. Cardinality(matched) \in Nat /\ Cardinality(matched) <= Cardinality(all)
  BY <1>1, <1>2, SubsetIsFinite
<1>5. Cardinality(all \ matched) = Cardinality(all) - Cardinality(matched)
  <2>1. all \cap matched = matched
    BY <1>2
  <2> QED
    BY <1>1, <2>1, FS_Difference
<1>6. {Cardinality(all) - Cardinality(matched), 0} = {0} \cup {Cardinality(all) - Cardinality(matched)}
  OBVIOUS
<1>7. Max({Cardinality(all) - Cardinality(matched), 0}) = Cardinality(all) - Cardinality(matched)
  BY <1>1, <1>4, <1>6, MaxWithZero
<1> QED
  BY <1>2, <1>3, <1>5, <1>7

\* The summary shown beside a group, a lexeme, an entry or a word and the filter
\* reference_status agree in every state the runs, the imports and the curation can lead to
\* (ShownAsMatchedIsListed).
THEOREM ShownIsListed == Spec => []ShownAsMatchedIsListed
<1>1. IInv => ShownAsMatchedIsListed
  <2> SUFFICES ASSUME IInv PROVE ShownAsMatchedIsListed
    OBVIOUS
  <2>1. \A w \in Words : GroupSummary(w) > 0 <=> w \in MatchedGroups
    BY GroupsAreListed
  <2>2. \A l \in Lexemes : l \in MatchedLexemes => LexemeSummary(l) > 0
    BY LexemesShowMatches
  <2>3. \A e \in entries : EntrySummary(e) > 0 <=> e \in MatchedEntries
    BY EntriesAreListed
  <2>4. \A s \in {SourceOf[e] : e \in Entries} :
            SourceCounts(s).unmatched = Cardinality(ListedEntries(s, "unmatched"))
    BY SourcesAreCounted
  <2>5. ASSUME NEW w \in books, NEW found \in {{}, {w}}
        PROVE  LET matched   == ListedWords("matched", found, {w} \ found)
                   unmatched == ListedWords("unmatched", found, {w} \ found)
               IN  (ShownMatched(w, found) <=> w \in matched) /\ matched \cap unmatched = {}
    <3>1. GroupSummary(w) > 0 <=> w \in MatchedGroups
      BY <2>1 DEF IInv, DataInv
    <3>2. ListedWords("matched", found, {w} \ found) = {x \in books : x \in MatchedGroups \/ x \in found}
      BY DEF ListedWords
    <3>3. ListedWords("unmatched", found, {w} \ found)
            = {x \in books \cap ({w} \ found) : x \notin MatchedGroups /\ x \notin found}
      BY DEF ListedWords
    <3> QED
      BY <3>1, <3>2, <3>3 DEF ShownMatched
  <2> QED
    BY <2>1, <2>2, <2>3, <2>4, <2>5 DEF ShownAsMatchedIsListed
<1> QED
  BY <1>1, IInvHolds, PTL
===============================================================================
