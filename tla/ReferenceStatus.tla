---------------------------- MODULE ReferenceStatus ----------------------------
(***************************************************************************)
(* How the lists of groups, lexemes, entries and words of a document read  *)
(* what the matching runs store: once as a summary shown beside each row,  *)
(* once as a filter (reference_status = matched | unmatched) in SQL.       *)
(***************************************************************************)
EXTENDS ReferenceMatching

CreatedAt(r) == CHOOSE i \in DOMAIN created : created[i] = r

\* The row of each entry from the completed source-first run that was created last,
\* which need not be the one that ran last.
SourceFirst ==
    {x \in results : status[x.run] = "completed"
                     /\ request[x.run].direction = "source_to_internal"}

LatestResults ==
    {x.row : x \in {y \in SourceFirst :
        \A z \in SourceFirst : z.row.target = y.row.target => CreatedAt(z.run) <= CreatedAt(y.run)}}

FormOf(row)     == NormOf[row.target[2]]
LatestOf(words) == {row \in LatestResults : FormOf(row) \in words}

\* The canonical form and the forms of a lexeme, without repetition.
FormsOf(l) == NamesOf(l)

StoredFor(t) == {m \in matches : m.target = t}
EntriesWith(words) == {e \in entries : NormOf[e] \in words}

-------------------------------------------------------------------------------
(* The summary: the source-first rows, then the stored matches, then the       *)
(* entries themselves.                                                         *)

GroupSummary(w) ==
    LET matched == {row \in LatestOf({w}) : IsMatched(row)} IN
    IF matched # {} THEN Cardinality(matched)
    ELSE IF StoredFor(<<"group", w>>) # {} THEN Cardinality(StoredFor(<<"group", w>>))
    ELSE Cardinality(EntriesWith({w}))

\* The stored matches of a lexeme count only while no source-first row covers a form.
LexemeSummary(l) ==
    LET latest  == LatestOf(FormsOf(l))
        matched == {row \in latest : IsMatched(row)}
        direct  == IF latest = {} THEN StoredFor(<<"lexeme", l>>) ELSE {}
    IN
    IF matched # {} THEN Cardinality(matched)
    ELSE IF direct # {} THEN Cardinality(direct)
    ELSE Cardinality(EntriesWith(FormsOf(l)))

EntrySummary(e) ==
    LET latest == {row \in LatestResults : row.target = <<"entry", e>>} IN
    IF latest # {} THEN Max({0} \cup {row.count : row \in latest})
    ELSE Cardinality({m \in matches : m.entry = e})

-------------------------------------------------------------------------------
(* The filter. *)

\* Mutant of MatchedGroups: no clause for the entries themselves.
MatchedStoredGroups ==
    LET covered == {FormOf(row) : row \in LatestResults} IN
    {FormOf(row) : row \in {x \in LatestResults : IsMatched(x)}}
        \cup {w \in Words \ covered : StoredFor(<<"group", w>>) # {}}

MatchedGroups ==
    LET covered == {FormOf(row) : row \in LatestResults} IN
    {FormOf(row) : row \in {x \in LatestResults : IsMatched(x)}}
        \cup {w \in Words \ covered : StoredFor(<<"group", w>>) # {}}
        \cup {NormOf[e] : e \in entries}

LexemesWithRows(rows) == {l \in Lexemes : \E row \in rows : FormOf(row) \in FormsOf(l)}

\* No clause for the entries themselves.
MatchedLexemes ==
    LET covered == LexemesWithRows(LatestResults) IN
    LexemesWithRows({row \in LatestResults : IsMatched(row)})
        \cup {l \in Lexemes \ covered : StoredFor(<<"lexeme", l>>) # {}}

MatchedEntries ==
    LET covered == {row.target[2] : row \in LatestResults} IN
    {row.target[2] : row \in {x \in LatestResults : IsMatched(x)}}
        \cup {m.entry : m \in {x \in matches : x.entry \notin covered}}

\* The words of a document, with the cached answers of the external provider.
ShownMatched(w, found) == GroupSummary(w) > 0 \/ w \in found

ListedWords(filter, found, notFound) ==
    CASE filter = "matched"   -> {w \in books : w \in MatchedGroups \/ w \in found}
      [] filter = "unmatched" -> {w \in books \cap notFound : w \notin MatchedGroups /\ w \notin found}

ListedEntries(source, filter) ==
    {e \in entries : SourceOf[e] = source /\ (filter = "matched" <=> e \in MatchedEntries)}

-------------------------------------------------------------------------------
(* The lists of a run: its targets, or its entries when it is source-first.    *)

Passes(row, filter) ==
    (filter = "matched" => IsMatched(row)) /\ (filter = "unmatched" => ~IsMatched(row))

TargetResults(r, filter, type) ==
    {x.row : x \in {y \in RowsOf(r) : y.row.target[1] \in (IF type = "all" THEN {"group", "lexeme"}
                                                           ELSE {type}) /\ Passes(y.row, filter)}}

EntryResults(r, filter, scope) ==
    IF request[r].direction # "source_to_internal" THEN {}
    ELSE {x.row : x \in {y \in RowsOf(r) :
            /\ y.row.target[1] = "entry" /\ Passes(y.row, filter)
            /\ scope = "lexicon_only" => y.row.lexemes # {}
            /\ scope = "books_only" => y.row.books > 0}}

\* The stored match list of a target.
TargetDetail(row) == row.found

\* The counts of a source: its entries (entry_count, true here; ReferenceImport shows when
\* it is not), those in the filter and the rest.
SourceCounts(source) ==
    LET total   == Cardinality({e \in entries : SourceOf[e] = source})
        matched == Cardinality(ListedEntries(source, "matched"))
    IN  [total |-> total, matched |-> matched, unmatched |-> Max({total - matched, 0})]

-------------------------------------------------------------------------------
\* "run detail now exposes total_items, matched_items, and unmatched_items" and "every
\* completed source-first matching run now stores one run-result row per imported reference
\* entry examined": whatever was delivered twice, killed, failed and retried, the counts of
\* a completed run are those of the rows its lists show, one for each target, and the other
\* runs have no rows, but for one that completed while a sweep or a failed delivery was
\* about to fail it.
CountsMatchResults ==
    \A r \in Runs :
        LET listed(filter) == TargetResults(r, filter, "all") \cup EntryResults(r, filter, "any") IN
        IF status[r] = "completed"
        THEN /\ stats[r].total = Cardinality(RowsOf(r))
             /\ stats[r].matched = Cardinality(listed("matched"))
             /\ stats[r].unmatched = Cardinality(listed("unmatched"))
             /\ stats[r].fuzzy = Cardinality({row \in listed("matched") :
                   row.target[1] # "entry" /\ \A m \in TargetDetail(row) : m.type = "fuzzy"})
             /\ \A a, b \in listed("all") : a.target = b.target => a = b
        ELSE listed("all") # {} => r \in raced /\ status[r] = "failed"

\* The two readings of the same rows agree: a group, a word of a document or an entry is
\* shown with a match exactly when reference_status=matched lists it (for groups the stored
\* matches of a word whose source-first row is unmatched are read by one and not by the
\* other, and only the entries themselves make up for it), and a lexeme that is listed as
\* matched shows a match, while no word is listed under both filters.
ShownAsMatchedIsListed ==
    /\ \A w \in Words : GroupSummary(w) > 0 <=> w \in MatchedGroups
    /\ \A l \in Lexemes : l \in MatchedLexemes => LexemeSummary(l) > 0
    /\ \A e \in entries : EntrySummary(e) > 0 <=> e \in MatchedEntries
    /\ \A s \in {SourceOf[e] : e \in Entries} :
        SourceCounts(s).unmatched = Cardinality(ListedEntries(s, "unmatched"))
    /\ \A w \in books : \A found \in {{}, {w}} :
        LET matched   == ListedWords("matched", found, {w} \ found)
            unmatched == ListedWords("unmatched", found, {w} \ found)
        IN  (ShownMatched(w, found) <=> w \in matched) /\ matched \cap unmatched = {}
===============================================================================
