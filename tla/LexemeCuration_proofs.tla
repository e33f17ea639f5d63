------------------------- MODULE LexemeCuration_proofs -------------------------
(***************************************************************************)
(* Proofs about LexemeCuration: types, one lexeme for a form, and lists    *)
(* that follow the decisions, for every number of words, documents,        *)
(* processes, requests and repairs.                                        *)
(***************************************************************************)
EXTENDS LexemeCuration, FiniteSetTheorems, TLAPS

-------------------------------------------------------------------------------
(* Types. *)

Kinds == {"link", "ignore", "unignore"}

Occurrences == [doc : Docs, word : Words, lexeme : Lexemes \cup {NoLexeme}]

CheckedRequests ==
    [at : {"checked"}, kind : Kinds, lexeme : Lexemes \cup {NoLexeme}, forms : SUBSET Words,
     new : SUBSET Words, docs : SUBSET Docs,
     stages : UNION {[ds -> Stages] : ds \in SUBSET Docs}, crossed : SUBSET Words]

FlushedRequests ==
    [at : {"flushed"}, kind : Kinds, lexeme : Lexemes \cup {NoLexeme}, forms : SUBSET Words,
     new : SUBSET Words, docs : SUBSET Docs,
     stages : UNION {[ds -> Stages] : ds \in SUBSET Docs},
     linked : SUBSET Occurrences, read : UNION {[ws -> Row \cup {NoRow}] : ws \in SUBSET Words},
     write : UNION {[ws -> Row] : ws \in SUBSET Words}, crossed : SUBSET Words,
     gone : SUBSET Words]

IndexTxns ==
    [kind : {"publish", "clear", "rebuild"}, doc : Docs \cup {CHOOSE d \in Docs : TRUE},
     held : SUBSET Words, crossed : SUBSET Words,
     read : UNION {[ws -> Row \cup {NoRow}] : ws \in SUBSET Words},
     write : UNION {[ws -> Row] : ws \in SUBSET Words}]

\* The decision of a request: the words that get a row of their own are among those it
\* names, and the others it links have the lexeme already.
IsLink(r) == r.kind = "link"

Decision(r) ==
    /\ r.forms # {} /\ r.new \subseteq r.forms
    /\ IsLink(r) => /\ r.lexeme \in Lexemes
                    /\ \A w \in r.forms \ r.new : <<w, r.lexeme>> \in forms

Flushed(r) ==
    /\ DOMAIN r.read = r.forms /\ DOMAIN r.write = r.forms
    /\ \A o \in r.linked : IsLink(r) /\ o.word \in r.forms

TypeInv ==
    /\ TypeOK
    /\ api \in [Apis -> {NoRequest} \cup CheckedRequests \cup FlushedRequests]
    /\ work \in [Workers -> {NoTxn} \cup IndexTxns]
    /\ \A a \in Apis : api[a].at # "idle" => Decision(api[a])
    /\ \A a \in Apis : api[a].at = "flushed" => Flushed(api[a])

\* What an index transaction works on: a publication on the words of a stored document, a
\* clearing on words of a completed one; a rebuild deletes no row of a published word.
Txn(t) ==
    /\ DOMAIN t.read = DOMAIN t.write
    /\ t.kind = "publish" => /\ phase[t.doc] = "stored" /\ t.doc \in Docs
                             /\ DOMAIN t.write = WordsIn(t.doc) /\ t.held = WordsIn(t.doc)
    /\ t.kind = "clear" => /\ phase[t.doc] = "completed" /\ t.doc \in Docs
                           /\ DOMAIN t.write \subseteq WordsIn(t.doc)
    /\ t.kind = "rebuild" => /\ DOMAIN t.write \subseteq t.held
                             /\ (t.held \ DOMAIN t.write) \cap Published = {}

Apart(v, u) ==
    /\ Held(v) \cap Held(u) = {}
    /\ {work[v].kind, work[u].kind} \subseteq {"publish", "clear"} => work[v].doc # work[u].doc

WorkInv ==
    /\ \A v \in Workers : work[v].kind # "idle" => Txn(work[v])
    /\ \A v, u \in Workers : v # u => Apart(v, u)
    /\ \A w \in Published : rows[w] # NoRow


LEMMA StateOfType ==
  ASSUME NEW w, NEW links, NEW reviews
  PROVE  StateOf(w, links, reviews) \in Row
BY DEF StateOf, Row, States

LEMMA StagesType ==
  ASSUME TypeOK, NEW ds \in SUBSET Docs
  PROVE  /\ SyncedStages(ds) \in [Docs -> Stages]
         /\ NewStages(ds) \in UNION {[es -> Stages] : es \in SUBSET Docs}
<1>1. \A ph, counts : ResolveStage(ph, counts) \in Stages
  BY DEF ResolveStage, Stages
<1>2. SyncedStages(ds) \in [Docs -> Stages]
  BY <1>1 DEF SyncedStages, TypeOK
<1> DEFINE es == {x \in ds : SyncedStages(ds)[x] # stage[x]}
<1>3. NewStages(ds) \in [es -> Stages]
  BY <1>2 DEF NewStages
<1>4. es \in SUBSET Docs
  OBVIOUS
<1> QED
  BY <1>2, <1>3, <1>4

LEMMA DocsOfType == ASSUME TypeOK, NEW fs PROVE DocsOf(fs) \in SUBSET Docs
BY DEF TypeOK, DocsOf

LEMMA WordsInType == ASSUME TypeOK, NEW d PROVE WordsIn(d) \in SUBSET Words
BY DEF TypeOK, WordsIn

LEMMA BeginType ==
  ASSUME TypeInv, NEW a \in Apis, NEW kind \in Kinds, NEW l \in Lexemes \cup {NoLexeme},
         NEW fs \in SUBSET Words, NEW new \in SUBSET fs, fs # {},
         kind = "link" => l \in Lexemes /\ \A w \in fs \ new : <<w, l>> \in forms,
         Begin(a, kind, l, fs, new)
  PROVE  TypeInv'
<1> DEFINE r == [at |-> "checked", kind |-> kind, lexeme |-> l, forms |-> fs, new |-> new,
                 docs |-> DocsOf(fs), stages |-> NewStages(DocsOf(fs)), crossed |-> {}]
<1>1. r \in CheckedRequests
  BY StagesType, DocsOfType DEF CheckedRequests, TypeInv
<1>2. Decision(r)
  BY DEF Decision, IsLink
<1>3. api' = [api EXCEPT ![a] = r] /\ r.at = "checked"
  BY DEF Begin
<1>4. UNCHANGED <<decisions, occ, rows, phase, stage, work, crossed>>
  BY DEF Begin
<1> HIDE DEF r
<1>5. TypeOK'
  BY <1>4 DEF TypeInv, TypeOK, decisions
<1> QED
  BY <1>1, <1>2, <1>3, <1>4, <1>5 DEF TypeInv, decisions, Decision, Flushed

\* Whatever ends or marks requests leaves them well-formed.
LEMMA MarkApisType ==
  ASSUME TypeInv, NEW ws \in SUBSET Words, NEW gone \in SUBSET Words, NEW ended
  PROVE  /\ MarkApis(ws, gone, ended) \in [Apis -> {NoRequest} \cup CheckedRequests
                                                              \cup FlushedRequests]
         /\ \A b \in Apis :
              LET r == MarkApis(ws, gone, ended)[b]
              IN  r.at # "idle" =>
                    /\ b \notin ended /\ r.at = api[b].at /\ r.kind = api[b].kind
                    /\ r.lexeme = api[b].lexeme /\ r.forms = api[b].forms
                    /\ r.new = api[b].new /\ r.docs = api[b].docs
                    /\ r.at = "flushed" => /\ r.read = api[b].read /\ r.write = api[b].write
                                           /\ r.linked = api[b].linked
<1> DEFINE m == MarkApis(ws, gone, ended)
<1> SUFFICES ASSUME NEW b \in Apis
             PROVE  /\ m[b] \in {NoRequest} \cup CheckedRequests \cup FlushedRequests
                    /\ m[b].at # "idle" =>
                         /\ b \notin ended /\ m[b].at = api[b].at /\ m[b].kind = api[b].kind
                         /\ m[b].lexeme = api[b].lexeme /\ m[b].forms = api[b].forms
                         /\ m[b].new = api[b].new /\ m[b].docs = api[b].docs
                         /\ m[b].at = "flushed" =>
                                /\ m[b].read = api[b].read /\ m[b].write = api[b].write
                                /\ m[b].linked = api[b].linked
  <2> m = [b \in Apis |-> m[b]]
    BY DEF MarkApis
  <2> QED
    OBVIOUS
<1>1. CASE b \in ended
  BY <1>1 DEF MarkApis, NoRequest
<1>2. CASE b \notin ended /\ api[b] \in FlushedRequests
  <2>1. m[b] = [api[b] EXCEPT !.crossed = @ \cup (ws \cap api[b].forms),
                              !.gone = @ \cup (gone \cap api[b].forms)]
    BY <1>2 DEF MarkApis, FlushedRequests
  <2> QED
    BY <1>2, <2>1 DEF FlushedRequests
<1>3. CASE b \notin ended /\ api[b] \in CheckedRequests
  <2>1. m[b] = IF api[b].docs = {}
               THEN [api[b] EXCEPT !.crossed = @ \cup (ws \cap api[b].forms)] ELSE api[b]
    BY <1>3 DEF MarkApis, CheckedRequests
  <2> QED
    BY <1>3, <2>1 DEF CheckedRequests
<1>4. CASE b \notin ended /\ api[b] = NoRequest
  BY <1>4 DEF MarkApis, NoRequest
<1> QED
  BY <1>1, <1>2, <1>3, <1>4 DEF TypeInv

LEMMA MarkWorkType ==
  ASSUME TypeInv, NEW ws \in SUBSET Words, NEW ended
  PROVE  /\ MarkWork(ws, ended) \in [Workers -> {NoTxn} \cup IndexTxns]
         /\ \A v \in Workers :
              LET t == MarkWork(ws, ended)[v]
              IN  t.kind # "idle" =>
                    /\ v \notin ended /\ t.kind = work[v].kind /\ t.doc = work[v].doc
                    /\ t.held = work[v].held /\ t.read = work[v].read
                    /\ t.write = work[v].write
<1> DEFINE m == MarkWork(ws, ended)
<1> SUFFICES ASSUME NEW v \in Workers
             PROVE  /\ m[v] \in {NoTxn} \cup IndexTxns
                    /\ m[v].kind # "idle" =>
                         /\ v \notin ended /\ m[v].kind = work[v].kind /\ m[v].doc = work[v].doc
                         /\ m[v].held = work[v].held /\ m[v].read = work[v].read
                         /\ m[v].write = work[v].write
  <2> m = [v \in Workers |-> m[v]]
    BY DEF MarkWork
  <2> QED
    OBVIOUS
<1>1. CASE v \in ended
  BY <1>1 DEF MarkWork, NoTxn
<1>2. CASE v \notin ended /\ work[v] \in IndexTxns
  <2>1. m[v] = [work[v] EXCEPT !.crossed = @ \cup ws]
    BY <1>2 DEF MarkWork, IndexTxns
  <2> QED
    BY <1>2, <2>1 DEF IndexTxns
<1>3. CASE v \notin ended /\ work[v] = NoTxn
  BY <1>3 DEF MarkWork, NoTxn
<1> QED
  BY <1>1, <1>2, <1>3 DEF TypeInv

\* A request that flushed or checked has the fields of its state.
LEMMA RequestType ==
  ASSUME TypeInv, NEW a \in Apis
  PROVE  /\ api[a].at = "flushed" => api[a] \in FlushedRequests
         /\ api[a].at = "checked" => api[a] \in CheckedRequests
         /\ api[a].at \in {"idle", "checked", "flushed"}
         /\ api[a].at # "idle" =>
                /\ api[a].kind \in Kinds /\ api[a].lexeme \in Lexemes \cup {NoLexeme}
                /\ api[a].forms \in SUBSET Words /\ api[a].new \in SUBSET Words
                /\ api[a].docs \in SUBSET Docs /\ api[a].crossed \in SUBSET Words
                /\ Decision(api[a])
BY DEF TypeInv, CheckedRequests, FlushedRequests, NoRequest

LEMMA WorkType ==
  ASSUME TypeInv, NEW v \in Workers, work[v].kind # "idle"
  PROVE  work[v] \in IndexTxns
BY DEF TypeInv, NoTxn

LEMMA AfterType ==
  ASSUME TypeInv, NEW a \in Apis, api[a].at # "idle"
  PROVE  /\ LinksAfter(api[a]) \in SUBSET (Words \X (lexemes \cup (IF IsLink(api[a])
                                                     THEN {api[a].lexeme} ELSE {})))
         /\ ReviewsAfter(api[a]) \in SUBSET Words
<1>1. /\ api[a].new \in SUBSET Words /\ api[a].kind \in Kinds
      /\ forms \in SUBSET (Words \X lexemes) /\ ignored \in SUBSET Words
  BY RequestType DEF TypeInv, TypeOK
<1> QED
  BY <1>1 DEF LinksAfter, ReviewsAfter, IsLink, Kinds

LEMMA FlushType ==
  ASSUME TypeInv, NEW a \in Apis, Flush(a)
  PROVE  TypeInv'
<1> DEFINE r       == api[a]
           links   == IF r.docs # {} THEN LinksAfter(r) ELSE forms
           reviews == IF r.docs # {} \/ r.kind = "unignore" THEN ReviewsAfter(r) ELSE ignored
           linked  == {o \in occ : r.kind = "link" /\ o.word \in r.forms}
           read    == [w \in r.forms |-> rows[w]]
           write   == [w \in r.forms |-> StateOf(w, links, reviews)]
           new     == [at |-> "flushed", kind |-> r.kind, lexeme |-> r.lexeme, forms |-> r.forms,
                       new |-> r.new, docs |-> r.docs, stages |-> r.stages, linked |-> linked,
                       read |-> read, write |-> write, crossed |-> r.crossed, gone |-> {}]
<1>1. r \in CheckedRequests /\ Decision(r)
  BY RequestType DEF Flush
<1>2. read \in UNION {[ws -> Row \cup {NoRow}] : ws \in SUBSET Words}
  <2>1. r.forms \in SUBSET Words /\ rows \in [Words -> Row \cup {NoRow}]
    BY <1>1 DEF CheckedRequests, TypeInv, TypeOK
  <2>2. read \in [r.forms -> Row \cup {NoRow}]
    BY <2>1
  <2> QED
    BY <2>1, <2>2
<1>3. write \in UNION {[ws -> Row] : ws \in SUBSET Words}
  <2>1. r.forms \in SUBSET Words
    BY <1>1 DEF CheckedRequests
  <2>2. write \in [r.forms -> Row]
    BY StateOfType
  <2> QED
    BY <2>1, <2>2
<1>4. linked \in SUBSET Occurrences
  BY DEF Occurrences, TypeInv, TypeOK
<1>5. new \in FlushedRequests
  <2> HIDE DEF read, write, linked
  <2> QED
    BY <1>1, <1>2, <1>3, <1>4 DEF CheckedRequests, FlushedRequests
<1>6. Decision(new) /\ Flushed(new) /\ new.at = "flushed"
  BY <1>1 DEF Decision, IsLink, Flushed
<1>7. api' = [api EXCEPT ![a] = new]
  BY DEF Flush
<1>8. UNCHANGED <<decisions, occ, rows, phase, stage, work, crossed>>
  BY DEF Flush
<1> HIDE DEF new
<1>9. TypeOK'
  BY <1>8 DEF TypeInv, TypeOK, decisions
<1> QED
  BY <1>5, <1>6, <1>7, <1>8, <1>9 DEF TypeInv, decisions, Decision, Flushed

LEMMA MergedType ==
  ASSUME NEW row \in Row, NEW read, NEW write \in Row
  PROVE  Merged(row, read, write) \in Row /\ Merged(row, read, write) # NoRow
BY DEF Merged, Row, NoRow, States

LEMMA CommitType ==
  ASSUME TypeInv, NEW a \in Apis, Commit(a)
  PROVE  TypeInv'
<1> DEFINE r == api[a]
<1>1. r \in FlushedRequests /\ Decision(r) /\ Flushed(r) /\ r.at = "flushed"
  BY RequestType DEF Commit, TypeInv
<1>2. lexemes' = IF r.kind = "link" THEN lexemes \cup {r.lexeme} ELSE lexemes
  BY DEF Commit
<1>3. lexemes' \subseteq Lexemes /\ lexemes \subseteq lexemes'
  BY <1>1, <1>2 DEF Decision, IsLink, TypeInv, TypeOK
<1>4. forms' \subseteq Words \X lexemes' /\ ignored' \subseteq Words
  BY <1>1, <1>2, AfterType DEF Commit, IsLink
<1>5. occ' \subseteq [doc : Docs, word : Words, lexeme : lexemes' \cup {NoLexeme}]
  <2>1. occ' = {IF o \in r.linked THEN [o EXCEPT !.lexeme = r.lexeme] ELSE o : o \in occ}
    BY DEF Commit
  <2>2. \A o \in r.linked : r.lexeme \in lexemes'
    BY <1>1, <1>2 DEF Flushed, IsLink
  <2>3. \A o \in occ : o \in [doc : Docs, word : Words, lexeme : lexemes' \cup {NoLexeme}]
    BY <1>3 DEF TypeInv, TypeOK
  <2> HIDE DEF r
  <2>4. \A o \in occ : (IF o \in r.linked THEN [o EXCEPT !.lexeme = r.lexeme] ELSE o)
                           \in [doc : Docs, word : Words, lexeme : lexemes' \cup {NoLexeme}]
    BY <2>2, <2>3
  <2> QED
    BY <2>1, <2>4
<1>6. rows' \in [Words -> Row \cup {NoRow}]
  <2>1. rows' = [w \in Words |-> IF w \in Changed(r) /\ rows[w] # NoRow
                                 THEN Merged(rows[w], r.read[w], r.write[w]) ELSE rows[w]]
    BY DEF Commit
  <2>2. ASSUME NEW w \in Words, w \in Changed(r), rows[w] # NoRow
        PROVE  Merged(rows[w], r.read[w], r.write[w]) \in Row
    <3>1. r.write[w] \in Row
      BY <1>1, <2>2 DEF Changed, FlushedRequests, Flushed
    <3>2. rows[w] \in Row
      BY <2>2 DEF TypeInv, TypeOK
    <3> QED
      BY <3>1, <3>2, MergedType
  <2>3. \A w \in Words : rows[w] \in Row \cup {NoRow}
    BY DEF TypeInv, TypeOK
  <2> QED
    BY <2>1, <2>2, <2>3
<1>7. stage' \in [Docs -> Stages]
  <2>1. r.stages \in UNION {[ds -> Stages] : ds \in SUBSET Docs}
    BY <1>1 DEF FlushedRequests
  <2>2. stage' = [d \in Docs |-> IF d \in DOMAIN r.stages THEN r.stages[d] ELSE stage[d]]
    BY DEF Commit
  <2> HIDE DEF r
  <2> QED
    BY <2>1, <2>2 DEF TypeInv, TypeOK
<1>8. crossed' \subseteq Words /\ UNCHANGED phase
  BY <1>1 DEF Commit, FlushedRequests, TypeInv, TypeOK
<1>9. TypeOK'
  BY <1>3, <1>4, <1>5, <1>6, <1>7, <1>8 DEF TypeOK, TypeInv
<1>10. /\ api' = MarkApis(r.forms, {}, {a}) /\ work' = MarkWork(r.forms, {})
       /\ r.forms \in SUBSET Words
  BY <1>1 DEF Commit, FlushedRequests
<1>11. ASSUME NEW b \in Apis, api'[b].at # "idle" PROVE Decision(api[b])'
  <2>1. /\ api[b].at # "idle" /\ api'[b].kind = api[b].kind /\ api'[b].new = api[b].new
        /\ api'[b].lexeme = api[b].lexeme /\ api'[b].forms = api[b].forms
    BY <1>10, <1>11, MarkApisType
  <2>2. Decision(api[b])
    BY <2>1 DEF TypeInv
  <2>3. forms \subseteq forms'
    BY DEF Commit, LinksAfter
  <2> QED
    BY <2>1, <2>2, <2>3 DEF Decision, IsLink
<1>12. ASSUME NEW b \in Apis, api'[b].at = "flushed" PROVE Flushed(api[b])'
  <2>1. /\ api[b].at = "flushed" /\ api'[b].kind = api[b].kind /\ api'[b].forms = api[b].forms
        /\ api'[b].linked = api[b].linked
        /\ api'[b].read = api[b].read /\ api'[b].write = api[b].write
    <3>1. api'[b] = MarkApis(r.forms, {}, {a})[b] /\ {} \in SUBSET Words
      BY <1>10
    <3> HIDE DEF r
    <3> QED
      BY <1>10, <1>12, <3>1, MarkApisType
  <2>2. Flushed(api[b])
    BY <2>1 DEF TypeInv
  <2> QED
    BY <2>1, <2>2 DEF Flushed, IsLink
<1> QED
  BY <1>9, <1>10, <1>11, <1>12, MarkApisType, MarkWorkType DEF TypeInv

LEMMA FailType == ASSUME TypeInv, NEW a \in Apis, Fail(a) PROVE TypeInv'
<1>1. api' = [api EXCEPT ![a] = NoRequest]
  BY DEF Fail
<1>2. UNCHANGED <<decisions, occ, rows, phase, stage, work, crossed>>
  BY DEF Fail
<1>3. TypeOK'
  BY <1>2 DEF TypeInv, TypeOK, decisions
<1> QED
  BY <1>1, <1>2, <1>3 DEF TypeInv, decisions, Decision, Flushed, NoRequest

LEMMA RequestKeepsType ==
  ASSUME TypeInv, NEW a \in Apis, Request(a)
  PROVE  TypeInv'
<1>1. ASSUME NEW fs \in (SUBSET Words) \ {{}}, NEW l \in Lexemes, CreateLexeme(a, l, fs)
      PROVE  TypeInv'
  <2>1. Begin(a, "link", l, fs, fs) /\ "link" \in Kinds /\ fs \in SUBSET fs /\ fs # {}
    BY <1>1 DEF CreateLexeme, Kinds
  <2>2. "link" = "link" => l \in Lexemes /\ \A w \in fs \ fs : <<w, l>> \in forms
    OBVIOUS
  <2> QED
    BY <2>1, <2>2, BeginType
<1>2. ASSUME NEW fs \in (SUBSET Words) \ {{}}, NEW l \in Lexemes, MergeGroups(a, l, fs)
      PROVE  TypeInv'
  <2> DEFINE new == {w \in fs : <<w, l>> \notin forms}
  <2>1. Begin(a, "link", l, fs, new) /\ "link" \in Kinds /\ fs # {}
    BY <1>2 DEF MergeGroups, Kinds
  <2>2. new \in SUBSET fs /\ \A w \in fs \ new : <<w, l>> \in forms
    OBVIOUS
  <2> HIDE DEF new
  <2> QED
    BY <2>1, <2>2, BeginType
<1>3. ASSUME NEW fs \in (SUBSET Words) \ {{}}, IgnoreGroups(a, fs) PROVE TypeInv'
  <2>1. /\ Begin(a, "ignore", NoLexeme, fs, fs \ ignored) /\ "ignore" \in Kinds
        /\ fs \ ignored \in SUBSET fs /\ fs # {} /\ "ignore" # "link"
    BY <1>3 DEF IgnoreGroups, Kinds
  <2> QED
    BY <2>1, BeginType
<1>4. ASSUME NEW fs \in (SUBSET Words) \ {{}}, UnignoreGroups(a, fs) PROVE TypeInv'
  <2>1. /\ Begin(a, "unignore", NoLexeme, fs, {}) /\ "unignore" \in Kinds
        /\ {} \in SUBSET fs /\ fs # {} /\ "unignore" # "link"
    BY <1>4 DEF UnignoreGroups, Kinds
  <2> QED
    BY <2>1, BeginType
<1> QED
  BY <1>1, <1>2, <1>3, <1>4, FlushType, CommitType, FailType DEF Request

\* The documents and the workers.
LEMMA DocumentType ==
  ASSUME TypeInv, NEW d \in Docs, StorePages(d) \/ CompleteDocument(d) \/ OpenWorkflow(d)
  PROVE  TypeInv'
<1>1. TypeOK'
  <2>1. CASE StorePages(d)
    <3>1. occ' = occ \cup {[doc |-> d, word |-> w, lexeme |-> NoLexeme] : w \in WordsOf[d]}
      BY <2>1 DEF StorePages
    <3>2. WordsOf[d] \subseteq Words
      BY CurationAssumption
    <3> QED
      BY <2>1, <3>1, <3>2 DEF StorePages, TypeInv, TypeOK, decisions, Phases, Stages
  <2>2. CASE CompleteDocument(d)
    <3>1. ResolveStage("completed", CountGroups(d)) \in Stages
      BY DEF ResolveStage, Stages
    <3> QED
      BY <2>2, <3>1 DEF CompleteDocument, TypeInv, TypeOK, decisions, Phases
  <2>3. CASE OpenWorkflow(d)
    BY <2>3, StagesType DEF OpenWorkflow, TypeInv, TypeOK, decisions
  <2> QED
    BY <2>1, <2>2, <2>3
<1>2. UNCHANGED <<decisions, api, work>>
  BY DEF StorePages, CompleteDocument, OpenWorkflow
<1> QED
  BY <1>1, <1>2 DEF TypeInv, Decision, Flushed, decisions

LEMMA StartIndexTxnType ==
  ASSUME TypeInv, NEW v \in Workers, NEW kind \in {"publish", "clear", "rebuild"},
         NEW d \in Docs \cup {CHOOSE e \in Docs : TRUE}, NEW ws \in SUBSET Words,
         NEW held \in SUBSET Words, StartIndexTxn(v, kind, d, ws, held)
  PROVE  /\ TypeInv'
         /\ work' = [work EXCEPT ![v] =
               [kind |-> kind, doc |-> d, held |-> held, crossed |-> {},
                read |-> [w \in ws |-> rows[w]],
                write |-> [w \in ws |-> StateOf(w, forms, ignored)]]]
         /\ UNCHANGED <<decisions, occ, rows, phase, stage, api, crossed>>
<1> DEFINE read  == [w \in ws |-> rows[w]]
           write == [w \in ws |-> StateOf(w, forms, ignored)]
           t == [kind |-> kind, doc |-> d, held |-> held, crossed |-> {},
                 read |-> read, write |-> write]
<1>1. read \in [ws -> Row \cup {NoRow}] /\ write \in [ws -> Row]
  BY StateOfType DEF TypeInv, TypeOK
<1>2. t \in IndexTxns
  <2> HIDE DEF read, write
  <2> QED
    BY <1>1 DEF IndexTxns
<1>3. work' = [work EXCEPT ![v] = t]
  BY DEF StartIndexTxn
<1>4. UNCHANGED <<decisions, occ, rows, phase, stage, api, crossed>>
  BY DEF StartIndexTxn
<1>5. TypeOK'
  BY <1>4 DEF TypeInv, TypeOK, decisions
<1>6. TypeInv'
  <2> HIDE DEF t
  <2> QED
    BY <1>2, <1>3, <1>4, <1>5 DEF TypeInv, Decision, Flushed, decisions
<1> QED
  BY <1>3, <1>4, <1>6

-------------------------------------------------------------------------------
(* What open index transactions know of the documents. *)

LEMMA PublishedMeans ==
  \A w : w \in Published <=> \E o \in occ : o.word = w /\ phase[o.doc] \in {"published", "completed"}
BY DEF Published

LEMMA WordsInMeans == \A d, w : w \in WordsIn(d) <=> \E o \in occ : o.doc = d /\ o.word = w
BY DEF WordsIn

\* A step that ends no publication and no clearing, and neither publishes nor deletes.
Quiet ==
    /\ \A v \in Workers : work'[v].kind # "idle" =>
          /\ work[v].kind = work'[v].kind /\ work[v].doc = work'[v].doc
          /\ work[v].held = work'[v].held
          /\ DOMAIN work[v].read = DOMAIN work'[v].read
          /\ DOMAIN work[v].write = DOMAIN work'[v].write
    /\ \A d \in Docs : phase[d] \in {"stored", "completed"} =>
          phase'[d] = phase[d] /\ WordsIn(d)' = WordsIn(d)
    /\ Published' \subseteq Published
    /\ \A w \in Words : rows[w] # NoRow => rows'[w] # NoRow

LEMMA QuietWork == ASSUME TypeInv, WorkInv, Quiet PROVE WorkInv'
<1>1. ASSUME NEW v \in Workers, work'[v].kind # "idle" PROVE Txn(work[v])'
  <2>1. Txn(work[v])
    BY <1>1 DEF Quiet, WorkInv
  <2> QED
    BY <1>1, <2>1 DEF Quiet, Txn
<1>2. ASSUME NEW v \in Workers, NEW u \in Workers, v # u PROVE Apart(v, u)'
  <2>1. Apart(v, u)
    BY <1>2 DEF WorkInv
  <2> QED
    BY <1>2, <2>1 DEF Quiet, Apart, Held
<1>3. \A w \in Published' : rows'[w] # NoRow
  <2>1. Published \subseteq Words
    BY DEF Published, TypeInv, TypeOK
  <2> QED
    BY <2>1 DEF Quiet, WorkInv
<1> QED
  BY <1>1, <1>2, <1>3 DEF WorkInv

\* A commit of a request writes no words, documents or phases.
LEMMA CommitIsQuiet ==
  ASSUME TypeInv, NEW a \in Apis, Commit(a)
  PROVE  /\ \A d : WordsIn(d)' = WordsIn(d)
         /\ Published' = Published /\ UNCHANGED phase
         /\ \A w \in Words : rows[w] # NoRow => rows'[w] # NoRow
<1> DEFINE r == api[a]
           F(o) == IF o \in r.linked THEN [o EXCEPT !.lexeme = r.lexeme] ELSE o
<1>1. occ' = {F(o) : o \in occ} /\ UNCHANGED phase
  BY DEF Commit
<1>2. \A o \in occ : F(o).doc = o.doc /\ F(o).word = o.word
  BY DEF TypeInv, TypeOK
<1> HIDE DEF F
<1>3. \A d, w : w \in WordsIn(d)' <=> w \in WordsIn(d)
  BY <1>1, <1>2 DEF WordsIn
<1>4. \A w : w \in Published' <=> w \in Published
  BY <1>1, <1>2 DEF Published
<1>5. ASSUME NEW w \in Words, rows[w] # NoRow PROVE rows'[w] # NoRow
  <2>1. rows'[w] = IF w \in Changed(r) THEN Merged(rows[w], r.read[w], r.write[w]) ELSE rows[w]
    BY <1>5 DEF Commit
  <2>2. CASE w \in Changed(r)
    <3>1. r \in FlushedRequests /\ Flushed(r)
      BY RequestType DEF Commit, TypeInv
    <3>2. r.write[w] \in Row
      BY <2>2, <3>1 DEF Changed, FlushedRequests, Flushed
    <3>3. rows[w] \in Row
      BY <1>5 DEF TypeInv, TypeOK
    <3> HIDE DEF r
    <3> QED
      BY <2>1, <2>2, <3>2, <3>3, MergedType
  <2> QED
    BY <1>5, <2>1, <2>2
<1>6. \A d : WordsIn(d)' \subseteq WordsIn(d) /\ WordsIn(d) \subseteq WordsIn(d)'
  BY <1>3
<1> QED
  BY <1>1, <1>4, <1>5, <1>6

LEMMA RequestWork ==
  ASSUME TypeInv, WorkInv, NEW a \in Apis, Request(a)
  PROVE  WorkInv'
<1>1. CASE Commit(a)
  <2>1. work' = MarkWork(api[a].forms, {}) /\ api[a].forms \in SUBSET Words
    BY <1>1, RequestType DEF Commit
  <2>2. \A v \in Workers : work'[v].kind # "idle" =>
           /\ work[v].kind = work'[v].kind /\ work[v].doc = work'[v].doc
           /\ work[v].held = work'[v].held /\ work[v].read = work'[v].read
           /\ work[v].write = work'[v].write
    BY <2>1, MarkWorkType
  <2>3. Quiet
    BY <1>1, <2>2, CommitIsQuiet DEF Quiet
  <2> QED
    BY <2>3, QuietWork
<1>2. CASE ~Commit(a)
  <2>1. UNCHANGED <<occ, rows, phase, work>>
    BY <1>2 DEF Request, CreateLexeme, MergeGroups, IgnoreGroups, UnignoreGroups, Begin, Flush, Fail
  <2>2. UNCHANGED Published /\ \A d : UNCHANGED WordsIn(d)
    BY <2>1 DEF Published, WordsIn
  <2>3. Quiet
    BY <2>1, <2>2 DEF Quiet
  <2> QED
    BY <2>3, QuietWork
<1> QED
  BY <1>1, <1>2

LEMMA DocumentWork ==
  ASSUME TypeInv, WorkInv, NEW d \in Docs, StorePages(d) \/ CompleteDocument(d) \/ OpenWorkflow(d)
  PROVE  WorkInv'
<1>1. CASE StorePages(d)
  <2>1. /\ occ' = occ \cup {[doc |-> d, word |-> w, lexeme |-> NoLexeme] : w \in WordsOf[d]}
        /\ phase[d] = "absent" /\ phase' = [phase EXCEPT ![d] = "stored"]
        /\ UNCHANGED <<rows, work>>
    BY <1>1 DEF StorePages
  <2>2. phase \in [Docs -> Phases] /\ \A o \in occ : o.doc \in Docs
    BY DEF TypeInv, TypeOK
  <2>3. Published' \subseteq Published
    BY <2>1, <2>2 DEF Published
  <2>4. ASSUME NEW e \in Docs, e # d PROVE WordsIn(e)' = WordsIn(e)
    <3>1. \A o \in occ' : o.doc = e => o \in occ
      BY <2>1, <2>4
    <3>2. occ \subseteq occ'
      BY <2>1
    <3> QED
      BY <3>1, <3>2 DEF WordsIn
  <2> QED
    BY <2>1, <2>2, <2>3, <2>4, QuietWork DEF Quiet
<1>2. CASE CompleteDocument(d)
  <2>1. /\ phase[d] = "published" /\ phase' = [phase EXCEPT ![d] = "completed"]
        /\ UNCHANGED <<occ, rows, work>>
    BY <1>2 DEF CompleteDocument
  <2>2. phase \in [Docs -> Phases] /\ \A o \in occ : o.doc \in Docs
    BY DEF TypeInv, TypeOK
  <2>3. Published' \subseteq Published
    BY <2>1, <2>2 DEF Published
  <2>4. \A e \in Docs : WordsIn(e)' = WordsIn(e)
    BY <2>1 DEF WordsIn
  <2> QED
    BY <2>1, <2>2, <2>3, <2>4, QuietWork DEF Quiet
<1>3. CASE OpenWorkflow(d)
  BY <1>3, QuietWork DEF OpenWorkflow, Quiet, Published, WordsIn
<1> QED
  BY <1>1, <1>2, <1>3

LEMMA StartWork ==
  ASSUME TypeInv, WorkInv, NEW v \in Workers, NEW kind \in {"publish", "clear", "rebuild"},
         NEW d \in Docs \cup {CHOOSE e \in Docs : TRUE}, NEW ws \in SUBSET Words,
         NEW held \in SUBSET Words, StartIndexTxn(v, kind, d, ws, held),
         kind # "rebuild" => Free(d) /\ d \in Docs,
         kind = "publish" => phase[d] = "stored" /\ ws = WordsIn(d) /\ held = WordsIn(d),
         kind = "clear" => phase[d] = "completed" /\ ws \subseteq WordsIn(d),
         kind = "rebuild" => ws \subseteq held /\ (held \ ws) \cap Published = {}
  PROVE  TypeInv' /\ WorkInv'
<1> DEFINE t == [kind |-> kind, doc |-> d, held |-> held, crossed |-> {},
                 read |-> [w \in ws |-> rows[w]],
                 write |-> [w \in ws |-> StateOf(w, forms, ignored)]]
<1>1. /\ TypeInv' /\ work' = [work EXCEPT ![v] = t]
      /\ UNCHANGED <<decisions, occ, rows, phase, stage, api, crossed>>
  <2>1. TypeInv'
    BY StartIndexTxnType
  <2> QED
    BY <2>1 DEF StartIndexTxn
<1>2. held \cap Locked = {} /\ work[v].kind = "idle"
  BY DEF StartIndexTxn
<1>3. /\ t.kind = kind /\ t.doc = d /\ t.held = held
      /\ DOMAIN t.read = ws /\ DOMAIN t.write = ws
  OBVIOUS
<1> HIDE DEF t
<1>4. work'[v] = t /\ \A u \in Workers \ {v} : work'[u] = work[u]
  BY <1>1 DEF TypeInv
<1>5. UNCHANGED Published /\ \A e : UNCHANGED WordsIn(e)
  BY <1>1 DEF Published, WordsIn
<1>6. ASSUME NEW u \in Workers, work'[u].kind # "idle" PROVE Txn(work[u])'
  <2>1. CASE u = v
    BY <1>1, <1>3, <1>4, <1>5, <2>1 DEF Txn
  <2>2. CASE u # v
    <3>1. Txn(work[u])
      BY <1>4, <1>6, <2>2 DEF WorkInv
    <3> QED
      BY <1>1, <1>4, <1>5, <2>2, <3>1 DEF Txn
  <2> QED
    BY <2>1, <2>2
<1>7. ASSUME NEW u \in Workers, u # v
      PROVE  /\ Held(u)' \cap Held(v)' = {}
             /\ {work'[v].kind, work'[u].kind} \subseteq {"publish", "clear"}
                    => work'[v].doc # work'[u].doc
  <2>1. Held(u)' = Held(u) /\ Held(v)' = IF kind = "idle" THEN {} ELSE held
    BY <1>3, <1>4, <1>7 DEF Held
  <2>2. Held(u) \subseteq Locked
    BY DEF Locked
  <2>3. ASSUME kind \in {"publish", "clear"}, work[u].kind \in {"publish", "clear"}
        PROVE  work[u].doc # d
    BY <2>3 DEF Free
  <2> QED
    BY <1>2, <1>3, <1>4, <1>7, <2>1, <2>2, <2>3
<1>8. ASSUME NEW u \in Workers, NEW x \in Workers, u # x PROVE Apart(u, x)'
  <2>1. CASE u # v /\ x # v
    <3>1. Apart(u, x)
      BY <1>8 DEF WorkInv
    <3> QED
      BY <1>4, <2>1, <3>1 DEF Apart, Held
  <2>2. CASE u = v
    BY <1>7, <1>8, <2>2 DEF Apart
  <2>3. CASE x = v
    BY <1>7, <1>8, <2>3 DEF Apart
  <2> QED
    BY <2>1, <2>2, <2>3
<1> QED
  BY <1>1, <1>5, <1>6, <1>8 DEF WorkInv

\* The rows that an index transaction leaves.
LEMMA CommittedRows ==
  ASSUME TypeInv, WorkInv, NEW v \in Workers, CommitIndexTxn(v), NEW w \in Words
  PROVE  /\ work[v] \in IndexTxns /\ Txn(work[v])
         /\ w \in DOMAIN work[v].write =>
               /\ rows'[w] \in Row /\ rows'[w] # NoRow
               /\ w \in work[v].held => rows'[w] = work[v].write[w]
               /\ w \notin work[v].held =>
                     rows'[w] = Merged(rows[w], work[v].read[w], work[v].write[w])
         /\ w \notin DOMAIN work[v].write =>
               \/ rows'[w] = rows[w]
               \/ rows'[w] = NoRow /\ work[v].kind = "rebuild" /\ w \in work[v].held
<1> DEFINE t == work[v]
<1>1. t \in IndexTxns /\ Txn(t) /\ t.kind # "idle"
  BY WorkType DEF CommitIndexTxn, WorkInv
<1>2. rows' = [x \in Words |->
            IF x \in DOMAIN t.write
            THEN IF x \in t.held THEN t.write[x] ELSE Merged(rows[x], t.read[x], t.write[x])
            ELSE IF x \in (IF t.kind = "rebuild" THEN {y \in t.held : rows[y] # NoRow} ELSE {})
                 THEN NoRow ELSE rows[x]]
  BY DEF CommitIndexTxn
<1> HIDE DEF t
<1>3. ASSUME w \in DOMAIN t.write
      PROVE  rows'[w] \in Row /\ rows'[w] # NoRow
  <2>1. t.write[w] \in Row /\ t.write[w] # NoRow
    BY <1>1, <1>3 DEF IndexTxns, Row, NoRow, States
  <2>2. CASE w \in t.held
    BY <1>2, <1>3, <2>1, <2>2
  <2>3. CASE w \notin t.held
    <3>1. t.kind = "clear"
      BY <1>1, <1>3, <2>3 DEF IndexTxns, Txn
    <3>2. w \in WordsIn(t.doc) /\ phase[t.doc] = "completed"
      BY <1>1, <1>3, <3>1 DEF Txn
    <3>3. w \in Published
      BY <3>2, WordsInMeans, PublishedMeans
    <3>4. rows[w] \in Row
      BY <3>3 DEF WorkInv, TypeInv, TypeOK
    <3> QED
      BY <1>2, <1>3, <2>1, <2>3, <3>4, MergedType
  <2> QED
    BY <2>2, <2>3
<1> QED
  BY <1>1, <1>2, <1>3 DEF t

LEMMA CommitIndexType ==
  ASSUME TypeInv, WorkInv, NEW v \in Workers, CommitIndexTxn(v)
  PROVE  /\ TypeInv' /\ DOMAIN work[v].write \in SUBSET Words
         /\ \E gone \in SUBSET Words : api' = MarkApis(DOMAIN work[v].write, gone, {})
         /\ work' = MarkWork(DOMAIN work[v].write, {v})
<1> DEFINE t    == work[v]
           ws   == DOMAIN t.write
           gone == IF t.kind = "rebuild" THEN {w \in t.held : rows[w] # NoRow} ELSE {}
<1>1. t \in IndexTxns
  BY WorkType DEF CommitIndexTxn
<1>2. ws \in SUBSET Words /\ gone \in SUBSET Words /\ t.crossed \in SUBSET Words
  BY <1>1 DEF IndexTxns
<1>3. api' = MarkApis(ws, gone, {}) /\ work' = MarkWork(ws, {v})
  BY DEF CommitIndexTxn
<1>4. rows' \in [Words -> Row \cup {NoRow}]
  <2>1. rows' = [w \in Words |-> rows'[w]]
    BY DEF CommitIndexTxn
  <2>2. \A w \in Words : rows'[w] \in Row \cup {NoRow}
    BY CommittedRows DEF TypeInv, TypeOK
  <2> QED
    BY <2>1, <2>2
<1>5. UNCHANGED decisions /\ occ' \subseteq occ
  BY DEF CommitIndexTxn
<1>6. phase' \in [Docs -> Phases] /\ stage' \in [Docs -> Stages] /\ crossed' \subseteq Words
  <2>1. /\ phase' = [phase EXCEPT ![t.doc] = IF t.kind = "publish" THEN "published"
                                             ELSE IF t.kind = "clear" THEN "absent" ELSE @]
        /\ stage' = IF t.kind = "clear" THEN [stage EXCEPT ![t.doc] = "ingesting"] ELSE stage
        /\ crossed' = (crossed \ ws) \cup (t.crossed \cap ws)
    BY DEF CommitIndexTxn
  <2> HIDE DEF t, ws
  <2> QED
    BY <1>2, <2>1 DEF TypeInv, TypeOK, Phases, Stages
<1>7. TypeOK'
  BY <1>4, <1>5, <1>6 DEF TypeInv, TypeOK, decisions
<1> HIDE DEF t, ws, gone
<1>8. ASSUME NEW b \in Apis, api'[b].at # "idle" PROVE Decision(api[b])'
  <2>1. /\ api[b].at # "idle" /\ api'[b].kind = api[b].kind /\ api'[b].new = api[b].new
        /\ api'[b].lexeme = api[b].lexeme /\ api'[b].forms = api[b].forms
    BY <1>2, <1>3, <1>8, MarkApisType
  <2>2. Decision(api[b])
    BY <2>1 DEF TypeInv
  <2> QED
    BY <1>5, <2>1, <2>2 DEF Decision, IsLink, decisions
<1>9. ASSUME NEW b \in Apis, api'[b].at = "flushed" PROVE Flushed(api[b])'
  <2>1. /\ api[b].at = "flushed" /\ api'[b].kind = api[b].kind /\ api'[b].forms = api[b].forms
        /\ api'[b].linked = api[b].linked
        /\ api'[b].read = api[b].read /\ api'[b].write = api[b].write
    BY <1>2, <1>3, <1>9, MarkApisType
  <2>2. Flushed(api[b])
    BY <2>1 DEF TypeInv
  <2> QED
    BY <2>1, <2>2 DEF Flushed, IsLink
<1>10. TypeInv'
  BY <1>2, <1>3, <1>7, <1>8, <1>9, MarkApisType, MarkWorkType DEF TypeInv
<1> QED
  BY <1>2, <1>3, <1>10 DEF t, ws

\* What the commit of an index transaction does to words and documents.
LEMMA CommittedWords ==
  ASSUME TypeInv, WorkInv, NEW v \in Workers, CommitIndexTxn(v)
  PROVE  /\ work[v].kind = "publish" =>
               /\ phase' = [phase EXCEPT ![work[v].doc] = "published"]
               /\ \A d : WordsIn(d)' = WordsIn(d)
               /\ Published' = Published \cup WordsIn(work[v].doc)
         /\ work[v].kind = "clear" =>
               /\ phase' = [phase EXCEPT ![work[v].doc] = "absent"]
               /\ \A d \in Docs : d # work[v].doc => WordsIn(d)' = WordsIn(d)
               /\ Published' \subseteq Published
         /\ work[v].kind = "rebuild" =>
               /\ UNCHANGED phase /\ \A d : WordsIn(d)' = WordsIn(d)
               /\ Published' = Published
         /\ work[v].kind \in {"publish", "clear", "rebuild"}
<1> DEFINE t == work[v]
<1>1. /\ t.kind \in {"publish", "clear", "rebuild"} /\ Txn(t)
  BY WorkType DEF IndexTxns, CommitIndexTxn, WorkInv
<1>2. /\ occ' = IF t.kind = "clear" THEN {o \in occ : o.doc # t.doc} ELSE occ
      /\ phase' = [phase EXCEPT ![t.doc] = IF t.kind = "publish" THEN "published"
                                           ELSE IF t.kind = "clear" THEN "absent" ELSE @]
  BY DEF CommitIndexTxn
<1>3. phase \in [Docs -> Phases] /\ \A o \in occ : o.doc \in Docs
  BY DEF TypeInv, TypeOK
<1> HIDE DEF t
<1>4. CASE t.kind = "publish"
  <2>1. /\ phase' = [phase EXCEPT ![t.doc] = "published"] /\ occ' = occ /\ t.doc \in Docs
        /\ phase[t.doc] = "stored"
    BY <1>1, <1>2, <1>4 DEF Txn
  <2>2. \A w : w \in Published' <=> w \in Published \/ w \in WordsIn(t.doc)
    BY <1>3, <2>1 DEF Published, WordsIn
  <2>3. \A d : WordsIn(d)' = WordsIn(d)
    BY <2>1 DEF WordsIn
  <2>4. Published' = Published \cup WordsIn(t.doc)
    BY <2>2
  <2> QED
    BY <1>4, <2>1, <2>3, <2>4 DEF t
<1>5. CASE t.kind = "clear"
  <2>1. phase' = [phase EXCEPT ![t.doc] = "absent"] /\ occ' = {o \in occ : o.doc # t.doc}
    BY <1>2, <1>5
  <2>2. \A w : w \in Published' => w \in Published
    BY <1>3, <2>1 DEF Published
  <2>3. ASSUME NEW d \in Docs, d # t.doc PROVE WordsIn(d)' = WordsIn(d)
    <3>1. \A o : (o \in occ' /\ o.doc = d) <=> (o \in occ /\ o.doc = d)
      BY <2>1, <2>3
    <3> QED
      BY <3>1 DEF WordsIn
  <2> QED
    BY <1>5, <2>1, <2>2, <2>3 DEF t
<1>6. CASE t.kind = "rebuild"
  <2>1. occ' = occ /\ phase' = phase
    BY <1>2, <1>3, <1>6
  <2>2. Published' = Published /\ \A d : WordsIn(d)' = WordsIn(d)
    BY <2>1 DEF Published, WordsIn
  <2> QED
    BY <1>6, <2>1, <2>2 DEF t
<1> QED
  BY <1>1, <1>4, <1>5, <1>6 DEF t

LEMMA CommitIndexWork ==
  ASSUME TypeInv, WorkInv, NEW v \in Workers, CommitIndexTxn(v)
  PROVE  WorkInv'
<1> DEFINE t == work[v]
<1>1. t.kind \in {"publish", "clear", "rebuild"} /\ Txn(t)
  BY CommittedWords DEF CommitIndexTxn, WorkInv
<1>2. \A u \in Workers : work'[u].kind # "idle" =>
           /\ u # v /\ work[u].kind = work'[u].kind /\ work[u].doc = work'[u].doc
           /\ work[u].held = work'[u].held /\ work[u].read = work'[u].read
           /\ work[u].write = work'[u].write
  <2>1. /\ work' = MarkWork(DOMAIN work[v].write, {v})
        /\ DOMAIN work[v].write \in SUBSET Words
    BY CommitIndexType
  <2> HIDE DEF t
  <2> QED
    BY <2>1, MarkWorkType
<1>3. ASSUME NEW u \in Workers, NEW x \in Workers, u # x PROVE Apart(u, x)'
  <2>1. Apart(u, x)
    BY <1>3 DEF WorkInv
  <2> QED
    BY <1>2, <2>1 DEF Apart, Held
<1>4. ASSUME NEW u \in Workers, work'[u].kind # "idle" PROVE Txn(work[u])'
  <2>1. Txn(work[u]) /\ Apart(u, v) /\ u # v
    BY <1>2, <1>4 DEF WorkInv
  <2>2. work[u].kind \in {"publish", "clear"} /\ t.kind # "rebuild" => work[u].doc # t.doc
    BY <1>1, <2>1 DEF Apart
  <2>3. ASSUME work[u].kind \in {"publish", "clear"}
        PROVE  /\ phase'[work[u].doc] = phase[work[u].doc]
               /\ \A d : d = work[u].doc => WordsIn(d)' = WordsIn(d)
    <3>1. phase \in [Docs -> Phases]
      BY DEF TypeInv, TypeOK
    <3>2. work[u].kind # "idle" /\ work[u].doc \in Docs
      BY <2>1, <2>3, WorkType DEF Txn, WorkInv
    <3>3. t.kind # "rebuild" => work[u].doc # t.doc
      BY <2>2, <2>3
    <3>4. phase'[work[u].doc] = phase[work[u].doc]
      BY <1>1, <3>1, <3>2, <3>3, CommittedWords
    <3>5. \A d \in Docs : (t.kind # "rebuild" => d # t.doc) => WordsIn(d)' = WordsIn(d)
      BY <1>1, CommittedWords
    <3> QED
      BY <3>2, <3>3, <3>4, <3>5
  <2>4. work[u].kind = "rebuild" =>
            (work[u].held \ DOMAIN work[u].write) \cap Published' = {}
    <3>1. t.kind = "publish" => WordsIn(t.doc) = t.held
      BY <1>1 DEF Txn
    <3>2. work[u].kind = "rebuild" => work[u].held \cap t.held = {}
      BY <1>1, <2>1 DEF Apart, Held
    <3> QED
      BY <1>1, <2>1, <3>1, <3>2, CommittedWords DEF Txn
  <2> QED
    BY <1>2, <1>4, <2>1, <2>3, <2>4 DEF Txn
<1>5. ASSUME NEW w \in Published' PROVE rows'[w] # NoRow
  <2>1. w \in Words
    BY CommitIndexType DEF Published, TypeInv, TypeOK
  <2>2. CASE w \in DOMAIN t.write
    BY <2>1, <2>2, CommittedRows
  <2>3. CASE w \notin DOMAIN t.write
    <3>1. w \in Published
      BY <1>1, <1>5, <2>3, CommittedWords DEF Txn
    <3>2. rows[w] # NoRow
      BY <3>1 DEF WorkInv
    <3>3. ~(t.kind = "rebuild" /\ w \in t.held)
      BY <1>1, <2>3, <3>1 DEF Txn
    <3> QED
      BY <2>1, <2>3, <3>2, <3>3, CommittedRows
  <2> QED
    BY <2>2, <2>3
<1> QED
  BY <1>3, <1>4, <1>5 DEF WorkInv

LEMMA StartsWork ==
  ASSUME TypeInv, WorkInv, NEW v \in Workers, NEW d,
         (d \in Docs /\ (StartPublish(v, d) \/ StartClear(v, d))) \/ StartRebuild(v)
  PROVE  TypeInv' /\ WorkInv'
<1>1. CASE d \in Docs /\ StartPublish(v, d)
  <2>1. WordsIn(d) \in SUBSET Words
    BY WordsInType DEF TypeInv
  <2>2. StartIndexTxn(v, "publish", d, WordsIn(d), WordsIn(d)) /\ Free(d) /\ phase[d] = "stored"
    BY <1>1 DEF StartPublish
  <2> DEFINE ws == WordsIn(d)
  <2>3. ws = WordsIn(d) /\ ws \in SUBSET Words
    BY <2>1
  <2>4. /\ "publish" \in {"publish", "clear", "rebuild"}
        /\ d \in Docs \cup {CHOOSE e \in Docs : TRUE}
        /\ "publish" # "rebuild" => Free(d) /\ d \in Docs
        /\ "publish" = "publish" => phase[d] = "stored" /\ ws = WordsIn(d) /\ ws = WordsIn(d)
        /\ "publish" = "clear" => phase[d] = "completed" /\ ws \subseteq WordsIn(d)
        /\ "publish" = "rebuild" => ws \subseteq ws /\ (ws \ ws) \cap Published = {}
    BY <1>1, <2>2
  <2>5. StartIndexTxn(v, "publish", d, ws, ws)
    BY <1>1, <2>2
  <2> HIDE DEF ws
  <2> QED
    BY <2>3, <2>4, <2>5, StartWork
<1>2. CASE d \in Docs /\ StartClear(v, d)
  <2> DEFINE ws   == {w \in WordsIn(d) : rows[w] # NoRow}
             held == {w \in WordsIn(d) : DocsOf({w}) # {d}}
  <2>1. ws \in SUBSET Words /\ held \in SUBSET Words /\ ws \subseteq WordsIn(d)
    BY WordsInType DEF TypeInv
  <2>2. StartIndexTxn(v, "clear", d, ws, held) /\ Free(d) /\ phase[d] = "completed"
    BY <1>2 DEF StartClear
  <2>3. /\ "clear" \in {"publish", "clear", "rebuild"}
        /\ d \in Docs \cup {CHOOSE e \in Docs : TRUE}
        /\ "clear" # "rebuild" => Free(d) /\ d \in Docs
        /\ "clear" = "publish" => phase[d] = "stored" /\ ws = WordsIn(d) /\ held = WordsIn(d)
        /\ "clear" = "clear" => phase[d] = "completed" /\ ws \subseteq WordsIn(d)
        /\ "clear" = "rebuild" => ws \subseteq held /\ (held \ ws) \cap Published = {}
    BY <1>2, <2>1, <2>2
  <2> HIDE DEF ws, held
  <2> QED
    BY <2>1, <2>2, <2>3, StartWork
<1>3. CASE StartRebuild(v)
  <2> DEFINE ws   == {o.word : o \in occ}
             held == ws \cup {w \in Words : rows[w] # NoRow}
             e    == CHOOSE x \in Docs : TRUE
  <2>1. ws \in SUBSET Words /\ held \in SUBSET Words /\ ws \subseteq held
    BY DEF TypeInv, TypeOK
  <2>2. Published \subseteq ws
    BY DEF Published
  <2>3. StartIndexTxn(v, "rebuild", e, ws, held)
    BY <1>3 DEF StartRebuild
  <2>4. e \in Docs \cup {CHOOSE x \in Docs : TRUE} /\ (held \ ws) \cap Published = {}
    BY <2>2
  <2>5. /\ "rebuild" \in {"publish", "clear", "rebuild"}
        /\ "rebuild" # "rebuild" => Free(e) /\ e \in Docs
        /\ "rebuild" = "publish" => phase[e] = "stored" /\ ws = WordsIn(e) /\ held = WordsIn(e)
        /\ "rebuild" = "clear" => phase[e] = "completed" /\ ws \subseteq WordsIn(e)
        /\ "rebuild" = "rebuild" => ws \subseteq held /\ (held \ ws) \cap Published = {}
    BY <2>1, <2>4
  <2> HIDE DEF ws, held, e
  <2> QED
    BY <2>1, <2>3, <2>4, <2>5, StartWork
<1> QED
  BY <1>1, <1>2, <1>3

LEMMA TypeWorkInit == Init => TypeInv /\ WorkInv
<1> SUFFICES ASSUME Init PROVE TypeInv /\ WorkInv
  OBVIOUS
<1>1. TypeOK
  BY DEF Init, TypeOK, Phases, Stages
<1>2. /\ \A a \in Apis : api[a] = NoRequest /\ api[a].at = "idle"
      /\ \A v \in Workers : work[v] = NoTxn /\ work[v].kind = "idle"
  BY DEF Init, NoRequest, NoTxn
<1>3. Published = {}
  BY DEF Init, Published
<1> QED
  BY <1>1, <1>2, <1>3 DEF Init, TypeInv, WorkInv, Apart, Held

LEMMA StepOfDocs ==
  ASSUME [Next]_vars
  PROVE  \/ \E a \in Apis : Request(a)
         \/ \E v \in Workers : CommitIndexTxn(v) \/ StartRebuild(v)
         \/ \E v \in Workers, d \in Docs : StartPublish(v, d) \/ StartClear(v, d)
         \/ \E d \in Docs : StorePages(d) \/ CompleteDocument(d) \/ OpenWorkflow(d)
         \/ UNCHANGED vars
BY DEF Next, Work

LEMMA TypeWorkStep == TypeInv /\ WorkInv /\ [Next]_vars => TypeInv' /\ WorkInv'
<1> SUFFICES ASSUME TypeInv, WorkInv, [Next]_vars PROVE TypeInv' /\ WorkInv'
  OBVIOUS
<1>1. CASE UNCHANGED vars
  <2>1. TypeInv'
    BY <1>1 DEF vars, decisions, TypeInv, TypeOK, Decision, Flushed
  <2>2. UNCHANGED Published /\ \A d : UNCHANGED WordsIn(d)
    BY <1>1 DEF vars, Published, WordsIn
  <2>3. WorkInv'
    BY <1>1, <2>2, QuietWork DEF vars, Quiet
  <2> QED
    BY <2>1, <2>3
<1> QED
  BY <1>1, StepOfDocs, RequestKeepsType, RequestWork, DocumentType, DocumentWork,
     CommitIndexType, CommitIndexWork, StartsWork

\* The tables keep their shape: a word has one row or none, and a form or an occurrence
\* belongs to a lexeme that exists.
THEOREM CurationTypeCorrect == Spec => []TypeOK
<1>1. TypeInv => TypeOK
  BY DEF TypeInv
<1> QED
  BY <1>1, TypeWorkInit, TypeWorkStep, PTL DEF Spec

-------------------------------------------------------------------------------
(* One lexeme for a form. *)

\* A flushed link holds its new words: they have no lexeme, and no other request links them.
Fresh(r) == IsLink(r) => \A w \in r.new, l \in Lexemes : <<w, l>> \notin forms

FormsInv ==
    /\ \A f, g \in forms : f[1] = g[1] => f = g
    /\ \A l \in lexemes : \E w \in Words : <<w, l>> \in forms
    /\ \A o \in occ : o.lexeme # NoLexeme => <<o.word, o.lexeme>> \in forms
    /\ IsFiniteSet(occ)
    /\ \A a \in Apis : api[a].at = "flushed" => Fresh(api[a])
    /\ \A a, b \in Apis :
          a # b /\ api[a].at = "flushed" /\ api[b].at = "flushed" /\ IsLink(api[a]) /\ IsLink(api[b])
          => api[a].new \cap api[b].new = {}

\* The image of a finite set is finite.
LEMMA FiniteImage ==
  ASSUME NEW S, IsFiniteSet(S), NEW f
  PROVE  IsFiniteSet({f[x] : x \in S})
<1> DEFINE T == {f[x] : x \in S}
<1>1. PICK n \in Nat : ExistsSurjection(1..n, S)
  BY FS_NatSurjection
<1>2. PICK g \in [1..n -> S] : \A x \in S : \E i \in 1..n : g[i] = x
  BY <1>1 DEF ExistsSurjection, Surjection
<1> DEFINE h == [i \in 1..n |-> f[g[i]]]
<1>3. h \in [1..n -> T] /\ \A t \in T : \E i \in 1..n : h[i] = t
  BY <1>2
<1>4. ExistsSurjection(1..n, T)
  BY <1>3 DEF ExistsSurjection, Surjection
<1> HIDE DEF T
<1>5. IsFiniteSet(T)
  BY <1>1, <1>4, FS_NatSurjection
<1> QED
  BY <1>5 DEF T

\* A step that takes no decision and flushes none.
NoNewDecision ==
    /\ UNCHANGED <<lexemes, forms>> /\ IsFiniteSet(occ')
    /\ \A o \in occ' : o.lexeme # NoLexeme => o \in occ
    /\ \A b \in Apis : api'[b].at = "flushed" =>
          api[b].at = "flushed" /\ api'[b].kind = api[b].kind /\ api'[b].new = api[b].new

LEMMA NoNewDecisionForms == ASSUME FormsInv, NoNewDecision PROVE FormsInv'
BY DEF NoNewDecision, FormsInv, Fresh, IsLink

LEMMA FlushForms ==
  ASSUME TypeInv, FormsInv, NEW a \in Apis, Flush(a)
  PROVE  FormsInv'
<1>1. /\ api'[a].at = "flushed" /\ api'[a].kind = api[a].kind /\ api'[a].new = api[a].new
      /\ \A b \in Apis \ {a} : api'[b] = api[b]
  BY DEF Flush, TypeInv
<1>2. UNCHANGED <<lexemes, forms, occ>> /\ ~Waits(a) /\ ~Taken(api[a])
  BY DEF Flush, decisions
<1>3. Fresh(api[a])
  BY <1>2 DEF Taken, Fresh, IsLink
<1>4. ASSUME NEW b \in Apis, NEW c \in Apis, b # c, api'[b].at = "flushed", api'[c].at = "flushed",
             IsLink(api'[b]), IsLink(api'[c])
      PROVE  api'[b].new \cap api'[c].new = {}
  <2>1. ASSUME NEW x \in Apis \ {a}, api[x].at = "flushed", api[x].kind = "link",
               api[a].kind = "link"
        PROVE  api[x].new \cap api[a].new = {}
    BY <1>2, <2>1 DEF Waits
  <2>2. CASE b # a /\ c # a
    BY <1>1, <1>4, <2>2 DEF FormsInv
  <2>3. CASE b = a
    BY <1>1, <1>4, <2>1, <2>3 DEF IsLink
  <2>4. CASE c = a
    BY <1>1, <1>4, <2>1, <2>4 DEF IsLink
  <2> QED
    BY <2>2, <2>3, <2>4
<1>5. ASSUME NEW b \in Apis, api'[b].at = "flushed" PROVE Fresh(api[b])'
  BY <1>1, <1>2, <1>3, <1>5 DEF FormsInv, Fresh, IsLink
<1> QED
  BY <1>2, <1>4, <1>5 DEF FormsInv

LEMMA CommitForms ==
  ASSUME TypeInv, FormsInv, NEW a \in Apis, Commit(a)
  PROVE  FormsInv'
<1> DEFINE r    == api[a]
           F(o) == IF o \in r.linked THEN [o EXCEPT !.lexeme = r.lexeme] ELSE o
<1>1. /\ r \in FlushedRequests /\ Decision(r) /\ Flushed(r) /\ r.at = "flushed" /\ Fresh(r)
      /\ r.forms \in SUBSET Words /\ r.new \in SUBSET Words
  BY RequestType DEF Commit, TypeInv, FormsInv
<1>2. /\ lexemes' = IF IsLink(r) THEN lexemes \cup {r.lexeme} ELSE lexemes
      /\ forms' = IF IsLink(r) THEN forms \cup {<<w, r.lexeme>> : w \in r.new} ELSE forms
      /\ occ' = {F(o) : o \in occ}
      /\ api' = MarkApis(r.forms, {}, {a})
  BY DEF Commit, IsLink, LinksAfter
<1>3. forms \subseteq forms' /\ forms \subseteq Words \X Lexemes
  BY <1>2 DEF TypeInv, TypeOK
<1>4. ASSUME NEW f \in forms', NEW g \in forms', f[1] = g[1] PROVE f = g
  <2>1. CASE f \in forms /\ g \in forms
    BY <1>4, <2>1 DEF FormsInv
  <2>2. ASSUME IsLink(r), NEW h \in forms, NEW w \in r.new, h[1] = w PROVE FALSE
    <3>1. h = <<w, h[2]>> /\ h[2] \in Lexemes
      BY <1>3, <2>2
    <3> QED
      BY <1>1, <2>2, <3>1 DEF Fresh
  <2> QED
    BY <1>2, <1>4, <2>1, <2>2
<1>5. IsLink(r) => \A w \in r.forms : <<w, r.lexeme>> \in forms'
  BY <1>1, <1>2 DEF Decision
<1>6. ASSUME NEW l \in lexemes' PROVE \E w \in Words : <<w, l>> \in forms'
  <2>1. CASE l \in lexemes
    BY <1>3, <2>1 DEF FormsInv
  <2>2. CASE l \notin lexemes
    BY <1>1, <1>2, <1>5, <1>6, <2>2 DEF Decision
  <2> QED
    BY <2>1, <2>2
<1>7. ASSUME NEW o \in occ', o.lexeme # NoLexeme PROVE <<o.word, o.lexeme>> \in forms'
  <2>1. PICK x \in occ : o = F(x)
    BY <1>2
  <2>2. CASE x \in r.linked
    <3>1. IsLink(r) /\ x.word \in r.forms
      BY <1>1, <2>2 DEF Flushed
    <3>2. o.word = x.word /\ o.lexeme = r.lexeme
      BY <2>1, <2>2 DEF TypeInv, TypeOK
    <3> QED
      BY <1>5, <3>1, <3>2
  <2>3. CASE x \notin r.linked
    BY <1>3, <1>7, <2>1, <2>3 DEF FormsInv
  <2> QED
    BY <2>2, <2>3
<1>8. IsFiniteSet(occ')
  <2> DEFINE f == [o \in occ |-> F(o)]
  <2>1. occ' = {f[o] : o \in occ}
    BY <1>2
  <2>2. IsFiniteSet(occ)
    BY DEF FormsInv
  <2> HIDE DEF f
  <2>3. IsFiniteSet({f[o] : o \in occ})
    BY <2>2, FiniteImage
  <2> QED
    BY <2>1, <2>3
<1>9. ASSUME NEW b \in Apis, api'[b].at = "flushed"
      PROVE  /\ b # a /\ api[b].at = "flushed" /\ api'[b].kind = api[b].kind
             /\ api'[b].new = api[b].new
  <2>1. api'[b] = MarkApis(r.forms, {}, {a})[b] /\ {} \in SUBSET Words
    BY <1>2
  <2> HIDE DEF r
  <2> QED
    BY <1>1, <1>9, <2>1, MarkApisType
<1>10. ASSUME NEW b \in Apis, api'[b].at = "flushed" PROVE Fresh(api[b])'
  <2>1. ASSUME IsLink(api[b]), NEW w \in api[b].new, NEW l \in Lexemes
        PROVE  <<w, l>> \notin forms'
    <3>1. <<w, l>> \notin forms
      BY <1>9, <1>10, <2>1 DEF FormsInv, Fresh
    <3>2. IsLink(r) => w \notin r.new
      BY <1>1, <1>9, <1>10, <2>1 DEF FormsInv
    <3> QED
      BY <1>2, <3>1, <3>2
  <2> QED
    BY <1>9, <1>10, <2>1 DEF Fresh, IsLink
<1>11. ASSUME NEW b \in Apis, NEW c \in Apis, b # c, api'[b].at = "flushed",
              api'[c].at = "flushed", IsLink(api'[b]), IsLink(api'[c])
       PROVE  api'[b].new \cap api'[c].new = {}
  BY <1>9, <1>11 DEF FormsInv, IsLink
<1> QED
  BY <1>4, <1>6, <1>7, <1>8, <1>10, <1>11 DEF FormsInv

LEMMA FormsStep == TypeInv /\ WorkInv /\ FormsInv /\ [Next]_vars => FormsInv'
<1> SUFFICES ASSUME TypeInv, WorkInv, FormsInv, [Next]_vars PROVE FormsInv'
  OBVIOUS
<1>1. CASE UNCHANGED <<lexemes, forms, occ, api>>
  BY <1>1, NoNewDecisionForms DEF NoNewDecision, FormsInv
<1>2. ASSUME NEW a \in Apis, Request(a) PROVE FormsInv'
  <2>1. ASSUME NEW kind, NEW l, NEW fs, NEW new, Begin(a, kind, l, fs, new) PROVE FormsInv'
    <3>1. UNCHANGED <<lexemes, forms, occ>> /\ api'[a].at # "flushed"
          /\ \A b \in Apis \ {a} : api'[b] = api[b]
      BY <2>1 DEF Begin, decisions, TypeInv
    <3> QED
      BY <3>1, NoNewDecisionForms DEF NoNewDecision, FormsInv
  <2>2. CASE Fail(a)
    <3>1. UNCHANGED <<lexemes, forms, occ>> /\ api'[a].at # "flushed"
          /\ \A b \in Apis \ {a} : api'[b] = api[b]
      BY <2>2 DEF Fail, decisions, TypeInv, NoRequest
    <3> QED
      BY <3>1, NoNewDecisionForms DEF NoNewDecision, FormsInv
  <2> QED
    BY <1>2, <2>1, <2>2, FlushForms, CommitForms
    DEF Request, CreateLexeme, MergeGroups, IgnoreGroups, UnignoreGroups
<1>3. ASSUME NEW v \in Workers, CommitIndexTxn(v) PROVE FormsInv'
  <2>1. UNCHANGED <<lexemes, forms>> /\ occ' \subseteq occ
    BY <1>3 DEF CommitIndexTxn, decisions
  <2>2. IsFiniteSet(occ')
    BY <2>1, FS_Subset DEF FormsInv
  <2>3. ASSUME NEW b \in Apis, api'[b].at = "flushed"
        PROVE  api[b].at = "flushed" /\ api'[b].kind = api[b].kind /\ api'[b].new = api[b].new
    <3> DEFINE ws == DOMAIN work[v].write
    <3>1. /\ ws \in SUBSET Words
          /\ \E gone \in SUBSET Words : api' = MarkApis(ws, gone, {})
      BY <1>3, CommitIndexType
    <3>2. PICK gone \in SUBSET Words : api'[b] = MarkApis(ws, gone, {})[b]
      BY <3>1
    <3> HIDE DEF ws
    <3> QED
      BY <2>3, <3>1, <3>2, MarkApisType
  <2> QED
    BY <2>1, <2>2, <2>3, NoNewDecisionForms DEF NoNewDecision
<1>4. ASSUME NEW d \in Docs, StorePages(d) PROVE FormsInv'
  <2> DEFINE W(w) == [doc |-> d, word |-> w, lexeme |-> NoLexeme]
             new  == {W(w) : w \in WordsOf[d]}
  <2>1. UNCHANGED <<lexemes, forms, api>> /\ occ' = occ \cup new
    BY <1>4 DEF StorePages, decisions
  <2>2. \A o \in new : o.lexeme = NoLexeme
    OBVIOUS
  <2>3. IsFiniteSet(new)
    <3> DEFINE f == [w \in WordsOf[d] |-> W(w)]
    <3>1. {f[w] : w \in WordsOf[d]} = new
      OBVIOUS
    <3> HIDE DEF f, new
    <3> QED
      BY <3>1, CurationAssumption, FiniteImage
  <2>4. IsFiniteSet(occ')
    <3> HIDE DEF new
    <3> QED
      BY <2>1, <2>3, FS_Union DEF FormsInv
  <2> QED
    BY <2>1, <2>2, <2>4, NoNewDecisionForms DEF NoNewDecision
<1>5. ASSUME NEW v \in Workers, NEW d,
             StartPublish(v, d) \/ StartClear(v, d) \/ StartRebuild(v)
      PROVE  UNCHANGED <<lexemes, forms, occ, api>>
  BY <1>5 DEF StartPublish, StartClear, StartRebuild, StartIndexTxn, decisions
<1>6. ASSUME NEW d \in Docs, CompleteDocument(d) \/ OpenWorkflow(d)
      PROVE  UNCHANGED <<lexemes, forms, occ, api>>
  BY <1>6 DEF CompleteDocument, OpenWorkflow, decisions
<1> QED
  BY <1>1, <1>2, <1>3, <1>4, <1>5, <1>6, StepOfDocs DEF vars, decisions

LEMMA FormsInvMeans == ASSUME TypeInv, FormsInv PROVE FormsHaveOneLexeme
<1> SUFFICES ASSUME NEW l \in lexemes
             PROVE  LET detail == LexemeDetail(l)
                        found  == UNION {GroupDetail(w).occurrences : w \in detail.forms}
                    IN  /\ detail.forms # {} /\ detail.occurrences \subseteq found
                        /\ \E x \in ListLexemes : x.lexeme = l
                                                  /\ x.occurrences <= Cardinality(found)
  BY DEF FormsInv, FormsHaveOneLexeme
<1> DEFINE fs    == {f[1] : f \in {x \in forms : x[2] = l}}
           mine  == {o \in occ : o.lexeme = l}
           found == UNION {GroupDetail(w).occurrences : w \in fs}
<1>1. LexemeDetail(l).forms = fs /\ LexemeDetail(l).occurrences = mine
  BY DEF LexemeDetail
<1>2. \A w : <<w, l>> \in forms => w \in fs
  OBVIOUS
<1>3. \A w : GroupDetail(w).occurrences = {o \in occ : o.word = w}
  BY DEF GroupDetail
<1>4. mine \subseteq found
  <2> SUFFICES ASSUME NEW o \in occ, o.lexeme = l PROVE o \in found
    OBVIOUS
  <2>1. l # NoLexeme
    BY CurationAssumption DEF TypeInv, TypeOK
  <2>2. o.word \in fs
    BY <1>2, <2>1 DEF FormsInv
  <2>3. o \in GroupDetail(o.word).occurrences
    BY <1>3
  <2> QED
    BY <2>2, <2>3
<1>5. IsFiniteSet(found)
  <2>1. found \subseteq occ
    BY <1>3
  <2> QED
    BY <2>1, FS_Subset DEF FormsInv
<1>6. Cardinality(mine) <= Cardinality(found)
  BY <1>4, <1>5, FS_Subset
<1>7. fs # {}
  BY <1>2 DEF FormsInv
<1>8. [lexeme |-> l, forms |-> Cardinality({f \in forms : f[2] = l}),
       occurrences |-> Cardinality(mine)] \in ListLexemes
  BY DEF ListLexemes
<1> HIDE DEF fs, mine, found
<1> QED
  BY <1>1, <1>4, <1>6, <1>7, <1>8 DEF fs, found

\* "One or more normalized forms already belong to another lexeme": requests that link the
\* same words at the same time leave each form one lexeme, the occurrences that carry a
\* lexeme carry that of their form, and the list of lexemes counts occurrences of its forms.
THEOREM FormsKeepOneLexeme == Spec => []FormsHaveOneLexeme
<1>1. Init => FormsInv
  BY FS_EmptySet DEF Init, FormsInv, NoRequest
<1>2. TypeInv /\ FormsInv => FormsHaveOneLexeme
  BY FormsInvMeans
<1> QED
  BY <1>1, <1>2, TypeWorkInit, TypeWorkStep, FormsStep, PTL DEF Spec

-------------------------------------------------------------------------------
(* Lists that follow the decisions. *)

\* As long as nobody committed something about a word since a transaction read it, the row
\* is the one it read.
StillRead(w, read) == w \in Published => rows[w] = read[w]

TxnKnows(t) ==
    \A w \in DOMAIN t.write \ t.crossed :
        t.write[w] = StateOf(w, forms, ignored) /\ StillRead(w, t.read)

RequestKnows(r) ==
    \A w \in r.forms \ r.crossed :
        IF r.docs = {} THEN w \notin Published
        ELSE r.at = "flushed" => /\ r.write[w] = StateOf(w, LinksAfter(r), ReviewsAfter(r))
                                 /\ StillRead(w, r.read)

RowsInv ==
    /\ \A w \in Published \ crossed : rows[w] = StateOf(w, forms, ignored)
    /\ \A v \in Workers : work[v].kind # "idle" => TxnKnows(work[v])
    /\ \A a \in Apis : api[a].at # "idle" => RequestKnows(api[a])

\* A decision about a word is made of its own links and its own review.
LEMMA SameDecision ==
  ASSUME NEW w, NEW links1, NEW links2, NEW reviews1, NEW reviews2,
         \A l \in Lexemes : <<w, l>> \in links1 <=> <<w, l>> \in links2,
         w \in reviews1 <=> w \in reviews2
  PROVE  StateOf(w, links1, reviews1) = StateOf(w, links2, reviews2)
<1>1. (CHOOSE l \in Lexemes : <<w, l>> \in links1) = (CHOOSE l \in Lexemes : <<w, l>> \in links2)
  BY Zenon
<1>2. (\E l \in Lexemes : <<w, l>> \in links1) <=> (\E l \in Lexemes : <<w, l>> \in links2)
  OBVIOUS
<1> DEFINE one == CHOOSE l \in Lexemes : <<w, l>> \in links1
           two == CHOOSE l \in Lexemes : <<w, l>> \in links2
<1>3. /\ StateOf(w, links1, reviews1) =
            IF \E l \in Lexemes : <<w, l>> \in links1 THEN [state |-> "linked", lexeme |-> one]
            ELSE [state |-> IF w \in reviews1 THEN "ignored_noise" ELSE "unreviewed",
                  lexeme |-> NoLexeme]
      /\ StateOf(w, links2, reviews2) =
            IF \E l \in Lexemes : <<w, l>> \in links2 THEN [state |-> "linked", lexeme |-> two]
            ELSE [state |-> IF w \in reviews2 THEN "ignored_noise" ELSE "unreviewed",
                  lexeme |-> NoLexeme]
  BY Zenon DEF StateOf
<1> HIDE DEF one, two
<1>4. one = two
  BY <1>1 DEF one, two
<1> DEFINE some1 == \E l \in Lexemes : <<w, l>> \in links1
           some2 == \E l \in Lexemes : <<w, l>> \in links2
<1>5. some1 <=> some2
  BY <1>2
<1>6. CASE some1
  BY <1>3, <1>4, <1>5, <1>6
<1>7. CASE ~some1
  BY <1>3, <1>5, <1>7
<1> QED
  BY <1>6, <1>7

\* The decision of a request is about its own words.
LEMMA OtherWords ==
  ASSUME NEW r, Decision(r), NEW w, w \notin r.forms
  PROVE  /\ \A l \in Lexemes : <<w, l>> \in LinksAfter(r) <=> <<w, l>> \in forms
         /\ r.kind \in Kinds => (w \in ReviewsAfter(r) <=> w \in ignored)
BY DEF Decision, LinksAfter, ReviewsAfter, Kinds

\* Writing the columns that changed over the row that was read writes the row.
LEMMA MergedIsWritten ==
  ASSUME NEW row \in Row, NEW write \in Row
  PROVE  Merged(row, row, write) = write
BY DEF Merged, Row

\* What a step leaves alone for a transaction that stays open: the decision about a word
\* it has not lost, and its row.
LeftAlone(w) ==
    /\ \A l \in Lexemes : <<w, l>> \in forms' <=> <<w, l>> \in forms
    /\ w \in ignored' <=> w \in ignored
    /\ w \in Published' => w \in Published /\ rows'[w] = rows[w]

\* The words that transactions still know after the step are words that it leaves alone.
KeepsKnowledge ==
    /\ \A v \in Workers : work'[v].kind # "idle" =>
          /\ work[v].kind # "idle" /\ work'[v].write = work[v].write
          /\ work'[v].read = work[v].read /\ work[v].crossed \subseteq work'[v].crossed
          /\ \A w \in DOMAIN work[v].write \ work'[v].crossed : LeftAlone(w)
    /\ \A b \in Apis : api'[b].at # "idle" =>
          /\ api[b].at = api'[b].at /\ api'[b].kind = api[b].kind
          /\ api'[b].lexeme = api[b].lexeme /\ api'[b].new = api[b].new
          /\ api'[b].forms = api[b].forms /\ api'[b].docs = api[b].docs
          /\ api[b].crossed \subseteq api'[b].crossed
          /\ api'[b].at = "flushed" => api'[b].write = api[b].write /\ api'[b].read = api[b].read
          /\ api[b].at = "flushed" \/ api[b].docs = {} =>
                 \A w \in api[b].forms \ api'[b].crossed : LeftAlone(w)

LEMMA KnowledgeStays ==
  ASSUME TypeInv, RowsInv, KeepsKnowledge
  PROVE  /\ \A v \in Workers : work'[v].kind # "idle" => TxnKnows(work[v])'
         /\ \A b \in Apis : api'[b].at # "idle" => RequestKnows(api[b])'
<1>1. ASSUME NEW v \in Workers, work'[v].kind # "idle" PROVE TxnKnows(work[v])'
  <2>1. /\ TxnKnows(work[v]) /\ work'[v].write = work[v].write /\ work'[v].read = work[v].read
        /\ work[v].crossed \subseteq work'[v].crossed
    BY <1>1 DEF KeepsKnowledge, RowsInv
  <2>2. ASSUME NEW w \in DOMAIN work[v].write \ work'[v].crossed
        PROVE  /\ StateOf(w, forms', ignored') = StateOf(w, forms, ignored)
               /\ w \in Published' => w \in Published /\ rows'[w] = rows[w]
    <3>1. LeftAlone(w)
      BY <1>1, <2>2 DEF KeepsKnowledge
    <3> QED
      BY <3>1, SameDecision DEF LeftAlone
  <2> QED
    BY <2>1, <2>2 DEF TxnKnows, StillRead
<1>2. ASSUME NEW b \in Apis, api'[b].at # "idle" PROVE RequestKnows(api[b])'
  <2> DEFINE r == api[b]
             s == api'[b]
  <2>1. /\ RequestKnows(r) /\ s.at = r.at /\ s.kind = r.kind /\ s.lexeme = r.lexeme
        /\ s.new = r.new /\ s.forms = r.forms /\ s.docs = r.docs /\ r.crossed \subseteq s.crossed
        /\ s.at = "flushed" => s.write = r.write /\ s.read = r.read
    BY <1>2 DEF KeepsKnowledge, RowsInv
  <2>2. r.kind \in Kinds
    BY <1>2, <2>1, RequestType
  <2> SUFFICES ASSUME NEW w \in r.forms \ s.crossed
               PROVE  IF r.docs = {} THEN w \notin Published'
                      ELSE r.at = "flushed" =>
                             /\ r.write[w] = StateOf(w, LinksAfter(api[b])', ReviewsAfter(api[b])')
                             /\ w \in Published' => rows'[w] = r.read[w]
    <3> HIDE DEF r
    <3> QED
      BY <2>1 DEF RequestKnows, StillRead
  <2>3. CASE r.docs = {}
    BY <1>2, <2>1, <2>3 DEF KeepsKnowledge, LeftAlone, RequestKnows
  <2>4. CASE r.docs # {} /\ r.at = "flushed"
    <3>1. LeftAlone(w)
      BY <1>2, <2>4 DEF KeepsKnowledge
    <3>2. /\ \A l \in Lexemes : <<w, l>> \in LinksAfter(r) <=> <<w, l>> \in LinksAfter(api[b])'
          /\ w \in ReviewsAfter(r) <=> w \in ReviewsAfter(api[b])'
      BY <2>1, <2>2, <3>1 DEF LeftAlone, LinksAfter, ReviewsAfter, Kinds
    <3>3. StateOf(w, LinksAfter(r), ReviewsAfter(r)) = StateOf(w, LinksAfter(api[b])', ReviewsAfter(api[b])')
      BY <3>2, SameDecision
    <3>4. r.write[w] = StateOf(w, LinksAfter(r), ReviewsAfter(r)) /\ StillRead(w, r.read)
      BY <2>1, <2>4 DEF RequestKnows
    <3> QED
      BY <2>4, <3>1, <3>3, <3>4 DEF LeftAlone, StillRead
  <2> QED
    BY <2>3, <2>4
<1> QED
  BY <1>1, <1>2

\* A step that writes no row, takes no decision and publishes nothing.
NoNewRow == UNCHANGED <<forms, ignored, rows, crossed>> /\ Published' \subseteq Published

LEMMA NoNewRowKeeps ==
  ASSUME TypeInv, RowsInv, NoNewRow
  PROVE  /\ \A w : LeftAlone(w)
         /\ \A w \in Published' \ crossed' : rows'[w] = StateOf(w, forms', ignored')
         /\ \A a \in Apis : api'[a] = api[a] /\ api[a].at # "idle" => RequestKnows(api[a])'
         /\ \A v \in Workers : work'[v] = work[v] /\ work[v].kind # "idle" => TxnKnows(work[v])'
<1>1. \A w : LeftAlone(w)
  BY DEF NoNewRow, LeftAlone
<1>2. \A w \in Published' \ crossed' : rows'[w] = StateOf(w, forms', ignored')
  BY DEF NoNewRow, RowsInv
<1>3. ASSUME NEW a \in Apis, api'[a] = api[a], api[a].at # "idle" PROVE RequestKnows(api[a])'
  <2> DEFINE r == api[a]
  <2>1. LinksAfter(api[a])' = LinksAfter(r) /\ ReviewsAfter(api[a])' = ReviewsAfter(r)
    BY <1>3 DEF NoNewRow, LinksAfter, ReviewsAfter
  <2>2. RequestKnows(r) /\ api'[a] = r /\ UNCHANGED rows /\ Published' \subseteq Published
    BY <1>3 DEF RowsInv, NoNewRow
  <2> HIDE DEF r
  <2> QED
    BY <2>1, <2>2 DEF RequestKnows, StillRead
<1>4. ASSUME NEW v \in Workers, work'[v] = work[v], work[v].kind # "idle"
      PROVE  TxnKnows(work[v])'
  BY <1>4 DEF NoNewRow, RowsInv, TxnKnows, StillRead
<1> QED
  BY <1>1, <1>2, <1>3, <1>4

LEMMA BeginRows ==
  ASSUME TypeInv, RowsInv, NEW a \in Apis, NEW kind, NEW l, NEW fs, NEW new,
         Begin(a, kind, l, fs, new)
  PROVE  RowsInv'
<1>1. /\ api'[a].at = "checked" /\ api'[a].forms = fs /\ api'[a].docs = DocsOf(fs)
      /\ \A b \in Apis \ {a} : api'[b] = api[b]
  BY DEF Begin, TypeInv
<1>2. UNCHANGED <<forms, ignored, occ, rows, phase, work, crossed>>
  BY DEF Begin, decisions
<1>3. Published' = Published
  BY <1>2 DEF Published
<1>4. NoNewRow
  BY <1>2, <1>3 DEF NoNewRow
<1>5. DocsOf(fs) = {} => \A w \in fs : w \notin Published
  BY DEF DocsOf, Published
<1>6. RequestKnows(api[a])'
  <2>1. ASSUME NEW w \in api'[a].forms, api'[a].docs = {} PROVE w \notin Published'
    BY <1>1, <1>3, <1>5, <2>1
  <2>2. api'[a].at # "flushed"
    BY <1>1
  <2> QED
    BY <2>1, <2>2 DEF RequestKnows
<1> QED
  BY <1>1, <1>2, <1>4, <1>6, NoNewRowKeeps DEF RowsInv

LEMMA FlushRows ==
  ASSUME TypeInv, RowsInv, NEW a \in Apis, Flush(a)
  PROVE  RowsInv'
<1> DEFINE r == api[a]
<1>1. /\ \A b \in Apis \ {a} : api'[b] = api[b]
      /\ api'[a].at = "flushed" /\ api'[a].kind = r.kind /\ api'[a].lexeme = r.lexeme
      /\ api'[a].forms = r.forms /\ api'[a].new = r.new /\ api'[a].docs = r.docs
      /\ api'[a].crossed = r.crossed /\ api'[a].read = [w \in r.forms |-> rows[w]]
      /\ r.docs # {} => api'[a].write = [w \in r.forms |-> StateOf(w, LinksAfter(r), ReviewsAfter(r))]
  BY DEF Flush, TypeInv
<1>2. UNCHANGED <<forms, ignored, occ, rows, phase, work, crossed>> /\ r.at = "checked"
  BY DEF Flush, decisions
<1>3. Published' = Published
  BY <1>2 DEF Published
<1>4. NoNewRow
  BY <1>2, <1>3 DEF NoNewRow
<1>5. LinksAfter(api[a])' = LinksAfter(r) /\ ReviewsAfter(api[a])' = ReviewsAfter(r)
  BY <1>1, <1>2 DEF LinksAfter, ReviewsAfter
<1>6. RequestKnows(r)
  BY <1>2 DEF RowsInv
<1>7. RequestKnows(api[a])'
  <2> SUFFICES ASSUME NEW w \in r.forms \ r.crossed
               PROVE  IF r.docs = {} THEN w \notin Published'
                      ELSE /\ api'[a].write[w] = StateOf(w, LinksAfter(r), ReviewsAfter(r))
                           /\ w \in Published' => rows'[w] = api'[a].read[w]
    <3> HIDE DEF r
    <3> QED
      BY <1>1, <1>5 DEF RequestKnows, StillRead
  <2>1. CASE r.docs = {}
    BY <1>3, <1>6, <2>1 DEF RequestKnows
  <2>2. CASE r.docs # {}
    <3> HIDE DEF r
    <3> QED
      BY <1>1, <1>2, <1>3, <2>2
  <2> QED
    BY <2>1, <2>2
<1> QED
  BY <1>1, <1>2, <1>4, <1>7, NoNewRowKeeps DEF RowsInv

LEMMA MarkedApis ==
  ASSUME TypeInv, NEW ws \in SUBSET Words, NEW gone \in SUBSET Words, NEW ended, NEW b \in Apis,
         MarkApis(ws, gone, ended)[b].at # "idle"
  PROVE  /\ api[b].crossed \subseteq MarkApis(ws, gone, ended)[b].crossed
         /\ api[b].at = "flushed" \/ api[b].docs = {} =>
                ws \cap api[b].forms \subseteq MarkApis(ws, gone, ended)[b].crossed
<1> DEFINE m == MarkApis(ws, gone, ended)[b]
<1>1. b \notin ended /\ (api[b].at = "flushed" \/ api[b].at = "checked")
  <2>1. m = MarkApis(ws, gone, ended)[b] /\ m.at # "idle"
    OBVIOUS
  <2> HIDE DEF m
  <2>2. b \notin ended /\ m.at = api[b].at
    BY <2>1, MarkApisType
  <2> QED
    BY <2>1, <2>2, RequestType
<1>2. CASE api[b].at = "flushed"
  <2>1. m = [api[b] EXCEPT !.crossed = @ \cup (ws \cap api[b].forms),
                           !.gone = @ \cup (gone \cap api[b].forms)]
    BY <1>1, <1>2 DEF MarkApis
  <2>2. api[b] \in FlushedRequests
    BY <1>2, RequestType
  <2>3. m.crossed = api[b].crossed \cup (ws \cap api[b].forms)
    BY <2>1, <2>2 DEF FlushedRequests
  <2> QED
    BY <2>3
<1>3. CASE api[b].at = "checked"
  <2>1. m = IF api[b].docs = {} THEN [api[b] EXCEPT !.crossed = @ \cup (ws \cap api[b].forms)]
            ELSE api[b]
    BY <1>1, <1>3 DEF MarkApis
  <2>2. api[b] \in CheckedRequests
    BY <1>3, RequestType
  <2>3. m.crossed = IF api[b].docs = {} THEN api[b].crossed \cup (ws \cap api[b].forms)
                    ELSE api[b].crossed
    BY <2>1, <2>2 DEF CheckedRequests
  <2> QED
    BY <1>3, <2>3
<1> QED
  BY <1>1, <1>2, <1>3

LEMMA MarkedWork ==
  ASSUME TypeInv, NEW ws \in SUBSET Words, NEW ended, NEW v \in Workers,
         MarkWork(ws, ended)[v].kind # "idle"
  PROVE  /\ work[v].kind # "idle"
         /\ MarkWork(ws, ended)[v].crossed = work[v].crossed \cup ws
<1>1. v \notin ended /\ work[v].kind # "idle"
  BY MarkWorkType
<1>2. work[v] \in IndexTxns
  BY <1>1, WorkType
<1>3. MarkWork(ws, ended)[v] = [work[v] EXCEPT !.crossed = @ \cup ws]
  BY <1>1 DEF MarkWork
<1> QED
  BY <1>1, <1>2, <1>3 DEF IndexTxns

\* A commit that marks the words it writes leaves what others know alone.
LEMMA MarksKeepKnowledge ==
  ASSUME TypeInv, NEW ws \in SUBSET Words, NEW gone \in SUBSET Words, NEW ended, NEW done,
         api' = MarkApis(ws, gone, ended), work' = MarkWork(ws, done),
         \A w : w \notin ws => LeftAlone(w)
  PROVE  KeepsKnowledge
<1>1. ASSUME NEW v \in Workers, work'[v].kind # "idle"
      PROVE  /\ work[v].kind # "idle" /\ work'[v].write = work[v].write
             /\ work'[v].read = work[v].read /\ work[v].crossed \subseteq work'[v].crossed
             /\ \A w \in DOMAIN work[v].write \ work'[v].crossed : LeftAlone(w)
  <2>1. MarkWork(ws, done)[v] = work'[v] /\ MarkWork(ws, done)[v].kind # "idle"
    BY <1>1
  <2>2. work[v].kind # "idle" /\ work'[v].crossed = work[v].crossed \cup ws
    BY <2>1, MarkedWork
  <2>3. work'[v].write = work[v].write /\ work'[v].read = work[v].read
    BY <2>1, MarkWorkType
  <2> QED
    BY <2>2, <2>3
<1>2. ASSUME NEW b \in Apis, api'[b].at # "idle"
      PROVE  /\ api[b].at = api'[b].at /\ api'[b].kind = api[b].kind
             /\ api'[b].lexeme = api[b].lexeme /\ api'[b].new = api[b].new
             /\ api'[b].forms = api[b].forms /\ api'[b].docs = api[b].docs
             /\ api[b].crossed \subseteq api'[b].crossed
             /\ api'[b].at = "flushed" => api'[b].write = api[b].write /\ api'[b].read = api[b].read
             /\ api[b].at = "flushed" \/ api[b].docs = {} =>
                    \A w \in api[b].forms \ api'[b].crossed : LeftAlone(w)
  <2>1. api'[b] = MarkApis(ws, gone, ended)[b] /\ MarkApis(ws, gone, ended)[b].at # "idle"
    BY <1>2
  <2>2. /\ api[b].at = api'[b].at /\ api'[b].kind = api[b].kind
        /\ api'[b].lexeme = api[b].lexeme /\ api'[b].new = api[b].new
        /\ api'[b].forms = api[b].forms /\ api'[b].docs = api[b].docs
        /\ api'[b].at = "flushed" => api'[b].write = api[b].write /\ api'[b].read = api[b].read
    BY <2>1, MarkApisType
  <2>3. /\ api[b].crossed \subseteq api'[b].crossed
        /\ api[b].at = "flushed" \/ api[b].docs = {} => ws \cap api[b].forms \subseteq api'[b].crossed
    BY <2>1, MarkedApis
  <2> QED
    BY <2>2, <2>3
<1> QED
  BY <1>1, <1>2 DEF KeepsKnowledge

LEMMA CommitRows ==
  ASSUME TypeInv, WorkInv, RowsInv, NEW a \in Apis, Commit(a)
  PROVE  RowsInv'
<1> DEFINE r == api[a]
<1>1. /\ r \in FlushedRequests /\ Decision(r) /\ Flushed(r) /\ r.at = "flushed"
      /\ r.forms \in SUBSET Words /\ r.kind \in Kinds /\ RequestKnows(r)
  BY RequestType DEF Commit, TypeInv, RowsInv
<1>2. /\ forms' = LinksAfter(r) /\ ignored' = ReviewsAfter(r)
      /\ rows' = [w \in Words |-> IF w \in Changed(r) /\ rows[w] # NoRow
                                  THEN Merged(rows[w], r.read[w], r.write[w]) ELSE rows[w]]
      /\ crossed' = (crossed \ r.forms) \cup r.crossed
      /\ api' = MarkApis(r.forms, {}, {a}) /\ work' = MarkWork(r.forms, {})
  BY DEF Commit
<1>3. Published' = Published /\ Published \subseteq Words
  BY CommitIsQuiet DEF Published, TypeInv, TypeOK
<1>4. ASSUME NEW w, w \notin r.forms PROVE LeftAlone(w)
  <2>1. /\ \A l \in Lexemes : <<w, l>> \in forms' <=> <<w, l>> \in forms
        /\ w \in ignored' <=> w \in ignored
    BY <1>1, <1>2, <1>4, OtherWords
  <2>2. w \in Published => rows'[w] = rows[w]
    BY <1>2, <1>3, <1>4 DEF Changed
  <2> QED
    BY <1>3, <2>1, <2>2 DEF LeftAlone
<1>5. KeepsKnowledge
  <2>1. {} \in SUBSET Words
    OBVIOUS
  <2> HIDE DEF r
  <2> QED
    BY <1>1, <1>2, <1>4, <2>1, MarksKeepKnowledge
<1>6. ASSUME NEW w \in Published' \ crossed' PROVE rows'[w] = StateOf(w, forms', ignored')
  <2>1. CASE w \in r.forms
    <3>1. w \notin r.crossed /\ w \in Published /\ w \in Words
      BY <1>2, <1>3, <1>6
    <3>2. /\ r.write[w] = StateOf(w, forms', ignored') /\ rows[w] = r.read[w]
      BY <1>1, <1>2, <2>1, <3>1 DEF RequestKnows, StillRead
    <3>3. rows[w] # NoRow /\ rows[w] \in Row
      BY <3>1 DEF WorkInv, TypeInv, TypeOK
    <3>4. r.write[w] \in Row
      BY <3>2, StateOfType
    <3>5. CASE w \in Changed(r)
      <4>1. rows'[w] = Merged(rows[w], rows[w], r.write[w])
        BY <1>2, <3>1, <3>2, <3>3, <3>5
      <4> QED
        BY <3>2, <3>3, <3>4, <4>1, MergedIsWritten
    <3>6. CASE w \notin Changed(r)
      <4>1. r.read[w] = r.write[w]
        BY <2>1, <3>2, <3>3, <3>6 DEF Changed
      <4> QED
        BY <1>2, <3>1, <3>2, <3>6, <4>1
    <3> QED
      BY <3>5, <3>6
  <2>2. CASE w \notin r.forms
    <3>1. LeftAlone(w) /\ w \notin crossed
      BY <1>2, <1>4, <1>6, <2>2
    <3>2. StateOf(w, forms', ignored') = StateOf(w, forms, ignored)
      BY <3>1, SameDecision DEF LeftAlone
    <3>3. rows'[w] = rows[w] /\ w \in Published
      BY <1>6, <3>1 DEF LeftAlone
    <3> QED
      BY <3>1, <3>2, <3>3 DEF RowsInv
  <2> QED
    BY <2>1, <2>2
<1> QED
  BY <1>5, <1>6, KnowledgeStays DEF RowsInv

LEMMA CommitIndexRows ==
  ASSUME TypeInv, WorkInv, RowsInv, NEW v \in Workers, CommitIndexTxn(v)
  PROVE  RowsInv'
<1> DEFINE t  == work[v]
           ws == DOMAIN t.write
<1>1. /\ t.kind # "idle" /\ t \in IndexTxns /\ Txn(t) /\ TxnKnows(t)
      /\ t.kind \in {"publish", "clear", "rebuild"}
  BY WorkType, CommittedWords DEF CommitIndexTxn, WorkInv, RowsInv
<1>2. /\ UNCHANGED <<forms, ignored>> /\ crossed' = (crossed \ ws) \cup (t.crossed \cap ws)
  BY DEF CommitIndexTxn, decisions
<1>3. /\ ws \in SUBSET Words /\ work' = MarkWork(ws, {v})
      /\ \E gone \in SUBSET Words : api' = MarkApis(ws, gone, {})
  BY CommitIndexType
<1>4. Published \subseteq Words /\ Published' \subseteq Words
  BY CommitIndexType DEF Published, TypeInv, TypeOK
<1>5. ASSUME NEW w \in Published', w \notin ws PROVE w \in Published /\ rows'[w] = rows[w]
  <2>1. w \in Published
    BY <1>1, <1>5, CommittedWords DEF Txn
  <2>2. ~(t.kind = "rebuild" /\ w \in t.held)
    BY <1>1, <1>5, <2>1 DEF Txn
  <2> QED
    BY <1>4, <1>5, <2>1, <2>2, CommittedRows
<1>6. \A w : w \notin ws => LeftAlone(w)
  BY <1>2, <1>5 DEF LeftAlone
<1>7. KeepsKnowledge
  <2>1. PICK gone \in SUBSET Words : api' = MarkApis(ws, gone, {})
    BY <1>3
  <2> HIDE DEF t, ws
  <2> QED
    BY <1>3, <1>6, <2>1, MarksKeepKnowledge
<1>8. ASSUME NEW w \in Published' \ crossed' PROVE rows'[w] = StateOf(w, forms', ignored')
  <2>1. CASE w \in ws
    <3>1. w \notin t.crossed /\ w \in Words
      BY <1>2, <1>4, <1>8, <2>1
    <3>2. t.write[w] = StateOf(w, forms, ignored) /\ StillRead(w, t.read)
      BY <1>1, <2>1, <3>1 DEF TxnKnows
    <3>3. CASE w \in t.held
      BY <1>2, <2>1, <3>1, <3>2, <3>3, CommittedRows
    <3>4. CASE w \notin t.held
      <4>1. t.kind = "clear" /\ w \in WordsIn(t.doc) /\ phase[t.doc] = "completed"
        BY <1>1, <2>1, <3>4 DEF Txn
      <4>2. w \in Published
        BY <4>1, WordsInMeans, PublishedMeans
      <4>3. rows[w] \in Row /\ t.read[w] = rows[w]
        BY <3>1, <3>2, <4>2 DEF WorkInv, TypeInv, TypeOK, StillRead
      <4>4. t.write[w] \in Row
        BY <3>2, StateOfType
      <4>5. rows'[w] = Merged(rows[w], rows[w], t.write[w])
        BY <2>1, <3>1, <3>4, <4>3, CommittedRows
      <4> QED
        BY <1>2, <3>2, <4>3, <4>4, <4>5, MergedIsWritten
    <3> QED
      BY <3>3, <3>4
  <2>2. CASE w \notin ws
    BY <1>2, <1>5, <1>8, <2>2 DEF RowsInv
  <2> QED
    BY <2>1, <2>2
<1> QED
  BY <1>7, <1>8, KnowledgeStays DEF RowsInv

LEMMA StartIndexRows ==
  ASSUME TypeInv, RowsInv, NEW v \in Workers, NEW kind, NEW d, NEW ws, NEW held,
         StartIndexTxn(v, kind, d, ws, held)
  PROVE  RowsInv'
<1>1. UNCHANGED <<forms, ignored, occ, rows, phase, api, crossed>>
  BY DEF StartIndexTxn, decisions
<1>2. NoNewRow
  BY <1>1 DEF NoNewRow, Published
<1>3. /\ \A u \in Workers \ {v} : work'[u] = work[u]
      /\ work'[v].write = [w \in ws |-> StateOf(w, forms, ignored)]
      /\ work'[v].read = [w \in ws |-> rows[w]]
  BY DEF StartIndexTxn, TypeInv
<1>4. TxnKnows(work[v])'
  <2>1. DOMAIN work'[v].write = ws
    BY <1>3
  <2>2. ASSUME NEW w \in ws
        PROVE  work'[v].write[w] = StateOf(w, forms', ignored') /\ rows'[w] = work'[v].read[w]
    BY <1>1, <1>3, <2>2
  <2> QED
    BY <2>1, <2>2 DEF TxnKnows, StillRead
<1> QED
  BY <1>1, <1>2, <1>3, <1>4, NoNewRowKeeps DEF RowsInv

LEMMA RowsStep == TypeInv /\ WorkInv /\ RowsInv /\ [Next]_vars => RowsInv'
<1> SUFFICES ASSUME TypeInv, WorkInv, RowsInv, [Next]_vars PROVE RowsInv'
  OBVIOUS
<1>1. CASE UNCHANGED vars
  <2>1. NoNewRow /\ UNCHANGED <<api, work>>
    BY <1>1 DEF vars, decisions, NoNewRow, Published
  <2> QED
    BY <2>1, NoNewRowKeeps DEF RowsInv
<1>2. ASSUME NEW a \in Apis, Request(a) PROVE RowsInv'
  <2>1. CASE Fail(a)
    <3>1. /\ UNCHANGED <<forms, ignored, occ, rows, phase, work, crossed>> /\ api'[a].at = "idle"
          /\ \A b \in Apis \ {a} : api'[b] = api[b]
      BY <2>1 DEF Fail, decisions, TypeInv, NoRequest
    <3>2. NoNewRow
      BY <3>1 DEF NoNewRow, Published
    <3> QED
      BY <3>1, <3>2, NoNewRowKeeps DEF RowsInv
  <2> QED
    BY <1>2, <2>1, BeginRows, FlushRows, CommitRows
    DEF Request, CreateLexeme, MergeGroups, IgnoreGroups, UnignoreGroups
<1>3. ASSUME NEW d \in Docs, StorePages(d) \/ CompleteDocument(d) \/ OpenWorkflow(d)
      PROVE  RowsInv'
  <2>1. UNCHANGED <<forms, ignored, rows, api, work, crossed>>
    BY <1>3 DEF StorePages, CompleteDocument, OpenWorkflow, decisions
  <2>2. Published' \subseteq Published
    <3>1. phase \in [Docs -> Phases] /\ \A o \in occ : o.doc \in Docs
      BY DEF TypeInv, TypeOK
    <3>2. CASE StorePages(d)
      BY <3>1, <3>2 DEF StorePages, Published
    <3>3. CASE CompleteDocument(d)
      BY <3>1, <3>3 DEF CompleteDocument, Published
    <3>4. CASE OpenWorkflow(d)
      BY <3>4 DEF OpenWorkflow, Published
    <3> QED
      BY <1>3, <3>2, <3>3, <3>4
  <2> QED
    BY <2>1, <2>2, NoNewRowKeeps DEF NoNewRow, RowsInv
<1>4. ASSUME NEW v \in Workers, NEW d, StartPublish(v, d) \/ StartClear(v, d) \/ StartRebuild(v)
      PROVE  RowsInv'
  BY <1>4, StartIndexRows DEF StartPublish, StartClear, StartRebuild
<1> QED
  BY <1>1, <1>2, <1>3, <1>4, CommitIndexRows, StepOfDocs

LEMMA RowsInvMeans == ASSUME TypeInv, WorkInv, RowsInv PROVE ListsFollowDecisions
<1>1. ASSUME NEW w \in Published \ crossed
      PROVE  /\ \A view \in Views : w \in ListGroups(view) <=> \E g \in GroupsOf(view) : g[1] = w
             /\ <<w, GroupDetail(w).lexeme>> \in GroupsOf("all")
  <2>1. w \in Words /\ rows[w] # NoRow /\ rows[w] = StateOf(w, forms, ignored)
    BY <1>1 DEF WorkInv, RowsInv, Published, TypeInv, TypeOK
  <2>2. DocsOf({w}) # {}
    BY <1>1 DEF Published, DocsOf
  <2> DEFINE has == \E l \in Lexemes : <<w, l>> \in forms
             own == IF has THEN "linked" ELSE IF w \in ignored THEN "ignored_noise" ELSE "unreviewed"
  <2>3. rows[w].state = own
    BY <2>1 DEF StateOf
  <2>4. /\ has => rows[w].lexeme \in Lexemes /\ <<w, rows[w].lexeme>> \in forms
        /\ ~has => rows[w].lexeme = NoLexeme
    BY <2>1 DEF StateOf
  <2>5. ASSUME NEW view PROVE <<w, rows[w].lexeme>> \in GroupsOf(view) <=> InView(w, own, view)
    <3>1. CASE has
      <4>1. rows[w].lexeme # NoLexeme /\ own = "linked"
        BY <2>4, <3>1, CurationAssumption
      <4> QED
        BY <2>1, <2>2, <2>4, <3>1, <4>1 DEF GroupsOf
    <3>2. CASE ~has
      <4>1. rows[w].lexeme = NoLexeme
        BY <2>4, <3>2
      <4> QED
        BY <2>1, <2>2, <3>2, <4>1 DEF GroupsOf
    <3> QED
      BY <3>1, <3>2
  <2>6. ASSUME NEW view, NEW g \in GroupsOf(view), g[1] = w PROVE InView(w, own, view)
    <3>1. /\ g \in Words \X (Lexemes \cup {NoLexeme})
          /\ IF g[2] = NoLexeme THEN \A l \in Lexemes : <<w, l>> \notin forms ELSE g \in forms
          /\ InView(w, IF g[2] # NoLexeme THEN "linked"
                       ELSE IF w \in ignored THEN "ignored_noise" ELSE "unreviewed", view)
      BY <2>6 DEF GroupsOf
    <3>2. g = <<w, g[2]>>
      BY <2>6, <3>1
    <3>3. CASE g[2] = NoLexeme
      BY <3>1, <3>3
    <3>4. CASE g[2] # NoLexeme
      BY <3>1, <3>2, <3>4
    <3> QED
      BY <3>3, <3>4
  <2> HIDE DEF has, own
  <2>7. \A view : w \in ListGroups(view) <=> InView(w, own, view)
    BY <2>1, <2>3 DEF ListGroups
  <2>8. GroupDetail(w).lexeme = rows[w].lexeme
    BY DEF GroupDetail
  <2>9. InView(w, own, "all")
    BY DEF InView
  <2> QED
    BY <2>5, <2>6, <2>7, <2>8, <2>9
<1>2. ASSUME NEW d \in Docs
      PROVE  /\ CountGroups(d).candidate = Cardinality(ListDocumentGroups(d, "candidates"))
             /\ CountGroups(d).linked = Cardinality(ListDocumentGroups(d, "linked"))
             /\ CountGroups(d).suspicious = Cardinality(ListDocumentGroups(d, "suspicious"))
             /\ CountGroups(d).ignored = Cardinality(ListDocumentGroups(d, "ignored"))
  <2> DEFINE groups == {w \in WordsIn(d) : rows[w] # NoRow}
  <2>1. WordsIn(d) \subseteq Words
    BY WordsInType DEF TypeInv
  <2>2. /\ {w \in groups : rows[w].state = "unreviewed" /\ w \in Armenian}
              = ListDocumentGroups(d, "candidates")
        /\ {w \in groups : rows[w].state = "linked"} = ListDocumentGroups(d, "linked")
        /\ {w \in groups : rows[w].state # "ignored_noise" /\ w \notin Armenian}
              = ListDocumentGroups(d, "suspicious")
        /\ {w \in groups : rows[w].state = "ignored_noise"} = ListDocumentGroups(d, "ignored")
    BY <2>1 DEF ListDocumentGroups, ListGroups, InView
  <2>3. /\ CountGroups(d).candidate
              = Cardinality({w \in groups : rows[w].state = "unreviewed" /\ w \in Armenian})
        /\ CountGroups(d).linked = Cardinality({w \in groups : rows[w].state = "linked"})
        /\ CountGroups(d).suspicious
              = Cardinality({w \in groups : rows[w].state # "ignored_noise" /\ w \notin Armenian})
        /\ CountGroups(d).ignored = Cardinality({w \in groups : rows[w].state = "ignored_noise"})
    BY DEF CountGroups
  <2> QED
    BY <2>2, <2>3
<1> QED
  BY <1>1, <1>2 DEF ListsFollowDecisions

\* Unless two transactions about a word overlapped, the lists of the index show each word of
\* the published documents under the decisions taken about it, where the query over the
\* occurrences finds it, whatever was linked, ignored, rebuilt, cleared and ingested again;
\* and the counts of a document are those of its lists.
THEOREM ListsAreRight == Spec => []ListsFollowDecisions
<1>1. Init => RowsInv
  BY DEF Init, RowsInv, Published, NoRequest, NoTxn
<1>2. TypeInv /\ WorkInv /\ RowsInv => ListsFollowDecisions
  BY RowsInvMeans
<1> QED
  BY <1>1, <1>2, TypeWorkInit, TypeWorkStep, RowsStep, PTL DEF Spec

===============================================================================
