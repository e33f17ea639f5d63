---------------------- MODULE DiscoveryCandidates_proofs ----------------------
(***************************************************************************)
(* Proofs about DiscoveryCandidates: what the rules of FormEvidence make   *)
(* of any evidence, what a source that is up to date was read by, and what *)
(* the builds leave of a row.                                              *)
(***************************************************************************)
EXTENDS DiscoveryCandidates, FiniteSetTheorems, SequenceTheorems, WellFoundedInduction, TLAPS

-------------------------------------------------------------------------------
(* The rules of the engine. *)

\* A rule gives a status its type, and only the first four resolve a form.
GoodRule(rule, i) ==
    /\ rule.verdict.status \in Statuses
    /\ rule.verdict.type = TypeOf(rule.verdict.status)
    /\ TypeOf(rule.verdict.status) = "known_suppressed" => i \in 1..4

LEMMA RulesAreGood ==
  ASSUME NEW t, NEW plausible, NEW items, NEW linked
  PROVE  LET rules == Rules(t, plausible, items, linked) IN
         /\ DOMAIN rules = 1..16 /\ rules[16].applies = TRUE
         /\ \A i \in 1..16 : GoodRule(rules[i], i)
<1> DEFINE rules == Rules(t, plausible, items, linked)
           Good(i) == GoodRule(rules[i], i)
<1>0. DOMAIN rules = 1..16 /\ rules[16].applies = TRUE
  BY DEF Rules
<1>1. Good(1)
  BY DEF Rules, Verdict, GoodRule, TypeOf, Statuses, SuppressedStatuses
<1>2. Good(2)
  BY DEF Rules, Verdict, GoodRule, TypeOf, Statuses, SuppressedStatuses
<1>3. Good(3)
  BY DEF Rules, Verdict, GoodRule, TypeOf, Statuses, SuppressedStatuses
<1>4. Good(4)
  BY DEF Rules, Verdict, GoodRule, TypeOf, Statuses, SuppressedStatuses
<1>5. Good(5)
  BY DEF Rules, Verdict, GoodRule, TypeOf, Statuses, SuppressedStatuses
<1>6. Good(6)
  BY DEF Rules, Verdict, GoodRule, TypeOf, Statuses, SuppressedStatuses
<1>7. Good(7)
  BY DEF Rules, Verdict, GoodRule, TypeOf, Statuses, SuppressedStatuses
<1>8. Good(8)
  BY DEF Rules, Verdict, GoodRule, TypeOf, Statuses, SuppressedStatuses
<1>9. Good(9)
  BY DEF Rules, Verdict, GoodRule, TypeOf, Statuses, SuppressedStatuses
<1>10. Good(10)
  BY DEF Rules, Verdict, GoodRule, TypeOf, Statuses, SuppressedStatuses
<1>11. Good(11)
  BY DEF Rules, Verdict, GoodRule, TypeOf, Statuses, SuppressedStatuses
<1>12. Good(12)
  BY DEF Rules, Verdict, GoodRule, TypeOf, Statuses, SuppressedStatuses
<1>13. Good(13)
  BY DEF Rules, Verdict, GoodRule, TypeOf, Statuses, SuppressedStatuses
<1>14. Good(14)
  BY DEF Rules, Verdict, GoodRule, TypeOf, Statuses, SuppressedStatuses
<1>15. Good(15)
  BY DEF Rules, Verdict, GoodRule, TypeOf, Statuses, SuppressedStatuses
<1>16. Good(16)
  BY DEF Rules, Verdict, GoodRule, TypeOf, Statuses, SuppressedStatuses
<1> HIDE DEF Good
<1>17. \A i \in 1..16 : Good(i)
  BY <1>1, <1>2, <1>3, <1>4, <1>5, <1>6, <1>7, <1>8, <1>9, <1>10, <1>11, <1>12, <1>13, <1>14,
     <1>15, <1>16
<1> QED
  BY <1>0, <1>17 DEF Good

\* A set of natural numbers that is not empty has a least one.
LEMMA LeastNumber ==
  ASSUME NEW S, S \subseteq Nat, S # {}
  PROVE  \E m \in S : \A j \in S : m <= j
<1>1. PICK m \in S : \A j \in S : <<j, m>> \notin OpToRel(<, Nat)
  BY NatLessThanWellFounded, WFMin
<1>2. \A j \in S : j \in Nat /\ m \in Nat /\ ~(j < m)
  BY <1>1 DEF OpToRel
<1> QED
  BY <1>2

\* A form gets the verdict of a rule that applies.
LEMMA ResolvedByRule ==
  ASSUME NEW t, NEW plausible, NEW items, NEW linked
  PROVE  LET rules == Rules(t, plausible, items, linked) IN
         \E i \in 1..16 : /\ rules[i].applies
                         /\ ResolveForm(t, plausible, items, linked) = rules[i].verdict
<1> DEFINE rules == Rules(t, plausible, items, linked)
           first == CHOOSE i \in DOMAIN rules :
                        rules[i].applies /\ \A j \in 1..(i - 1) : ~rules[j].applies
           applying == {i \in 1..16 : rules[i].applies = TRUE}
<1>1. DOMAIN rules = 1..16 /\ rules[16].applies = TRUE
  BY RulesAreGood
<1>2. ResolveForm(t, plausible, items, linked) = rules[first].verdict
  BY DEF ResolveForm
<1>3. PICK m \in applying : \A j \in applying : m <= j
  <2> HIDE DEF rules
  <2>1. applying \subseteq Nat /\ 16 \in applying
    BY <1>1
  <2> HIDE DEF applying
  <2> QED
    BY <2>1, LeastNumber
<1> HIDE DEF rules
<1>4. \E i \in DOMAIN rules : rules[i].applies /\ \A j \in 1..(i - 1) : ~rules[j].applies
  BY <1>1, <1>3
<1>5. first \in DOMAIN rules /\ rules[first].applies
  BY <1>4
<1> QED
  BY <1>1, <1>2, <1>5 DEF rules
LEMMA ResolvedStatus ==
  ASSUME NEW t, NEW plausible, NEW items, NEW linked
  PROVE  LET verdict == ResolveForm(t, plausible, items, linked) IN
         verdict.status \in Statuses /\ verdict.type = TypeOf(verdict.status)
<1> DEFINE rules == Rules(t, plausible, items, linked)
<1>1. PICK i \in 1..16 : ResolveForm(t, plausible, items, linked) = rules[i].verdict
  BY ResolvedByRule
<1>2. GoodRule(rules[i], i)
  BY RulesAreGood
<1> HIDE DEF rules
<1> QED
  BY <1>1, <1>2 DEF GoodRule

\* The items that may resolve a form.
Resolves(i) == IsKnownDirect(i) \/ IsDictionaryDirect(i) \/ IsLemmaMatch(i) \/ IsVariantMatch(i)

\* A form that is suppressed as known is linked or has such an item.
LEMMA KnownHasItem ==
  ASSUME NEW t, NEW plausible, NEW items, NEW linked,
         TypeOf(ResolveForm(t, plausible, items, linked).status) = "known_suppressed"
  PROVE  linked \/ \E i \in items : Resolves(i)
<1> DEFINE rules == Rules(t, plausible, items, linked)
           Found == linked \/ \E i \in items : Resolves(i)
<1>1. PICK i \in 1..16 : /\ rules[i].applies
                         /\ ResolveForm(t, plausible, items, linked) = rules[i].verdict
  BY ResolvedByRule
<1>2. GoodRule(rules[i], i)
  BY RulesAreGood
<1>3. rules[1].applies => Found
  BY DEF Rules, BestEvidence, Resolves
<1>4. rules[2].applies => Found
  BY DEF Rules, BestEvidence, Resolves
<1>5. rules[3].applies => Found
  BY DEF Rules, BestEvidence, Resolves
<1>6. rules[4].applies => Found
  BY DEF Rules, BestEvidence, Resolves
<1> HIDE DEF rules, Found
<1>7. i \in 1..4
  BY <1>1, <1>2 DEF GoodRule
<1>8. Found
  BY <1>1, <1>3, <1>4, <1>5, <1>6, <1>7
<1> QED
  BY <1>8 DEF Found

-------------------------------------------------------------------------------
(* The evidence. *)

\* What may resolve a form: a lexeme, a defined entry, an approved headword.
Trusted(k, mode) ==
    \/ k.lexeme # "none" \/ k.lemmaLexeme
    \/ \E x \in k.mapped : x.defined
    \/ mode = "full" /\ k.external = "approved"

LEMMA ReferencesResolve ==
  ASSUME NEW t, NEW k, NEW mode,
         NEW i \in ReferenceItems(t, k) \cup ReferenceLemmaItems(k, ResolveLexeme(k)),
         Resolves(i)
  PROVE  Trusted(k, mode)
<1>1. i.class.quality = "good"
  BY DEF Resolves, IsKnownDirect, IsDictionaryDirect, IsExactHeadword, IsLemmaMatch, IsVariantMatch
<1>2. CASE i \in ReferenceItems(t, k)
  BY <1>1, <1>2 DEF ReferenceItems, Item, Classify, Class, Rejected, Hit, ClassifyReference,
     ExactReference, Trusted
<1>3. CASE i \in ReferenceLemmaItems(k, ResolveLexeme(k))
  BY <1>1, <1>3 DEF ReferenceLemmaItems, Item, Class, Trusted
<1> QED
  BY <1>2, <1>3

\* What morphology and the corpus say, and what a page says in which nothing is defined.
LEMMA PlainClass ==
  ASSUME NEW t, NEW hit, hit.quality = "unknown", hit.fuzzy = FALSE,
         hit.role \in {"morphology_analysis", "corpus_attestation", "ambiguous_external"}
  PROVE  /\ Classify(t, hit).quality = "unknown"
         /\ DOMAIN Classify(t, hit) = {"match", "validation", "strength", "quality",
                                       "confidence", "exact"}
<1>2. \/ Classify(t, hit) = Rejected
      \/ Classify(t, hit) = Class("morphology_analysis_only", "suggests_candidate", "weak",
                                  "unknown", 35, FALSE)
      \/ Classify(t, hit) = ClassifyCorpus(hit.relation, hit.often)
      \/ Classify(t, hit) = Ambiguous("unknown")
  BY DEF Classify
<1> QED
  BY <1>2 DEF Class, Rejected, ClassifyCorpus, Ambiguous, Substring

\* Morphology, the corpus and names tell nothing of a definition, page texts match no headword.
LEMMA OthersDoNotResolve ==
  ASSUME NEW t, NEW k, NEW items, NEW often,
         NEW i \in MorphologyItems(t, k) \cup {ProfileAdjustedCorpus(CorpusItem(t, often), t.profile)}
                   \cup CorpusLemmaItems(t, k, ResolveLexeme(k)) \cup NerItems(t, k)
                   \cup StrictGate(t, items)
  PROVE  ~Resolves(i)
<1> DEFINE Plain == i.class.quality = "unknown"
<1>1. ASSUME i \in MorphologyItems(t, k) PROVE Plain
  <2> DEFINE hit == [Hit("morphology_analysis", "none", "unknown") EXCEPT !.digits = t.digits]
  <2>1. hit.role = "morphology_analysis" /\ hit.quality = "unknown" /\ hit.fuzzy = FALSE
    BY DEF Hit
  <2>2. i.class = [Classify(t, hit) EXCEPT !.confidence = i.class.confidence]
    BY <1>1 DEF MorphologyItems, Item
  <2> HIDE DEF hit
  <2>3. /\ Classify(t, hit).quality = "unknown"
        /\ "quality" \in DOMAIN Classify(t, hit)
    BY <2>1, PlainClass
  <2> QED
    BY <2>2, <2>3
<1>2. ASSUME i = ProfileAdjustedCorpus(CorpusItem(t, often), t.profile) PROVE Plain
  <2> DEFINE hit == [Hit("corpus_attestation", "equal", "unknown") EXCEPT !.often = often]
             item == CorpusItem(t, often)
  <2>1. hit.role = "corpus_attestation" /\ hit.quality = "unknown" /\ hit.fuzzy = FALSE
    BY DEF Hit
  <2>2. item.class = Classify(t, hit) /\ DOMAIN item = {"key", "type", "class", "form", "headword", "needs"}
    BY DEF CorpusItem, Item
  <2> HIDE DEF hit, item
  <2>3. item.class.quality = "unknown" /\ DOMAIN item.class = {"match", "validation", "strength",
                                                 "quality", "confidence", "exact"}
    BY <2>1, <2>2, PlainClass
  <2>4. CASE i = item
    BY <2>3, <2>4
  <2>5. CASE i = [item EXCEPT !.class.strength = i.class.strength,
                              !.class.confidence = i.class.confidence]
    BY <2>2, <2>3, <2>5
  <2> QED
    BY <1>2, <2>4, <2>5 DEF ProfileAdjustedCorpus, item
<1>3. ASSUME i \in CorpusLemmaItems(t, k, ResolveLexeme(k)) PROVE Plain
  BY <1>3 DEF CorpusLemmaItems, Item, Class
<1>4. ASSUME i \in NerItems(t, k) PROVE Plain
  BY <1>4 DEF NerItems, Item, Class
<1>5. ASSUME i \in StrictGate(t, items) PROVE Plain
  <2> DEFINE hit == [Hit("ambiguous_external", "none", "unknown") EXCEPT !.digits = t.digits]
  <2>1. hit.role = "ambiguous_external" /\ hit.quality = "unknown" /\ hit.fuzzy = FALSE
    BY DEF Hit
  <2>2. i.class = Classify(t, hit)
    BY <1>5 DEF StrictGate, Item
  <2> HIDE DEF hit
  <2> QED
    BY <2>1, <2>2, PlainClass
<1> HIDE DEF Plain
<1>6. Plain
  BY <1>1, <1>2, <1>3, <1>4, <1>5
<1> QED
  BY <1>6 DEF Plain, Resolves, IsKnownDirect, IsDictionaryDirect, IsExactHeadword, IsLemmaMatch,
     IsVariantMatch
LEMMA ExternalResolves ==
  ASSUME NEW t, NEW k, NEW i \in ExternalItems(t, k), Resolves(i)
  PROVE  k.external = "approved"
<1> DEFINE trusted == IsTrustedDictionaryEntry(k.external)
           quality == IF k.external = "approved_empty" THEN "unknown" ELSE "good"
           hit == [Hit(IF trusted THEN "web_dictionary" ELSE "ambiguous_external",
                       IF k.external = "fuzzy" THEN "none" ELSE "equal", quality)
                   EXCEPT !.digits = t.digits, !.fuzzy = k.external = "fuzzy",
                          !.allowShort = k.external # "fuzzy" /\ quality = "good"]
           class == Classify(t, hit)
<1>1. i.class = class
  BY DEF ExternalItems, Item
<1>2. hit.quality = quality /\ hit.role = (IF trusted THEN "web_dictionary" ELSE "ambiguous_external")
  BY DEF Hit
<1> HIDE DEF hit
<1>3. /\ class.quality = "good"
      /\ class.match \in {"exact_headword_match", "exact_lemma_match", "approved_variant_match"}
  BY <1>1 DEF Resolves, IsKnownDirect, IsDictionaryDirect, IsExactHeadword, IsLemmaMatch,
     IsVariantMatch
<1>4. hit.quality = "good" /\ hit.role = "web_dictionary"
  BY <1>2, <1>3 DEF Classify, Rejected, Class, Ambiguous, ClassifyReference, ExactReference,
     Substring
<1> QED
  BY <1>2, <1>4 DEF IsTrustedDictionaryEntry

\* Whatever is collected: an item resolves a form only by trusted evidence.
LEMMA EvidenceResolves ==
  ASSUME NEW t, NEW k, NEW mode, NEW i \in CollectEvidence(t, k, mode), Resolves(i)
  PROVE  Trusted(k, mode)
<1> DEFINE often == k.corpus = "often"
           local == CuratedItems(t, k) \cup ReferenceItems(t, k)
                    \cup CuratedLemmaItems(k, ResolveLexeme(k))
                    \cup ReferenceLemmaItems(k, ResolveLexeme(k)) \cup MorphologyItems(t, k)
           remote == {ProfileAdjustedCorpus(CorpusItem(t, often), t.profile)}
                     \cup CorpusLemmaItems(t, k, ResolveLexeme(k))
                     \cup NerItems(t, k) \cup ExternalItems(t, k)
<1>1. \/ i \in local
      \/ mode = "full" /\ i \in remote
      \/ \E items : i \in StrictGate(t, items)
  BY Zenon DEF CollectEvidence
<1>2. CASE i \in CuratedItems(t, k)
  BY <1>2 DEF CuratedItems, Trusted
<1>3. CASE i \in CuratedLemmaItems(k, ResolveLexeme(k))
  BY <1>3 DEF CuratedLemmaItems, Trusted
<1>4. CASE mode = "full" /\ i \in ExternalItems(t, k)
  BY <1>4, ExternalResolves DEF Trusted
<1> QED
  BY <1>1, <1>2, <1>3, <1>4, OthersDoNotResolve, ReferencesResolve
\* The canonical form is one of the forms.
IsItem(i) == \E key, type, class, headword : \E form \in Forms \cup {"none"} :
                 i = Item(key, type, class, form, headword)

LEMMA CollectedForms ==
  ASSUME NEW t, NEW k, NEW mode, NEW i \in CollectEvidence(t, k, mode)
  PROVE  i.form \in Forms \cup {"none"}
<1> DEFINE often == k.corpus = "often"
           item  == CorpusItem(t, often)
           Known == IsItem(i)
<1>1. \/ i \in CuratedItems(t, k) \cup ReferenceItems(t, k)
            \cup CuratedLemmaItems(k, ResolveLexeme(k))
            \cup ReferenceLemmaItems(k, ResolveLexeme(k)) \cup MorphologyItems(t, k)
      \/ i \in CorpusLemmaItems(t, k, ResolveLexeme(k)) \cup NerItems(t, k)
               \cup ExternalItems(t, k)
      \/ i = ProfileAdjustedCorpus(item, t.profile)
      \/ \E items : i \in StrictGate(t, items)
  BY Zenon DEF CollectEvidence
<1>2. ASSUME i \in CuratedItems(t, k) PROVE Known
  BY <1>2, Zenon DEF CuratedItems, IsItem, Forms
<1>3. ASSUME i \in ReferenceItems(t, k) PROVE Known
  BY <1>3, Zenon DEF ReferenceItems, IsItem, Forms
<1>4. ASSUME i \in CuratedLemmaItems(k, ResolveLexeme(k)) PROVE Known
  BY <1>4, Zenon DEF CuratedLemmaItems, IsItem, Forms
<1>5. ASSUME i \in ReferenceLemmaItems(k, ResolveLexeme(k)) PROVE Known
  BY <1>5, Zenon DEF ReferenceLemmaItems, IsItem, Forms
<1>6. ASSUME i \in MorphologyItems(t, k) PROVE Known
  BY <1>6, Zenon DEF MorphologyItems, IsItem, Forms
<1>7. ASSUME i \in CorpusLemmaItems(t, k, ResolveLexeme(k)) PROVE Known
  BY <1>7, Zenon DEF CorpusLemmaItems, IsItem, Forms
<1>8. ASSUME i \in NerItems(t, k) PROVE Known
  BY <1>8, Zenon DEF NerItems, IsItem, Forms
<1>9. ASSUME i \in ExternalItems(t, k) PROVE Known
  BY <1>9, Zenon DEF ExternalItems, IsItem, Forms
<1>10. ASSUME NEW items, i \in StrictGate(t, items) PROVE Known
  BY <1>10, Zenon DEF StrictGate, IsItem, Forms
<1>11. item.form = "w" /\ DOMAIN item = {"key", "type", "class", "form", "headword", "needs"}
  BY DEF CorpusItem, Item
<1>12. ASSUME i = ProfileAdjustedCorpus(item, t.profile) PROVE i.form = "w"
  <2> HIDE DEF item
  <2> QED
    BY <1>11, <1>12 DEF ProfileAdjustedCorpus
<1>13. Known => i.form \in Forms \cup {"none"}
  BY DEF IsItem, Item
<1> HIDE DEF Known
<1>14. Known \/ i = ProfileAdjustedCorpus(item, t.profile)
  BY <1>1, <1>2, <1>3, <1>4, <1>5, <1>6, <1>7, <1>8, <1>9, <1>10
<1> QED
  BY <1>12, <1>13, <1>14 DEF Forms

LEMMA ResolvedLemma ==
  ASSUME NEW k
  PROVE  ResolveLexeme(k).lemma \in Forms \cup {"none"}
<1> DEFINE candidates == <<ApprovedMappingCandidate(k), CuratedLexemeFormCandidate(k),
                           ImportedReferenceCandidate(k)>>
           first == {i \in 1..3 : /\ candidates[i].source # "none"
                                  /\ \A j \in 1..(i - 1) : candidates[j].source = "none"}
           one == CHOOSE i \in first : TRUE
<1>1. ResolveLexeme(k) = IF first = {} THEN candidates[3] ELSE candidates[one]
  BY DEF ResolveLexeme
<1>2. candidates[1].lemma \in Forms \cup {"none"} /\ candidates[2].lemma \in Forms \cup {"none"}
      /\ candidates[3].lemma \in Forms \cup {"none"}
  BY DEF ApprovedMappingCandidate, CuratedLexemeFormCandidate, ImportedReferenceCandidate, Forms
<1> HIDE DEF candidates
<1>3. first # {} => one \in first
  OBVIOUS
<1>4. first # {} => one \in {1, 2, 3}
  BY <1>3
<1> HIDE DEF first, one
<1>5. CASE first = {}
  BY <1>1, <1>2, <1>5
<1>6. CASE first # {}
  <2>1. ResolveLexeme(k) = candidates[one]
    BY <1>1, <1>6
  <2> QED
    BY <2>1, <1>2, <1>4, <1>6
<1> QED
  BY <1>5, <1>6

LEMMA CanonicalForms ==
  ASSUME NEW t, NEW k, NEW mode
  PROVE  CanonicalFormCandidate(k, CollectEvidence(t, k, mode)) \in Forms \cup {"none"}
<1> DEFINE items  == CollectEvidence(t, k, mode)
           placed == {i \in items : CanonicalTier(i) < 6 /\ i.form # "none"}
           tier   == {i \in placed : \A j \in placed : CanonicalTier(i) <= CanonicalTier(j)}
           forms  == {i.form : i \in tier}
<1>1. forms \subseteq Forms \cup {"none"}
  BY CollectedForms
<1>2. ResolveCanonicalForm(items) = IF Cardinality(forms) # 1 THEN "none" ELSE CHOOSE f \in forms : TRUE
  BY DEF ResolveCanonicalForm
<1> HIDE DEF forms
<1>3. Cardinality(forms) = 1 => forms # {}
  BY FS_EmptySet
<1>4. ResolveCanonicalForm(items) \in Forms \cup {"none"}
  BY <1>1, <1>2, <1>3
<1> QED
  BY <1>4, ResolvedLemma DEF CanonicalFormCandidate

\* What a run makes of the evidence it read in this mode.
RightVerdict(new, evidence, mode) ==
    /\ new = [status |-> new.status, type |-> TypeOf(new.status), canonical |-> new.canonical,
              link |-> evidence.lexeme]
    /\ new.status \in Statuses /\ new.canonical \in Forms \cup {"none"}
    /\ TypeOf(new.status) = "known_suppressed" => Trusted(evidence, mode)

LEMMA JudgedRight ==
  ASSUME NEW evidence, NEW mode
  PROVE  RightVerdict(Judge(evidence, mode), evidence, mode)
<1> DEFINE how     == IF mode = "full" THEN "full" ELSE "refresh"
           items   == CollectEvidence(token, evidence, how)
           linked  == evidence.lexeme # "none"
           plausible == evidence.morphology # "none"
           verdict == ResolveForm(token, plausible, items, linked)
           new     == Judge(evidence, mode)
<1>1. new = [status |-> verdict.status, type |-> verdict.type,
             canonical |-> CanonicalFormCandidate(evidence, items), link |-> evidence.lexeme]
  BY DEF Judge
<1>2. verdict.status \in Statuses /\ verdict.type = TypeOf(verdict.status)
  BY ResolvedStatus
<1>3. CanonicalFormCandidate(evidence, items) \in Forms \cup {"none"}
  BY CanonicalForms
<1>4. TypeOf(verdict.status) = "known_suppressed" => Trusted(evidence, mode)
  <2> SUFFICES ASSUME TypeOf(verdict.status) = "known_suppressed" PROVE Trusted(evidence, mode)
    OBVIOUS
  <2>1. linked \/ \E i \in items : Resolves(i)
    BY KnownHasItem
  <2>2. CASE linked
    BY <2>2 DEF Trusted
  <2>3. CASE \E i \in items : Resolves(i)
    <3>1. Trusted(evidence, how)
      BY <2>3, EvidenceResolves
    <3> QED
      BY <3>1 DEF Trusted
  <2> QED
    BY <2>1, <2>2, <2>3
<1> HIDE DEF verdict, items, new
<1>5. /\ new.status = verdict.status /\ new.canonical = CanonicalFormCandidate(evidence, items)
      /\ new = [status |-> new.status, type |-> TypeOf(new.status), canonical |-> new.canonical,
                link |-> evidence.lexeme]
  BY <1>1, <1>2
<1>6. RightVerdict(new, evidence, mode)
  BY <1>2, <1>3, <1>4, <1>5 DEF RightVerdict
<1> QED
  BY <1>6 DEF new

-------------------------------------------------------------------------------
(* The inductive invariant. *)

KnownFields == {"mapping", "lexeme", "lemmaLexeme", "entries", "mapped", "corpus", "lemmaCorpus",
                "morphology", "ner", "external"}
RowFields  == Columns \cup {"review", "decision"}
RunFields  == {"mode", "import", "step", "read", "finished", "matched"}
ReadFields == {"step", "at", "present", "evidence", "row", "affected", "new"}

Steps == {"queued", "running", "read", "completed", "failed"}
Ended == {"completed", "failed"}
Links == {"none", "own", "l", "other"}

IsRow(r) ==
    /\ DOMAIN r = RowFields
    /\ r.status \in Statuses /\ r.link \in Links /\ r.canonical \in Forms \cup {"none"}
    /\ r.review = "reviewed" <=> r.decision # "none"

\* A run in this mode has judged what it read.
IsReading(read, mode, clock) ==
    /\ DOMAIN read = ReadFields
    /\ read.at \in 0..clock
    /\ read.row = Missing \/ IsRow(read.row)
    /\ read.evidence.lexeme \in Links
    /\ RightVerdict(read.new, read.evidence, mode)

IsRun(r, clock) ==
    /\ DOMAIN r = RunFields
    /\ r.mode \in Modes /\ r.step \in Steps
    /\ r.finished \in 0..clock /\ (r.finished > 0 <=> r.step \in Ended)
    /\ r.read = Unread \/ IsReading(r.read, r.mode, clock)
    /\ r.step \in {"read"} \cup Ended => r.read # Unread

ShapeInv ==
    /\ now \in Nat
    /\ DOMAIN known = KnownFields /\ known.lexeme \in {"none", "own", "l"}
    /\ row = Missing \/ IsRow(row)
    /\ Len(runs) \in Nat /\ DOMAIN runs = 1..Len(runs) /\ runs = [i \in 1..Len(runs) |-> runs[i]]
    /\ \A i \in DOMAIN runs : IsRun(runs[i], now)
    /\ DOMAIN imported = Sources /\ \A s \in Sources : imported[s] \in Seq(1..now)

-------------------------------------------------------------------------------
(* Times. *)

\* A refresh is of a completed import and reads its entries.
Refreshes(r, imports, clock) ==
    r.mode \in Sources => /\ imports[r.mode] # <<>> /\ r.import \in 1..clock
                          /\ r.read # Unread => /\ EntriesOf[r.mode] \subseteq r.read.evidence.mapped
                                                /\ r.read.at >= r.import

\* A full build reads the entries of every import that finished before.
ReadsAll(r, imports) ==
    r.mode = "full" /\ r.read # Unread =>
        \A s \in Sources : \A k \in DOMAIN imports[s] :
            imports[s][k] <= r.read.at => EntriesOf[s] \subseteq r.read.evidence.mapped

\* No run finished when an import did.
Apart(r, imports) == \A s \in Sources : \A k \in DOMAIN imports[s] : imports[s][k] # r.finished

InTime(r, imports, clock) ==
    Refreshes(r, imports, clock) /\ ReadsAll(r, imports) /\ Apart(r, imports)

TimesInv == \A i \in DOMAIN runs : InTime(runs[i], imported, now)

-------------------------------------------------------------------------------
(* Runs that do not overlap. *)

\* The only run that has read and not written finds status and type as it read them.
OverlapInv ==
    ~overlapped =>
        /\ row # Missing => row.type = TypeOf(row.status)
        /\ \A i, j \in DOMAIN runs : runs[i].step = "read" /\ runs[j].step = "read" => i = j
        /\ \A i \in DOMAIN runs :
              runs[i].step = "read" /\ row # Missing /\ runs[i].read.row # Missing =>
                  row.status = runs[i].read.row.status /\ row.type = runs[i].read.row.type

IInv == ShapeInv /\ TimesInv /\ OverlapInv

-------------------------------------------------------------------------------
(* What the steps leave alone. *)

LEMMA MissingIsNoRow == ASSUME NEW r, IsRow(r) PROVE r # Missing
BY DEF IsRow, RowFields, Columns, Missing

LEMMA ReadingIsRead ==
  ASSUME NEW read, NEW mode, NEW clock, IsReading(read, mode, clock) PROVE read # Unread
BY DEF IsReading, ReadFields, Unread

LEMMA LaterRun ==
  ASSUME NEW r, NEW c \in Nat, NEW d \in Nat, c <= d, IsRun(r, c)
  PROVE  IsRun(r, d)
<1>1. r.finished \in 0..d
  BY DEF IsRun
<1>2. IsReading(r.read, r.mode, c) => IsReading(r.read, r.mode, d)
  BY DEF IsReading
<1> QED
  BY <1>1, <1>2 DEF IsRun

LEMMA LaterTime ==
  ASSUME NEW r, NEW imports, NEW c \in Nat, NEW d \in Nat, c <= d, InTime(r, imports, c)
  PROVE  InTime(r, imports, d)
<1>1. Refreshes(r, imports, d)
  BY DEF InTime, Refreshes
<1> QED
  BY <1>1 DEF InTime

\* A step that touches neither runs nor imports.
LEMMA QuietStep ==
  ASSUME IInv, UNCHANGED <<imported, runs, now, overlapped>>,
         DOMAIN known' = KnownFields, known'.lexeme \in {"none", "own", "l"},
         \/ row' = row
         \/ row # Missing /\ IsRow(row') /\ row'.status = row.status /\ row'.type = row.type
  PROVE  IInv'
<1>1. ShapeInv'
  BY DEF IInv, ShapeInv
<1>2. TimesInv'
  BY DEF IInv, TimesInv
<1>3. OverlapInv'
  BY Zenon, MissingIsNoRow DEF IInv, OverlapInv
<1> QED
  BY <1>1, <1>2, <1>3 DEF IInv

LEMMA IsList ==
  ASSUME NEW n \in Nat, NEW s, s = [i \in 1..n |-> s[i]]
  PROVE  s \in Seq({s[i] : i \in 1..n}) /\ Len(s) = n
<1>1. s \in [1..n -> {s[i] : i \in 1..n}]
  OBVIOUS
<1>2. s \in Seq({s[i] : i \in 1..n})
  BY <1>1
<1> QED
  BY <1>1, <1>2

LEMMA LargerSeq == ASSUME NEW S, NEW T, S \subseteq T, NEW s \in Seq(S) PROVE s \in Seq(T)
<1>1. Len(s) \in Nat /\ s \in [1..Len(s) -> S]
  OBVIOUS
<1>2. s \in [1..Len(s) -> T]
  BY <1>1
<1> QED
  BY <1>1, <1>2

LEMMA AppendOf ==
  ASSUME NEW n \in Nat, NEW s, s = [i \in 1..n |-> s[i]], NEW x
  PROVE  LET t == Append(s, x) IN
         /\ Len(t) = n + 1 /\ DOMAIN t = 1..(n + 1) /\ t = [i \in 1..(n + 1) |-> t[i]]
         /\ t[n + 1] = x
         /\ \A i \in 1..n : t[i] = s[i]
<1> DEFINE S == {s[i] : i \in 1..n}
           T == S \cup {x}
           t == Append(s, x)
<1>1. s \in Seq(S) /\ Len(s) = n
  BY IsList
<1> HIDE DEF S
<1>2. s \in Seq(T) /\ x \in T
  BY <1>1, LargerSeq
<1> HIDE DEF T
<1>3. /\ t \in Seq(T) /\ Len(t) = Len(s) + 1 /\ t[Len(s) + 1] = x
      /\ \A i \in 1..Len(s) : t[i] = s[i]
  BY <1>2, AppendProperties
<1> HIDE DEF t
<1>4. DOMAIN t = 1..(n + 1) /\ t = [i \in 1..(n + 1) |-> t[i]]
  BY <1>1, <1>3
<1> QED
  BY <1>1, <1>3, <1>4 DEF t

LEMMA AddedRun ==
  ASSUME IInv, NEW r, runs' = Append(runs, r), IsRun(r, now), InTime(r, imported, now),
         r.step = "queued", UNCHANGED <<known, row, imported, now, overlapped>>
  PROVE  IInv'
<1> DEFINE n == Len(runs)
<1>1. n \in Nat /\ DOMAIN runs = 1..n /\ runs = [i \in 1..n |-> runs[i]]
  BY DEF IInv, ShapeInv
<1>2. /\ Len(runs') = n + 1 /\ DOMAIN runs' = 1..(n + 1) /\ runs'[n + 1] = r
      /\ \A i \in 1..n : runs'[i] = runs[i]
      /\ runs' = [i \in 1..(n + 1) |-> runs'[i]]
  <2> HIDE DEF n
  <2> QED
    BY <1>1, AppendOf
<1> HIDE DEF n
<1>3. ShapeInv'
  <2>1. \A i \in DOMAIN runs' : IsRun(runs'[i], now')
    BY <1>1, <1>2 DEF IInv, ShapeInv
  <2> QED
    BY <1>1, <1>2, <2>1 DEF IInv, ShapeInv
<1>4. TimesInv'
  BY <1>1, <1>2 DEF IInv, TimesInv
<1>5. OverlapInv'
  <2>1. \A i \in DOMAIN runs' : runs'[i].step = "read" => i \in DOMAIN runs /\ runs'[i] = runs[i]
    BY <1>1, <1>2
  <2> QED
    BY <2>1, Zenon DEF IInv, OverlapInv
<1> QED
  BY <1>3, <1>4, <1>5 DEF IInv

LEMMA ChangedRun ==
  ASSUME IInv, NEW i \in DOMAIN runs, NEW r, runs' = [runs EXCEPT ![i] = r],
         now' \in Nat, now <= now', IsRun(r, now'), InTime(r, imported, now'),
         UNCHANGED <<known, imported>>, row' = Missing \/ IsRow(row')
  PROVE  /\ ShapeInv' /\ TimesInv'
         /\ DOMAIN runs' = DOMAIN runs /\ runs'[i] = r
         /\ \A j \in DOMAIN runs : j # i => runs'[j] = runs[j]
<1>1. /\ DOMAIN runs' = DOMAIN runs /\ runs'[i] = r
      /\ \A j \in DOMAIN runs : j # i => runs'[j] = runs[j]
  OBVIOUS
<1>2. now \in Nat /\ Len(runs) \in Nat /\ DOMAIN runs = 1..Len(runs)
  BY DEF IInv, ShapeInv
<1> DEFINE n == Len(runs)
<1>3. Len(runs') = n /\ runs' = [j \in 1..n |-> runs'[j]]
  <2>1. n \in Nat /\ DOMAIN runs = 1..n
    BY <1>2
  <2> HIDE DEF n
  <2> DEFINE t == [runs EXCEPT ![i] = r]
  <2>2. t = [j \in 1..n |-> t[j]]
    BY <2>1
  <2>3. runs' = t
    OBVIOUS
  <2> HIDE DEF t
  <2>4. Len(t) = n
    BY <2>1, <2>2, IsList
  <2> QED
    BY <2>2, <2>3, <2>4
<1>4. \A j \in DOMAIN runs : IsRun(runs'[j], now')
  BY <1>1, <1>2, LaterRun DEF IInv, ShapeInv
<1>5. \A j \in DOMAIN runs : InTime(runs'[j], imported, now')
  BY <1>1, <1>2, LaterTime DEF IInv, TimesInv
<1>6. \A s \in Sources : imported[s] \in Seq(1..now')
  <2> TAKE s \in Sources
  <2>1. imported[s] \in Seq(1..now) /\ 1..now \subseteq 1..now'
    BY <1>2 DEF IInv, ShapeInv
  <2> QED
    BY <2>1, LargerSeq
<1>7. ShapeInv'
  BY <1>1, <1>2, <1>3, <1>4, <1>6 DEF IInv, ShapeInv
<1>8. TimesInv'
  BY <1>1, <1>5 DEF TimesInv
<1> QED
  BY <1>1, <1>7, <1>8

-------------------------------------------------------------------------------
(* The steps keep the invariant. *)

LEMMA ImportKeepsIInv == ASSUME IInv, NEW s \in Sources, ImportCompletes(s) PROVE IInv'
<1> DEFINE later == Append(imported[s], now + 1)
           n == Len(imported[s])
<1>1. /\ now \in Nat /\ now' = now + 1 /\ imported' = [imported EXCEPT ![s] = later]
      /\ UNCHANGED <<known, row, runs, overlapped>>
  BY DEF ImportCompletes, IInv, ShapeInv
<1>2. imported[s] \in Seq(1..now) /\ DOMAIN imported = Sources /\ n \in Nat
  BY DEF IInv, ShapeInv
<1>3. \A i \in DOMAIN runs : IsRun(runs[i], now) /\ InTime(runs[i], imported, now)
  BY DEF IInv, ShapeInv, TimesInv
<1>4. 1..now \subseteq 1..(now + 1) /\ now + 1 \in 1..(now + 1)
  BY <1>1
<1>5. later \in Seq(1..(now + 1))
  <2>1. imported[s] \in Seq(1..(now + 1))
    BY <1>2, <1>4, LargerSeq
  <2> QED
    BY <1>4, <2>1
<1>6. /\ DOMAIN later = 1..(n + 1) /\ later[n + 1] = now + 1 /\ later # <<>>
      /\ \A k \in DOMAIN imported[s] : later[k] = imported[s][k]
  <2> DEFINE old == imported[s]
             time == now + 1
  <2>1. old \in Seq(1..time) /\ time \in 1..time
    BY <1>2, <1>4, LargerSeq
  <2> HIDE DEF old, time
  <2>2. /\ Len(Append(old, time)) = Len(old) + 1
        /\ \A k \in 1..Len(old) : Append(old, time)[k] = old[k]
        /\ Append(old, time)[Len(old) + 1] = time
        /\ Append(old, time) \in Seq(1..time)
    BY <2>1, AppendProperties
  <2>3. DOMAIN Append(old, time) = 1..(Len(old) + 1) /\ DOMAIN old = 1..Len(old) /\ Len(old) \in Nat
    BY <2>1, <2>2
  <2>4. Append(old, time) # <<>>
    BY <2>3
  <2> QED
    BY <2>2, <2>3, <2>4 DEF old, time
<1> HIDE DEF later, n
<1>7. /\ DOMAIN imported' = Sources /\ imported'[s] = later
      /\ \A x \in Sources : x # s => imported'[x] = imported[x]
  BY <1>1, <1>2
<1>8. \A x \in Sources : imported'[x] \in Seq(1..now')
  <2> TAKE x \in Sources
  <2>1. imported[x] \in Seq(1..now)
    BY DEF IInv, ShapeInv
  <2>2. imported[x] \in Seq(1..(now + 1))
    BY <1>4, <2>1, LargerSeq
  <2> QED
    BY <1>1, <1>5, <1>7, <2>2
<1>9. ShapeInv'
  <2>1. \A i \in DOMAIN runs : IsRun(runs[i], now + 1)
    BY <1>1, <1>3, LaterRun
  <2> QED
    BY <1>1, <1>7, <1>8, <2>1 DEF IInv, ShapeInv
<1>10. \A x \in Sources : \A k \in DOMAIN imported'[x] :
          \/ k \in DOMAIN imported[x] /\ imported'[x][k] = imported[x][k]
          \/ imported'[x][k] = now + 1
  <2> TAKE x \in Sources
  <2> TAKE k \in DOMAIN imported'[x]
  <2>1. CASE x = s
    <3>1. k \in 1..(n + 1) /\ DOMAIN imported[s] = 1..n
      BY <1>2, <1>6, <1>7, <2>1 DEF n
    <3>2. k \in DOMAIN imported[s] \/ k = n + 1
      BY <1>2, <3>1
    <3> QED
      BY <1>6, <1>7, <2>1, <3>2
  <2>2. CASE x # s
    BY <1>7, <2>2
  <2> QED
    BY <2>1, <2>2
<1>11. ASSUME NEW i \in DOMAIN runs PROVE InTime(runs[i], imported', now + 1)
  <2> DEFINE r == runs[i]
  <2>1. IsRun(r, now) /\ InTime(r, imported, now + 1)
    BY <1>1, <1>3, LaterTime
  <2> HIDE DEF r
  <2>2. Refreshes(r, imported', now + 1)
    BY <1>6, <1>7, <2>1 DEF InTime, Refreshes
  <2>3. r.read # Unread => r.read.at <= now
    BY <1>1, <2>1 DEF IsRun, IsReading
  <2>4. ReadsAll(r, imported')
    <3> SUFFICES ASSUME r.mode = "full", r.read # Unread, NEW x \in Sources,
                        NEW k \in DOMAIN imported'[x], imported'[x][k] <= r.read.at
                 PROVE  EntriesOf[x] \subseteq r.read.evidence.mapped
      BY DEF ReadsAll
    <3>1. r.read.at \in Nat
      BY <2>1 DEF IsRun, IsReading
    <3>2. imported'[x][k] # now + 1
      BY <1>1, <2>3, <3>1
    <3> QED
      BY <1>10, <2>1, <3>2 DEF InTime, ReadsAll
  <2>5. r.finished # now + 1
    BY <1>1, <2>1 DEF IsRun
  <2>6. Apart(r, imported')
    BY <1>10, <2>1, <2>5 DEF InTime, Apart
  <2>7. InTime(r, imported', now + 1)
    BY <2>2, <2>4, <2>6 DEF InTime
  <2> QED
    BY <2>7 DEF r
<1>12. TimesInv'
  BY <1>1, <1>11 DEF TimesInv
<1>13. OverlapInv'
  BY <1>1 DEF IInv, OverlapInv
<1> QED
  BY <1>9, <1>12, <1>13 DEF IInv

LEMMA ImportTimes ==
  ASSUME IInv, NEW s \in Sources, NEW k \in DOMAIN imported[s]
  PROVE  imported[s][k] \in 1..now
<1> DEFINE S == 1..now
<1>1. imported[s] \in Seq(S)
  BY DEF IInv, ShapeInv
<1> HIDE DEF S
<1>2. imported[s][k] \in S
  BY <1>1
<1> QED
  BY <1>2 DEF S

LEMMA NewRunIsRight ==
  ASSUME IInv, NEW mode \in Modes, NEW import,
         mode \in Sources => imported[mode] # <<>> /\ import \in 1..now
  PROVE  LET r == NewRun(mode, import) IN
         IsRun(r, now) /\ InTime(r, imported, now) /\ r.step = "queued"
<1> DEFINE r == NewRun(mode, import)
<1>1. /\ DOMAIN r = RunFields /\ r.mode = mode /\ r.import = import /\ r.step = "queued"
      /\ r.read = Unread /\ r.finished = 0
  BY DEF NewRun, RunFields
<1> HIDE DEF r
<1>2. now \in Nat /\ \A s \in Sources : imported[s] \in Seq(1..now)
  BY DEF IInv, ShapeInv
<1>3. IsRun(r, now)
  BY <1>1, <1>2 DEF IsRun, Steps, Ended
<1>4. \A s \in Sources : \A k \in DOMAIN imported[s] : imported[s][k] # 0
  <2> SUFFICES ASSUME NEW s \in Sources, NEW k \in DOMAIN imported[s] PROVE imported[s][k] # 0
    OBVIOUS
  <2>1. imported[s][k] \in 1..now
    BY ImportTimes
  <2> QED
    BY <1>2, <2>1
<1>5. InTime(r, imported, now)
  BY <1>1, <1>4 DEF InTime, Refreshes, ReadsAll, Apart
<1> QED
  BY <1>1, <1>3, <1>5 DEF r

LEMMA LatestImportIsPast ==
  ASSUME IInv, NEW s \in Sources, imported[s] # <<>>
  PROVE  Len(imported[s]) \in DOMAIN imported[s] /\ LatestImport(s) \in 1..now
<1> DEFINE times == imported[s]
<1>1. times \in Seq(1..now) /\ times # <<>>
  BY DEF IInv, ShapeInv
<1> HIDE DEF times
<1>2. Len(times) # 0 /\ Len(times) \in Nat /\ DOMAIN times = 1..Len(times)
  BY <1>1, EmptySeq
<1>3. Len(times) \in DOMAIN times
  BY <1>2
<1>4. times[Len(times)] \in 1..now
  <2> DEFINE S == 1..now
  <2>1. times \in Seq(S)
    BY <1>1
  <2> HIDE DEF S
  <2>2. times[Len(times)] \in S
    BY <1>3, <2>1
  <2> QED
    BY <2>2 DEF S
<1> QED
  BY <1>3, <1>4 DEF times, LatestImport

LEMMA StartBuildKeepsIInv == ASSUME IInv, StartBuild PROVE IInv'
BY NewRunIsRight, AddedRun, NamesAssumption DEF StartBuild, Modes

LEMMA StartRefreshKeepsIInv ==
  ASSUME IInv, NEW s \in Sources, NEW named, StartRefresh(s, named) PROVE IInv'
<1>1. imported[s] # <<>> /\ LatestImport(s) \in 1..now
  BY LatestImportIsPast DEF StartRefresh
<1> QED
  BY <1>1, NewRunIsRight, AddedRun DEF StartRefresh, Modes

LEMMA BeginKeepsIInv == ASSUME IInv, NEW i \in DOMAIN runs, BeginRun(i) PROVE IInv'
<1> DEFINE old == runs[i]
           r == [old EXCEPT !.step = "running"]
<1>1. /\ runs' = [runs EXCEPT ![i] = r] /\ old.step = "queued"
      /\ UNCHANGED <<known, row, imported, now, overlapped>>
  BY DEF BeginRun
<1>2. now \in Nat /\ (row = Missing \/ IsRow(row)) /\ IsRun(old, now) /\ InTime(old, imported, now)
  BY DEF IInv, ShapeInv, TimesInv
<1> HIDE DEF old
<1>3. /\ DOMAIN r = RunFields /\ r.mode = old.mode /\ r.import = old.import /\ r.step = "running"
      /\ r.read = old.read /\ r.finished = old.finished
  BY <1>2 DEF IsRun, RunFields
<1> HIDE DEF r
<1>4. IsRun(r, now)
  BY <1>1, <1>2, <1>3 DEF IsRun, Steps, Ended
<1>5. InTime(r, imported, now)
  BY <1>2, <1>3 DEF InTime, Refreshes, ReadsAll, Apart
<1>6. /\ ShapeInv' /\ TimesInv' /\ DOMAIN runs' = DOMAIN runs /\ runs'[i] = r
      /\ \A j \in DOMAIN runs : j # i => runs'[j] = runs[j]
  <2>1. /\ now' \in Nat /\ now <= now' /\ IsRun(r, now') /\ InTime(r, imported, now')
        /\ known' = known /\ imported' = imported /\ (row' = Missing \/ IsRow(row'))
    BY <1>1, <1>2, <1>4, <1>5
  <2> QED
    BY <1>1, <2>1, ChangedRun
<1>7. \A j \in DOMAIN runs' : runs'[j].step = "read" => j \in DOMAIN runs /\ runs'[j] = runs[j]
  BY <1>3, <1>6
<1>8. OverlapInv'
  <2>1. row' = row /\ overlapped' = overlapped
    BY <1>1
  <2> QED
    BY <1>7, <2>1, Zenon DEF IInv, OverlapInv
<1> QED
  BY <1>6, <1>8 DEF IInv

LEMMA EvidenceIsRight ==
  ASSUME IInv, NEW mode
  PROVE  LET evidence == EvidenceFor(mode) IN
         /\ evidence.lexeme \in Links
         /\ evidence.mapped = IF mode = "full" THEN EntriesImported
                              ELSE IF imported[mode] # <<>> THEN EntriesOf[mode] ELSE {}
BY DEF EvidenceFor, IInv, ShapeInv, KnownFields, Links

LEMMA ReadKeepsIInv == ASSUME IInv, NEW i \in DOMAIN runs, ReadEvidence(i) PROVE IInv'
<1> DEFINE old == runs[i]
           evidence == EvidenceFor(old.mode)
           new  == Judge(evidence, old.mode)
           read == [step |-> "read", at |-> now, present |-> present, evidence |-> evidence, row |-> row,
                    affected |-> old.mode = "full" \/ IsAffected(evidence), new |-> new]
           r    == [old EXCEPT !.step = "read", !.read = read]
<1>1. /\ runs' = [runs EXCEPT ![i].step = "read", ![i].read = read]
      /\ UNCHANGED <<known, row, imported, now>>
      /\ overlapped' = (overlapped \/ \E j \in DOMAIN runs : runs[j].step = "read")
  BY DEF ReadEvidence
<1>2. /\ now \in Nat /\ (row = Missing \/ IsRow(row)) /\ IsRun(old, now) /\ InTime(old, imported, now)
      /\ old.step = "running" /\ old.mode \in Modes
  BY DEF IInv, ShapeInv, TimesInv, ReadEvidence, IsRun
<1>3. /\ evidence.lexeme \in Links
      /\ evidence.mapped = IF old.mode = "full" THEN EntriesImported
                           ELSE IF imported[old.mode] # <<>> THEN EntriesOf[old.mode] ELSE {}
  BY EvidenceIsRight
<1>4. RightVerdict(new, evidence, old.mode)
  BY JudgedRight
<1> HIDE DEF evidence, new
<1>5. /\ DOMAIN read = ReadFields /\ read.at = now /\ read.row = row /\ read.evidence = evidence
      /\ read.new = new
  BY DEF ReadFields
<1> HIDE DEF read
<1>6. IsReading(read, old.mode, now)
  BY <1>2, <1>3, <1>4, <1>5 DEF IsReading
<1>7. read # Unread
  BY <1>6, ReadingIsRead
<1>8. runs' = [runs EXCEPT ![i] = r]
  BY <1>1
<1> HIDE DEF old
<1>9. /\ DOMAIN r = RunFields /\ r.mode = old.mode /\ r.import = old.import /\ r.step = "read"
      /\ r.read = read /\ r.finished = old.finished
  BY <1>2 DEF IsRun, RunFields
<1> HIDE DEF r
<1>10. IsRun(r, now)
  BY <1>2, <1>6, <1>7, <1>9 DEF IsRun, Steps, Ended
<1>11. Refreshes(r, imported, now)
  BY <1>2, <1>3, <1>5, <1>9, NamesAssumption DEF InTime, Refreshes
<1>12. ReadsAll(r, imported)
  <2> SUFFICES ASSUME old.mode = "full", NEW s \in Sources, NEW k \in DOMAIN imported[s]
               PROVE  EntriesOf[s] \subseteq evidence.mapped
    BY <1>5, <1>9 DEF ReadsAll
  <2>1. imported[s] # <<>>
    OBVIOUS
  <2>2. EntriesOf[s] \subseteq EntriesImported
    BY <2>1 DEF EntriesImported
  <2> QED
    BY <1>3, <2>2
<1>13. InTime(r, imported, now)
  BY <1>2, <1>9, <1>11, <1>12 DEF InTime, Apart
<1>14. /\ ShapeInv' /\ TimesInv' /\ DOMAIN runs' = DOMAIN runs /\ runs'[i] = r
       /\ \A j \in DOMAIN runs : j # i => runs'[j] = runs[j]
  <2>1. /\ now' \in Nat /\ now <= now' /\ IsRun(r, now') /\ InTime(r, imported, now')
        /\ known' = known /\ imported' = imported /\ (row' = Missing \/ IsRow(row'))
    BY <1>1, <1>2, <1>10, <1>13
  <2> QED
    BY <1>8, <2>1, ChangedRun
<1>15. OverlapInv'
  <2> SUFFICES ASSUME ~overlapped'
               PROVE  /\ row # Missing => row.type = TypeOf(row.status)
                      /\ \A j, k \in DOMAIN runs' : runs'[j].step = "read" /\ runs'[k].step = "read"
                                                    => j = k
                      /\ \A j \in DOMAIN runs' : runs'[j].step = "read" => runs'[j].read.row = row
    BY <1>1, Zenon DEF OverlapInv
  <2>1. ~overlapped /\ \A j \in DOMAIN runs : runs[j].step # "read"
    BY <1>1, Zenon
  <2>2. \A j \in DOMAIN runs' : runs'[j].step = "read" => j = i
    BY <1>14, <2>1
  <2>3. row # Missing => row.type = TypeOf(row.status)
    BY <2>1, Zenon DEF IInv, OverlapInv
  <2> QED
    BY <1>5, <1>9, <1>14, <2>2, <2>3
<1> QED
  BY <1>14, <1>15 DEF IInv

LEMMA FinishIsRight ==
  ASSUME IInv, NEW i \in DOMAIN runs, runs[i].step = "read", NEW step \in Ended, Finish(i, step),
         known' = known, imported' = imported, row' = Missing \/ IsRow(row')
  PROVE  /\ ShapeInv' /\ TimesInv' /\ DOMAIN runs' = DOMAIN runs /\ runs'[i].step = step
         /\ \A j \in DOMAIN runs : j # i => runs'[j] = runs[j]
<1> DEFINE old == runs[i]
           matched == step = "completed" /\ old.read.affected /\ old.read.present
           r == [old EXCEPT !.step = step, !.finished = now + 1, !.matched = matched]
<1>1. /\ now' = now + 1
      /\ runs' = [runs EXCEPT ![i].step = step, ![i].finished = now + 1, ![i].matched = matched]
  BY DEF Finish
<1>2. now \in Nat /\ IsRun(old, now) /\ InTime(old, imported, now) /\ old.step = "read"
  BY DEF IInv, ShapeInv, TimesInv
<1> HIDE DEF matched
<1>3. runs' = [runs EXCEPT ![i] = r]
  BY <1>1
<1> HIDE DEF old
<1>4. /\ DOMAIN r = RunFields /\ r.mode = old.mode /\ r.import = old.import /\ r.step = step
      /\ r.read = old.read /\ r.finished = now + 1
  BY <1>2 DEF IsRun, RunFields
<1> HIDE DEF r
<1>5. now' \in Nat /\ now <= now' /\ IsRun(old, now') /\ InTime(old, imported, now')
  BY <1>1, <1>2, LaterRun, LaterTime
<1>6. IsRun(r, now')
  BY <1>1, <1>2, <1>4, <1>5 DEF IsRun, Steps, Ended
<1>7. Apart(r, imported)
  <2> SUFFICES ASSUME NEW s \in Sources, NEW k \in DOMAIN imported[s] PROVE imported[s][k] # now + 1
    BY <1>4 DEF Apart
  <2>1. imported[s][k] \in 1..now
    BY ImportTimes
  <2> QED
    BY <1>2, <2>1
<1>8. InTime(r, imported, now')
  BY <1>4, <1>5, <1>7 DEF InTime, Refreshes, ReadsAll
<1>9. /\ ShapeInv' /\ TimesInv' /\ DOMAIN runs' = DOMAIN runs /\ runs'[i] = r
      /\ \A j \in DOMAIN runs : j # i => runs'[j] = runs[j]
  BY <1>3, <1>5, <1>6, <1>8, ChangedRun
<1> QED
  BY <1>4, <1>9

LEMMA FailKeepsIInv == ASSUME IInv, NEW i \in DOMAIN runs, FailRun(i) PROVE IInv'
<1>1. /\ runs[i].step = "read" /\ Finish(i, "failed") /\ "failed" \in Ended
      /\ known' = known /\ imported' = imported /\ row' = row /\ overlapped' = overlapped
  BY DEF FailRun, Ended
<1>2. row' = Missing \/ IsRow(row')
  BY <1>1 DEF IInv, ShapeInv
<1>3. /\ ShapeInv' /\ TimesInv' /\ DOMAIN runs' = DOMAIN runs /\ runs'[i].step = "failed"
      /\ \A j \in DOMAIN runs : j # i => runs'[j] = runs[j]
  BY <1>1, <1>2, FinishIsRight
<1>4. \A j \in DOMAIN runs' : runs'[j].step = "read" => j \in DOMAIN runs /\ runs'[j] = runs[j]
  BY <1>3
<1>5. OverlapInv'
  BY <1>1, <1>4, Zenon DEF IInv, OverlapInv
<1> QED
  BY <1>3, <1>5 DEF IInv

\* A row that is written: a new one, or the old one with the columns that are new to the run.
LEMMA UpsertIsRight ==
  ASSUME IInv, NEW old, NEW new, NEW evidence, NEW mode,
         RightVerdict(new, evidence, mode), evidence.lexeme \in Links,
         old # Missing => row # Missing
  PROVE  LET r == Upsert(old, new) IN
         /\ IsRow(r)
         /\ old = Missing => r.status = new.status /\ r.type = new.type
         /\ old # Missing => /\ r.status = IF old.status = new.status THEN row.status ELSE new.status
                             /\ r.type = IF old.type = new.type THEN row.type ELSE new.type
                             /\ r.review = row.review /\ r.decision = row.decision
<1> DEFINE r == Upsert(old, new)
<1>1. /\ new.status \in Statuses /\ new.canonical \in Forms \cup {"none"} /\ new.link \in Links
  BY DEF RightVerdict
<1>2. CASE old = Missing
  <2>1. r = [c \in RowFields |->
                IF c \in Columns THEN new[c] ELSE IF c = "review" THEN "unreviewed" ELSE "none"]
    BY <1>2 DEF Upsert, RowFields
  <2> HIDE DEF r
  <2>2. /\ DOMAIN r = RowFields /\ r.status = new.status /\ r.type = new.type
        /\ r.canonical = new.canonical /\ r.link = new.link /\ r.review = "unreviewed"
        /\ r.decision = "none"
    BY <2>1 DEF RowFields, Columns
  <2> QED
    BY <1>1, <1>2, <2>2 DEF IsRow, r
<1>3. CASE old # Missing
  <2> DEFINE status    == IF old.status = new.status THEN row.status ELSE new.status
             type      == IF old.type = new.type THEN row.type ELSE new.type
             canonical == IF old.canonical = new.canonical THEN row.canonical ELSE new.canonical
             link      == IF old.link = new.link THEN row.link ELSE new.link
  <2>1. IsRow(row)
    BY <1>3 DEF IInv, ShapeInv
  <2>2. r = [row EXCEPT !.status = status, !.type = type, !.canonical = canonical, !.link = link]
    BY <1>3 DEF Upsert, Changed, Columns
  <2>3. status \in Statuses /\ canonical \in Forms \cup {"none"} /\ link \in Links
    BY <1>1, <2>1 DEF IsRow
  <2> HIDE DEF r, status, type, canonical, link
  <2>4. DOMAIN row = {"status", "type", "canonical", "link", "review", "decision"}
    BY <2>1 DEF IsRow, RowFields, Columns
  <2>5. /\ DOMAIN r = DOMAIN row /\ r.status = status /\ r.type = type /\ r.canonical = canonical
        /\ r.link = link /\ r.review = row.review /\ r.decision = row.decision
    BY <2>2, <2>4
  <2>6. IsRow(r)
    BY <2>1, <2>3, <2>5 DEF IsRow
  <2> QED
    BY <1>3, <2>5, <2>6 DEF r, status, type
<1> QED
  BY <1>2, <1>3

\* A run ends; it leaves the row, deletes it, or writes it as it is or on nothing.
LEMMA WriteEffect ==
  ASSUME IInv, NEW i \in DOMAIN runs, WriteCandidate(i)
  PROVE  /\ runs[i].step = "read" /\ UNCHANGED <<known, imported, overlapped>>
         /\ \E step \in Ended : Finish(i, step)
         /\ \/ row' = row
            \/ DeletesRow(runs[i]) /\ row' = Missing /\ Finish(i, "completed")
            \/ /\ row' = Upsert(runs[i].read.row, runs[i].read.new)
               /\ (runs[i].read.row = Missing) = (row = Missing)
BY DEF WriteCandidate, WriteConflict, Ended

LEMMA ReadOfRun ==
  ASSUME IInv, NEW i \in DOMAIN runs, runs[i].read # Unread
  PROVE  /\ IsReading(runs[i].read, runs[i].mode, now)
         /\ RightVerdict(runs[i].read.new, runs[i].read.evidence, runs[i].mode)
         /\ runs[i].read.evidence.lexeme \in Links
BY DEF IInv, ShapeInv, IsRun, IsReading

LEMMA WriteKeepsRow ==
  ASSUME IInv, NEW i \in DOMAIN runs, WriteCandidate(i) PROVE row' = Missing \/ IsRow(row')
<1> DEFINE read == runs[i].read
<1>1. /\ runs[i].step = "read"
      /\ \/ row' = row \/ row' = Missing
         \/ row' = Upsert(read.row, read.new) /\ (read.row = Missing) = (row = Missing)
  BY WriteEffect
<1>2. read # Unread
  BY <1>1 DEF IInv, ShapeInv, IsRun
<1>3. RightVerdict(read.new, read.evidence, runs[i].mode) /\ read.evidence.lexeme \in Links
  BY <1>2, ReadOfRun
<1>4. CASE row' = row
  BY <1>4 DEF IInv, ShapeInv
<1>5. CASE row' = Upsert(read.row, read.new) /\ (read.row = Missing) = (row = Missing)
  BY <1>3, <1>5, UpsertIsRight
<1> QED
  BY <1>1, <1>4, <1>5

LEMMA WriteKeepsIInv == ASSUME IInv, NEW i \in DOMAIN runs, WriteCandidate(i) PROVE IInv'
<1> DEFINE read == runs[i].read
<1>1. /\ runs[i].step = "read" /\ known' = known /\ imported' = imported /\ overlapped' = overlapped
      /\ \E step \in Ended : Finish(i, step)
      /\ \/ row' = row \/ row' = Missing
         \/ row' = Upsert(read.row, read.new) /\ (read.row = Missing) = (row = Missing)
  BY WriteEffect
<1>2. read # Unread
  BY <1>1 DEF IInv, ShapeInv, IsRun
<1>3. /\ RightVerdict(read.new, read.evidence, runs[i].mode) /\ read.evidence.lexeme \in Links
  BY <1>2, ReadOfRun
<1>4. row' = Missing \/ IsRow(row')
  BY WriteKeepsRow
<1>5. PICK step \in Ended : Finish(i, step)
  BY <1>1
<1>6. /\ ShapeInv' /\ TimesInv' /\ DOMAIN runs' = DOMAIN runs /\ runs'[i].step = step
      /\ \A j \in DOMAIN runs : j # i => runs'[j] = runs[j]
  BY <1>1, <1>4, <1>5, FinishIsRight
<1>7. OverlapInv'
  <2> SUFFICES ASSUME ~overlapped
               PROVE  /\ row' # Missing => row'.type = TypeOf(row'.status)
                      /\ \A j \in DOMAIN runs' : runs'[j].step # "read"
    BY <1>1, Zenon DEF OverlapInv
  <2>1. /\ row # Missing => row.type = TypeOf(row.status)
        /\ \A j \in DOMAIN runs : runs[j].step = "read" => j = i
        /\ row # Missing /\ read.row # Missing => row.status = read.row.status /\ row.type = read.row.type
    BY <1>1, Zenon DEF IInv, OverlapInv
  <2>2. \A j \in DOMAIN runs' : runs'[j].step # "read"
    BY <1>6, <2>1 DEF Ended
  <2>3. read.new.type = TypeOf(read.new.status)
    BY <1>3 DEF RightVerdict
  <2>4. ASSUME row' = Upsert(read.row, read.new), (read.row = Missing) = (row = Missing)
        PROVE  row'.type = TypeOf(row'.status)
    <3>1. /\ read.row = Missing => row'.status = read.new.status /\ row'.type = read.new.type
          /\ read.row # Missing =>
                /\ row'.status = IF read.row.status = read.new.status THEN row.status ELSE read.new.status
                /\ row'.type = IF read.row.type = read.new.type THEN row.type ELSE read.new.type
      BY <1>3, <2>4, UpsertIsRight
    <3> QED
      BY <2>1, <2>3, <2>4, <3>1
  <2> QED
    BY <1>1, <2>1, <2>2, <2>4
<1> QED
  BY <1>6, <1>7 DEF IInv

LEMMA DecideKeepsIInv ==
  ASSUME IInv, NEW d \in Decisions, NEW linked \in {"none", "other"}, Decide(d, linked) PROVE IInv'
<1> DEFINE lexeme == IF d = "create_lexeme" THEN LexemeForCandidate ELSE linked
           link   == IF lexeme = "none" THEN row.link ELSE lexeme
           held   == IF d = "create_lexeme" THEN lexeme ELSE known.lexeme
<1>1. /\ row # Missing /\ UNCHANGED <<imported, runs, now, overlapped>>
      /\ row' = [row EXCEPT !.review = "reviewed", !.decision = d, !.link = link]
      /\ known' = [known EXCEPT !.lexeme = held]
  BY DEF Decide
<1>2. IsRow(row) /\ DOMAIN known = KnownFields /\ known.lexeme \in {"none", "own", "l"}
  BY <1>1 DEF IInv, ShapeInv
<1>3. lexeme \in Links /\ (d = "create_lexeme" => lexeme \in {"own", "l"})
  BY <1>2 DEF LexemeForCandidate, Links
<1> HIDE DEF lexeme
<1>4. link \in Links /\ held \in {"none", "own", "l"}
  BY <1>2, <1>3 DEF IsRow
<1> HIDE DEF link, held
<1>5. DOMAIN row = {"status", "type", "canonical", "link", "review", "decision"}
  BY <1>2 DEF IsRow, RowFields, Columns
<1>6. /\ DOMAIN row' = DOMAIN row /\ row'.status = row.status /\ row'.type = row.type
      /\ row'.canonical = row.canonical /\ row'.link = link /\ row'.review = "reviewed"
      /\ row'.decision = d
  BY <1>1, <1>5
<1>7. IsRow(row')
  BY <1>2, <1>4, <1>6, NamesAssumption DEF IsRow
<1>8. DOMAIN known' = KnownFields /\ known'.lexeme \in {"none", "own", "l"}
  BY <1>1, <1>2, <1>4 DEF KnownFields
<1> QED
  BY <1>1, <1>6, <1>7, <1>8, QuietStep

LEMMA OthersKeepIInv ==
  ASSUME IInv,
         \/ AskBuild \/ MorphologyCompletes \/ Reingest
         \/ \E r \in External : ExternalResultIsCached(r)
         \/ UNCHANGED vars
  PROVE  IInv'
<1>1. DOMAIN known = KnownFields /\ known.lexeme \in {"none", "own", "l"}
  BY DEF IInv, ShapeInv
<1>2. UNCHANGED <<row, imported, runs, now, overlapped>>
  BY DEF AskBuild, MorphologyCompletes, Reingest, ExternalResultIsCached, vars
<1>3. \/ known' = known \/ \E x : known' = [known EXCEPT !.morphology = x]
      \/ \E x : known' = [known EXCEPT !.external = x]
  BY Zenon DEF AskBuild, MorphologyCompletes, Reingest, ExternalResultIsCached, vars
<1>4. DOMAIN known' = KnownFields /\ known'.lexeme \in {"none", "own", "l"}
  BY <1>1, <1>3 DEF KnownFields
<1> QED
  BY <1>2, <1>4, QuietStep

LEMMA InitIInv == Init => IInv
<1> SUFFICES ASSUME Init PROVE IInv
  OBVIOUS
<1>1. /\ runs = <<>> /\ row = Missing /\ now = 0 /\ imported = [s \in Sources |-> <<>>]
      /\ DOMAIN known = KnownFields /\ known.lexeme = "none"
  BY DEF Init, KnownFields
<1>2. Len(runs) = 0 /\ DOMAIN runs = {} /\ runs = [i \in 1..0 |-> runs[i]]
  BY <1>1
<1>3. ShapeInv
  BY <1>1, <1>2 DEF ShapeInv
<1>4. TimesInv /\ OverlapInv
  BY <1>1, <1>2 DEF TimesInv, OverlapInv
<1> QED
  BY <1>3, <1>4 DEF IInv

LEMMA StepKeepsIInv == IInv /\ [Next]_vars => IInv'
<1> SUFFICES ASSUME IInv, [Next]_vars PROVE IInv'
  OBVIOUS
<1>1. CASE StartBuild
  BY <1>1, StartBuildKeepsIInv
<1>2. CASE \E s \in Sources, named \in BOOLEAN : StartRefresh(s, named)
  BY <1>2, StartRefreshKeepsIInv
<1>3. ASSUME NEW i \in DOMAIN runs,
             BeginRun(i) \/ ReadEvidence(i) \/ WriteCandidate(i) \/ FailRun(i)
      PROVE  IInv'
  BY <1>3, BeginKeepsIInv, ReadKeepsIInv, WriteKeepsIInv, FailKeepsIInv
<1>4. CASE \E d \in Decisions, l \in {"none", "other"} : Decide(d, l)
  BY <1>4, DecideKeepsIInv
<1>5. CASE \E s \in Sources : ImportCompletes(s)
  BY <1>5, ImportKeepsIInv
<1> QED
  BY <1>1, <1>2, <1>3, <1>4, <1>5, OthersKeepIInv DEF Next

LEMMA IInvHolds == Spec => []IInv
BY InitIInv, StepKeepsIInv, PTL DEF Spec

-------------------------------------------------------------------------------
(* The theorems. *)

\* TypeOK: whatever overlaps, the rows and the runs keep their form, a decision is there when
\* the row is reviewed, and a run has a finish time when it has ended.
THEOREM CandidateTypeCorrect == Spec => []TypeOK
<1>1. IInv => TypeOK
  BY DEF IInv, ShapeInv, TypeOK, IsRow, IsRun, Links, Ended
<1> QED
  BY <1>1, IInvHolds, PTL

\* TypeMatchesStatusWithoutOverlap: as long as no two runs overlapped the type of a candidate is
\* that of its status, although an update writes only the columns that differ from those read.
THEOREM TypesMatch == Spec => []TypeMatchesStatusWithoutOverlap
<1>1. IInv => TypeMatchesStatusWithoutOverlap
  BY Zenon DEF IInv, OverlapInv, TypeMatchesStatusWithoutOverlap
<1> QED
  BY <1>1, IInvHolds, PTL

\* ResolvedMeansTrusted: for every token and any evidence, the rules suppress a form as known
\* only by a lexeme, a defined dictionary entry or an approved headword.
THEOREM ResolvedByTrusted == Spec => []ResolvedMeansTrusted
<1>1. ASSUME IInv PROVE ResolvedMeansTrusted
  <2> SUFFICES ASSUME NEW i \in DOMAIN runs, runs[i].read # Unread,
                      TypeOf(runs[i].read.new.status) = "known_suppressed"
               PROVE  Trusted(runs[i].read.evidence, runs[i].mode)
    BY DEF ResolvedMeansTrusted, Trusted
  <2> QED
    BY <1>1, ReadOfRun DEF RightVerdict
<1> QED
  BY <1>1, IInvHolds, PTL

\* The greatest of some positions, and the position of the latest of some times.
LEMMA GreatestNumber ==
  ASSUME NEW n \in Nat, NEW S, S \subseteq 1..n, S # {}
  PROVE  \E m \in S : \A j \in S : j <= m
<1> DEFINE T == {k \in 0..n : n - k \in S}
<1>1. T \subseteq Nat /\ T # {}
  <2>1. PICK m \in S : m \in 1..n
    OBVIOUS
  <2> DEFINE k == n - m
  <2>2. k \in 0..n /\ n - k = m
    BY <2>1
  <2> HIDE DEF k
  <2>3. n - k \in S
    BY <2>1, <2>2
  <2>4. k \in T
    BY <2>2, <2>3
  <2> QED
    BY <2>4
<1>2. PICK k \in T : \A j \in T : k <= j
  BY <1>1, LeastNumber
<1>3. n - k \in S
  OBVIOUS
<1>4. \A j \in S : n - j \in T /\ j \in 1..n
  OBVIOUS
<1>5. \A j \in S : j <= n - k
  BY <1>2, <1>4
<1> QED
  BY <1>3, <1>5

LEMMA LatestIsFound ==
  ASSUME NEW n \in Nat, NEW S, S \subseteq 1..n, Latest(S) # 0
  PROVE  Latest(S) \in S
<1>1. S # {} /\ Latest(S) = CHOOSE i \in S : \A j \in S : j <= i
  BY DEF Latest
<1>2. \E m \in S : \A j \in S : j <= m
  BY <1>1, GreatestNumber
<1> QED
  BY <1>1, <1>2

LEMMA LatestOfTimes ==
  ASSUME NEW n \in Nat, NEW S, S # {}, NEW f, \A j \in S : f[j] \in 0..n
  PROVE  \E i \in S : \A j \in S : f[j] <= f[i]
<1> DEFINE T == {k \in 0..n : \E j \in S : f[j] = n - k}
<1>1. T \subseteq Nat /\ T # {}
  <2>1. PICK m \in S : f[m] \in 0..n
    OBVIOUS
  <2>2. n - f[m] \in T
    BY <2>1
  <2> QED
    BY <2>2
<1>2. PICK k \in T : \A j \in T : k <= j
  BY <1>1, LeastNumber
<1>3. PICK i \in S : f[i] = n - k
  OBVIOUS
<1>4. \A j \in S : n - f[j] \in T /\ f[j] \in 0..n
  OBVIOUS
<1>5. \A j \in S : f[j] <= f[i]
  BY <1>2, <1>3, <1>4
<1> QED
  BY <1>3, <1>5

LEMMA LatestFullCheckIsFull ==
  ASSUME IInv, LatestFullCheck # 0
  PROVE  /\ LatestFullCheck \in DOMAIN runs
         /\ runs[LatestFullCheck].mode = "full" /\ runs[LatestFullCheck].step = "completed"
<1> DEFINE full == {i \in DOMAIN runs : runs[i].mode = "full" /\ runs[i].step = "completed"}
           times == [i \in DOMAIN runs |-> runs[i].finished]
<1>1. /\ full # {}
      /\ LatestFullCheck = CHOOSE i \in full : \A j \in full : runs[j].finished <= runs[i].finished
  BY DEF LatestFullCheck
<1>2. now \in Nat /\ \A j \in full : times[j] \in 0..now
  BY DEF IInv, ShapeInv, IsRun
<1>3. \E i \in full : \A j \in full : times[j] <= times[i]
  <2> HIDE DEF full, times
  <2> QED
    BY <1>1, <1>2, LatestOfTimes
<1>4. LatestFullCheck \in full
  BY <1>1, <1>3
<1> QED
  BY <1>4

\* UpToDateMeansRead: a source that the lists show as up to date was read: the refresh or the
\* full build that says so saw all entries of its latest import, unless that import finished
\* while the full build was under way.
THEOREM UpToDateIsRead == Spec => []UpToDateMeansRead
<1>1. ASSUME IInv PROVE UpToDateMeansRead
  <2> SUFFICES ASSUME NEW s \in Sources, imported[s] # <<>>, EvidenceState(s) = "up_to_date"
               PROVE  LET check == runs[IF LatestCheck(s) # 0 THEN LatestCheck(s)
                                        ELSE LatestFullCheck]
                      IN \/ /\ EntriesOf[s] \subseteq check.read.evidence.mapped
                            /\ check.read.at >= LatestImport(s)
                         \/ check.mode = "full" /\ check.read.at < LatestImport(s)
                            /\ LatestImport(s) < check.finished
    BY DEF UpToDateMeansRead
  <2>1. LatestImport(s) \in 1..now /\ Len(imported[s]) \in DOMAIN imported[s] /\ now \in Nat
    BY <1>1, LatestImportIsPast DEF IInv, ShapeInv
  <2>2. CASE LatestCheck(s) # 0
    <3> DEFINE c == LatestCheck(s)
               found == {i \in DOMAIN runs : runs[i].mode = s /\ runs[i].import = LatestImport(s)}
    <3>1. c = Latest(found) /\ runs[c].step = "completed"
      BY <2>2 DEF LatestCheck, EvidenceState
    <3>2. Len(runs) \in Nat /\ found \subseteq 1..Len(runs)
      BY <1>1 DEF IInv, ShapeInv
    <3>3. c \in found
      <4> HIDE DEF found, c
      <4> QED
        BY <2>2, <3>1, <3>2, LatestIsFound DEF c
    <3> HIDE DEF c
    <3>4. c \in DOMAIN runs /\ runs[c].mode = s /\ runs[c].import = LatestImport(s)
      BY <3>3
    <3>5. IsRun(runs[c], now) /\ InTime(runs[c], imported, now)
      BY <1>1, <3>4 DEF IInv, ShapeInv, TimesInv
    <3>6. runs[c].read # Unread
      BY <3>1, <3>5 DEF IsRun, Ended
    <3> QED
      BY <2>2, <3>4, <3>5, <3>6 DEF InTime, Refreshes, c
  <2>3. CASE LatestCheck(s) = 0
    <3> DEFINE f == LatestFullCheck
    <3>1. f # 0 /\ runs[f].finished >= LatestImport(s)
      BY <2>3 DEF EvidenceState, FullCheckIsCurrent
    <3>2. f \in DOMAIN runs /\ runs[f].mode = "full" /\ runs[f].step = "completed"
      BY <1>1, <3>1, LatestFullCheckIsFull
    <3> HIDE DEF f
    <3>3. IsRun(runs[f], now) /\ InTime(runs[f], imported, now)
      BY <1>1, <3>2 DEF IInv, ShapeInv, TimesInv
    <3>4. /\ runs[f].read # Unread /\ runs[f].read.at \in 0..now /\ runs[f].finished \in 0..now
      BY <3>2, <3>3 DEF IsRun, Ended, IsReading
    <3>5. LatestImport(s) # runs[f].finished
      BY <2>1, <3>3 DEF InTime, Apart, LatestImport
    <3>6. LatestImport(s) <= runs[f].read.at => EntriesOf[s] \subseteq runs[f].read.evidence.mapped
      BY <2>1, <3>2, <3>3, <3>4 DEF InTime, ReadsAll, LatestImport
    <3>7. \/ EntriesOf[s] \subseteq runs[f].read.evidence.mapped /\ runs[f].read.at >= LatestImport(s)
          \/ runs[f].read.at < LatestImport(s) /\ LatestImport(s) < runs[f].finished
      BY <2>1, <3>1, <3>4, <3>5, <3>6
    <3> QED
      BY <2>3, <3>2, <3>7 DEF f
  <2> QED
    BY <2>2, <2>3
<1> QED
  BY <1>1, IInvHolds, PTL

\* DecisionsOutliveBuilds: no step of a run undoes a reviewer's decision, and only a full build
\* that read the document while it had no occurrence of the form removes the row.
THEOREM DecisionsAreKept == Spec => DecisionsOutliveBuilds
<1> DEFINE Kept == row # Missing /\ runs' # runs =>
         \/ /\ row' # Missing
            /\ row'.review = row.review /\ row'.decision = row.decision
         \/ \E i \in DOMAIN runs : /\ runs[i].mode = "full" /\ ~runs[i].read.present
                                   /\ runs[i].step = "read" /\ runs'[i].step = "completed"
<1>1. ASSUME IInv, [Next]_vars PROVE [Kept]_vars
  <2>1. row' = row => Kept
    OBVIOUS
  <2>2. runs' = runs => Kept
    OBVIOUS
  <2>3. ASSUME NEW i \in DOMAIN runs, WriteCandidate(i) PROVE Kept
    <3> DEFINE read == runs[i].read
    <3>1. runs[i].step = "read"
      BY <1>1, <2>3, WriteEffect
    <3>2. CASE DeletesRow(runs[i]) /\ Finish(i, "completed")
      <4>1. runs'[i].step = "completed"
        BY <1>1, <2>3, <3>1, <3>2, WriteEffect, WriteKeepsRow, FinishIsRight DEF Ended
      <4> QED
        BY <3>1, <3>2, <4>1 DEF DeletesRow
    <3>3. ASSUME row # Missing, row' = Upsert(read.row, read.new), read.row # Missing
          PROVE  row' # Missing /\ row'.review = row.review /\ row'.decision = row.decision
      <4>1. read # Unread
        BY <1>1, <3>1 DEF IInv, ShapeInv, IsRun
      <4>2. RightVerdict(read.new, read.evidence, runs[i].mode) /\ read.evidence.lexeme \in Links
        BY <1>1, <4>1, ReadOfRun
      <4> QED
        BY <1>1, <3>3, <4>2, UpsertIsRight, MissingIsNoRow
    <3> QED
      BY <1>1, <2>1, <2>3, <3>2, <3>3, WriteEffect
  <2> HIDE DEF Kept
  <2>4. \/ row' = row \/ runs' = runs \/ \E i \in DOMAIN runs : WriteCandidate(i)
    BY <1>1 DEF Next, AskBuild, StartBuild, StartRefresh, BeginRun, ReadEvidence, FailRun, Decide,
       ImportCompletes, MorphologyCompletes, ExternalResultIsCached, Reingest, vars
  <2> QED
    BY <2>1, <2>2, <2>3, <2>4
<1> QED
  BY <1>1, IInvHolds, PTL DEF Spec, DecisionsOutliveBuilds
===============================================================================
