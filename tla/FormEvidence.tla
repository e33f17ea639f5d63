----------------------------- MODULE FormEvidence -----------------------------
(***************************************************************************)
(* How a word form of a document is judged: what the sources say of it is  *)
(* collected as a set of evidence items, and the resolution engine turns   *)
(* the set into a status and a candidate type.  No state: the discovery    *)
(* builds of DiscoveryCandidates apply these operators to what they read.  *)
(*                                                                         *)
(* Two forms are told apart, the form "w" that is judged and its           *)
(* dictionary lemma "l".  Scores are hundredths; texts are left out.       *)
(*                                                                         *)
(* What the sources know of the forms is a record: an approved mapping of  *)
(* "w" to "l", the lexeme that holds "w", whether a lexeme holds "l", the  *)
(* imported entries of all sources and those of the sources the build      *)
(* looks at (mapped), the corpus counts of both forms, and what the        *)
(* morphology, NER and external results say of "w".                        *)
(***************************************************************************)
EXTENDS Integers, FiniteSets

(* What is known of the token: its script, whether it has digits or is     *)
(* punctuation around one letter, how often it occurs, and the language    *)
(* profile of the document.                                                *)
Scripts  == {"armenian", "latin", "mixed", "digit_mixed", "other"}
Profiles == {"classical", "eastern", "western", "mixed", "unknown"}
Forms    == {"w", "l"}

(* An imported dictionary entry: of which form, with a definition or not,  *)
(* and whether its metadata names "l" as the headword.                     *)
Entries == [form : Forms, defined : BOOLEAN, lemma : BOOLEAN]

Clamp(low, high, n) == IF n < low THEN low ELSE IF n > high THEN high ELSE n

(***************************************************************************)
(* Providers.                                                              *)
(***************************************************************************)
DictionaryTypes == {"imported_dictionary", "reference", "dictionary",
                    "external_dictionary", "web_dictionary"}
StrongTypes == {"curated_lexicon"} \cup DictionaryTypes

NormalizeLanguageProfile(stage) ==
    IF stage \in {"grabar", "old_armenian", "xcl", "classical_armenian"} THEN "classical"
    ELSE IF stage \in Profiles THEN stage ELSE "unknown"

\* Priority, own profile, and what a provider's hits must be to validate a word.
Provider(priority, profile, validates, exact, headword) ==
    [priority |-> priority, profile |-> profile, validates |-> validates,
     exact |-> exact, headword |-> headword]

KnownProviders ==
    [internal_lexicon         |-> Provider(1, "mixed", "yes", TRUE, FALSE),
     imported_references      |-> Provider(2, "mixed", "yes", TRUE, FALSE),
     pie_classical_morphology |-> Provider(10, "classical", "no", FALSE, FALSE),
     pie_eastern_morphology   |-> Provider(11, "eastern", "no", FALSE, FALSE),
     nayiri_western_corpus    |-> Provider(21, "western", "no", FALSE, FALSE),
     pioner_ner               |-> Provider(30, "eastern", "no", FALSE, FALSE),
     nayiri_web               |-> Provider(50, "mixed", "conditional", FALSE, TRUE),
     strict_validation        |-> Provider(0, "mixed", "no", FALSE, FALSE)]

ProviderMetadata(key, type) ==
    IF key \in DOMAIN KnownProviders THEN KnownProviders[key]
    ELSE LET dictionary == type \in DictionaryTypes
         IN Provider(100, "unknown", IF dictionary THEN "yes" ELSE "no", dictionary, dictionary)

ProfileWeight(source, document) ==
    IF \/ {source, document} \cap {"mixed", "unknown"} # {}
       \/ source = document
    THEN 100
    ELSE IF {source, document} = {"western", "eastern"} THEN 70 ELSE 55

(***************************************************************************)
(* The lexical match classifier: what a hit of a provider says of "w".     *)
(* relation is how the queried form relates to the provider's: "equal",    *)
(* "lemma" (equal to the hit's lemma only), "inside" (one is part of the   *)
(* other), "snippet" (in the text of the hit), or "none".                  *)
(***************************************************************************)
Class(match, validation, strength, quality, confidence, exact) ==
    [match |-> match, validation |-> validation, strength |-> strength,
     quality |-> quality, confidence |-> confidence, exact |-> exact]

Rejected == Class("rejected_artifact", "rejects", "none", "unknown", 0, FALSE)
Ambiguous(quality) ==
    Class("ambiguous_search_result", "does_not_validate", "none", quality, 5, FALSE)
Substring(quality) ==
    Class("substring_match", "does_not_validate", "none", quality, 5, FALSE)
ExactReference(role, quality) ==
    Class("exact_headword_match", "validates_word", "strong", quality,
          IF role = "curated_lexicon" THEN 100
          ELSE IF role = "imported_reference" THEN 95 ELSE 90, TRUE)

\* The gates before any role is looked at; digits counts only where the caller passes it.
IsRejected(token, digits, allowShort) ==
    /\ ~allowShort
    /\ digits \/ token.punctuation \/ token.single

ClassifyReference(role, relation, quality) ==
    IF relation = "equal" THEN ExactReference(role, quality)
    ELSE IF relation = "lemma"
         THEN Class("exact_lemma_match", "supports_word", "medium", quality, 80, TRUE)
    ELSE IF relation = "inside" THEN Substring(quality)
    ELSE IF relation = "snippet"
         THEN Class("page_fulltext_occurrence", "context_only", "none", quality, 5, FALSE)
    ELSE Ambiguous(quality)

ClassifyCorpus(relation, often) ==
    IF relation = "equal"
    THEN Class("corpus_token_attestation", "supports_word",
               IF often THEN "strong" ELSE "weak", "unknown", IF often THEN 65 ELSE 45, TRUE)
    ELSE IF relation = "lemma"
         THEN Class("corpus_lemma_attestation", "supports_word", "medium", "unknown", 60, FALSE)
    ELSE IF relation = "inside" THEN Substring("unknown")
    ELSE Ambiguous("unknown")

Classify(token, hit) ==
    IF IsRejected(token, hit.digits, hit.allowShort) THEN Rejected
    ELSE IF hit.fuzzy
         THEN Class("fuzzy_ocr_candidate", "suggests_candidate", "weak", hit.quality, 25, FALSE)
    ELSE IF hit.role \in {"curated_lexicon", "imported_reference", "web_dictionary"}
         THEN ClassifyReference(hit.role, hit.relation, hit.quality)
    ELSE IF hit.role = "corpus_attestation" THEN ClassifyCorpus(hit.relation, hit.often)
    ELSE IF hit.role = "morphology_analysis"
         THEN Class("morphology_analysis_only", "suggests_candidate", "weak", "unknown", 35, FALSE)
    ELSE IF hit.role = "named_entity_signal"
         THEN Class("named_entity_signal", "suggests_candidate", "medium", "unknown", 55, TRUE)
    ELSE Ambiguous(hit.quality)

Hit(role, relation, quality) ==
    [role |-> role, relation |-> relation, quality |-> quality,
     digits |-> FALSE, allowShort |-> FALSE, fuzzy |-> FALSE, often |-> FALSE]

(***************************************************************************)
(* The lexeme resolver: the dictionary lemma of "w" and where it is from.  *)
(* A lexeme that holds "w" is its own lemma ("own") or that of "l" ("l").  *)
(***************************************************************************)
NamesLemma(known) == \E e \in known.entries : e.form = "w" /\ e.lemma

ApprovedMappingCandidate(known) ==
    IF known.mapping THEN [lemma |-> "l", source |-> "mapping", confidence |-> 90]
    ELSE [lemma |-> "none", source |-> "none", confidence |-> 0]

CuratedLexemeFormCandidate(known) ==
    IF known.lexeme = "none" THEN [lemma |-> "none", source |-> "none", confidence |-> 0]
    ELSE [lemma |-> IF known.lexeme = "own" THEN "w" ELSE "l",
          source |-> "lexeme", confidence |-> 100]

ImportedReferenceCandidate(known) ==
    IF NamesLemma(known) THEN [lemma |-> "l", source |-> "reference", confidence |-> 85]
    ELSE [lemma |-> "none", source |-> "none", confidence |-> 0]

ResolveLexeme(known) ==
    LET candidates == <<ApprovedMappingCandidate(known), CuratedLexemeFormCandidate(known),
                        ImportedReferenceCandidate(known)>>
        first == {i \in 1..3 : /\ candidates[i].source # "none"
                               /\ \A j \in 1..(i - 1) : candidates[j].source = "none"}
    IN IF first = {} THEN candidates[3] ELSE candidates[CHOOSE i \in first : TRUE]

(***************************************************************************)
(* Collecting evidence.  An item is a classified hit with the form it      *)
(* stands for, its provider and what the provider's metadata demands.      *)
(***************************************************************************)
Item(key, type, class, form, headword) ==
    [key |-> key, type |-> type, class |-> class, form |-> form, headword |-> headword,
     needs |-> ProviderMetadata(key, type)]

ProfileAdjusted(confidence, key, type, document) ==
    (confidence * ProfileWeight(ProviderMetadata(key, type).profile, document)) \div 100

CuratedItems(token, known) ==
    IF known.lexeme = "none" THEN {}
    ELSE {Item("internal_lexicon", "curated_lexicon",
               Classify(token, [Hit("curated_lexicon",
                                    IF known.lexeme = "own" THEN "equal" ELSE "none", "good")
                                EXCEPT !.digits = token.digits, !.allowShort = TRUE]),
               IF known.lexeme = "own" THEN "w" ELSE "l", TRUE)}

ReferenceItems(token, known) ==
    {LET quality == IF e.defined THEN "good" ELSE "missing"
     IN Item("imported_references", "imported_dictionary",
             Classify(token, [Hit("imported_reference", "equal", quality)
                              EXCEPT !.digits = token.digits, !.allowShort = e.defined]),
             "w", TRUE) : e \in {x \in known.mapped : x.form = "w"}}

\* What is known of the dictionary lemma supports the form.
CuratedLemmaItems(known, resolved) ==
    IF resolved.lemma = "l" /\ known.lemmaLexeme
    THEN {Item("internal_lexicon", "curated_lexicon",
               Class("exact_lemma_match", "supports_word", "medium", "good",
                     resolved.confidence, TRUE), "l", TRUE)}
    ELSE {}

ReferenceLemmaItems(known, resolved) ==
    IF resolved.lemma # "l" THEN {}
    ELSE {Item("imported_references", "imported_dictionary",
               Class("exact_lemma_match", "supports_word", "medium",
                     IF e.defined THEN "good" ELSE "missing",
                     IF e.defined THEN 80 ELSE 55, TRUE), "l", TRUE)
          : e \in {x \in known.mapped : x.form = "l"}}

CorpusItem(token, often) ==
    Item("nayiri_western_corpus", "corpus",
         Classify(token, [Hit("corpus_attestation", "equal", "unknown") EXCEPT !.often = often]),
         "w", TRUE)

\* A strong attestation of another language profile counts as a medium one.
ProfileAdjustedCorpus(item, document) ==
    IF ProfileWeight(item.needs.profile, document) >= 75 THEN item
    ELSE [item EXCEPT
            !.class.strength = IF item.class.strength = "strong" THEN "medium" ELSE @,
            !.class.confidence =
                ProfileAdjusted(item.class.confidence, item.key, item.type, document)]

CorpusLemmaItems(token, known, resolved) ==
    IF resolved.lemma # "l" \/ known.lemmaCorpus = "none" THEN {}
    ELSE LET often == known.lemmaCorpus = "often"
         IN {Item("nayiri_western_corpus", "corpus",
                  Class("corpus_lemma_attestation", "supports_word",
                        IF often THEN "strong" ELSE "weak", "unknown",
                        ProfileAdjusted(IF often THEN 65 ELSE 45, "nayiri_western_corpus",
                                        "corpus", token.profile), FALSE),
                  "l", TRUE)}

MorphologyItems(token, known) ==
    IF known.morphology # "lemma" THEN {}
    ELSE LET class == Classify(token, [Hit("morphology_analysis", "none", "unknown")
                                       EXCEPT !.digits = token.digits])
         IN {Item("pie_eastern_morphology", "morphology",
                  [class EXCEPT !.confidence =
                      ProfileAdjusted(@, "pie_eastern_morphology", "morphology", token.profile)],
                  "l", FALSE)}

NerConfidence(document) == Clamp(10, 95, 55 - (IF document = "classical" THEN 20 ELSE 0))

NerItems(token, known) ==
    IF known.ner = "none" THEN {}
    ELSE {Item("pioner_ner", "ner",
               Class("named_entity_signal", "suggests_candidate",
                     IF known.ner = "gold" THEN "medium" ELSE "weak", "unknown",
                     ProfileAdjusted(NerConfidence(token.profile), "pioner_ner", "ner",
                               token.profile), TRUE),
               "w", FALSE)}

\* Mutant of IsTrustedDictionaryEntry: any cached result is trusted.
IsCachedEntry(result) == result # "none"

\* A cached external result is a dictionary only if it was approved as a headword.
IsTrustedDictionaryEntry(result) == result \in {"approved", "approved_empty"}

ExternalItems(token, known) ==
    IF known.external = "none" THEN {}
    ELSE LET trusted == IsTrustedDictionaryEntry(known.external)
             quality == IF known.external = "approved_empty" THEN "unknown" ELSE "good"
             class == Classify(token,
                         [Hit(IF trusted THEN "web_dictionary" ELSE "ambiguous_external",
                              IF known.external = "fuzzy" THEN "none" ELSE "equal", quality)
                          EXCEPT !.digits = token.digits, !.fuzzy = known.external = "fuzzy",
                                 !.allowShort = known.external # "fuzzy" /\ quality = "good"])
             web == trusted /\ class.match # "fuzzy_ocr_candidate"
         IN {Item("nayiri_web", IF web THEN "web_dictionary" ELSE "ambiguous_external",
                  class, "w", class.exact)}

StrictGate(token, items) ==
    IF \E i \in items : i.class.validation = "validates_word" THEN {}
    ELSE LET class == Classify(token, [Hit("ambiguous_external", "none", "unknown")
                                       EXCEPT !.digits = token.digits])
         IN IF class.validation = "rejects"
            THEN {Item("strict_validation", "validation", class, "none", FALSE)} ELSE {}

\* A reference-only refresh passes empty corpus, external and NER maps.
CollectEvidence(token, known, mode) ==
    LET resolved == ResolveLexeme(known)
        local  == CuratedItems(token, known) \cup ReferenceItems(token, known)
                  \cup CuratedLemmaItems(known, resolved) \cup ReferenceLemmaItems(known, resolved)
                  \cup MorphologyItems(token, known)
        corpus == IF known.corpus = "none" THEN {}
                  ELSE {ProfileAdjustedCorpus(CorpusItem(token, known.corpus = "often"),
                                              token.profile)}
        remote == corpus \cup CorpusLemmaItems(token, known, resolved)
                  \cup NerItems(token, known) \cup ExternalItems(token, known)
        items  == IF mode = "full" THEN local \cup remote ELSE local
    IN items \cup StrictGate(token, items)

(***************************************************************************)
(* The resolution engine.                                                  *)
(***************************************************************************)
OcrRiskScore(token) ==
    LET script == IF token.script = "digit_mixed" \/ token.digits THEN 80
                  ELSE IF token.script \in {"mixed", "latin"} THEN 55
                  ELSE IF token.script = "other" THEN 70 ELSE 0
    IN Clamp(0, 100, script + (IF token.armenian THEN 0 ELSE 20)
                            - (IF token.occurrences > 1 THEN 15 ELSE 0)
                            - (IF token.pages > 1 THEN 10 ELSE 0))

\* Any item may be the best of a rule only if it meets its provider's demands.
IsUsable(i) ==
    /\ \/ i.class.validation # "validates_word"
       \/ i.needs.validates = "yes"
       \/ i.needs.validates = "conditional" /\ i.class.exact /\ i.headword
    /\ i.class.match \notin {"substring_match", "partial_match", "ambiguous_search_result",
                             "page_fulltext_occurrence"}
    /\ i.needs.exact => i.class.exact
    /\ i.needs.headword => i.headword

\* evidence is sorted by priority, later profiles 25 lower, then by confidence.
SortsBefore(i, j, document) ==
    LET Rank(x) == x.needs.priority
                   + (IF ProfileWeight(x.needs.profile, document) >= 100 THEN 0 ELSE 25)
    IN \/ Rank(i) < Rank(j)
       \/ Rank(i) = Rank(j) /\ i.needs.priority < j.needs.priority
       \/ /\ Rank(i) = Rank(j) /\ i.needs.priority = j.needs.priority
          /\ i.class.confidence >= j.class.confidence

BestEvidence(wanted, document) ==
    LET usable == {i \in wanted : IsUsable(i)}
    IN {i \in usable : \A j \in usable : SortsBefore(i, j, document)}

HasConflictingSources(items) ==
    LET meaningful == {i \in items : /\ i.class.strength \in {"strong", "medium"}
                                     /\ i.class.validation \in {"validates_word", "supports_word"}
                                     /\ i.type # "ner"}
    IN Cardinality({i.form : i \in meaningful} \ {"none"}) > 1

SuppressedStatuses ==
    {"resolved_known", "resolved_by_dictionary", "attested_in_corpus", "resolved_by_lemma",
     "resolved_as_variant", "poorly_defined", "weakly_attested", "needs_linguist_research",
     "probable_ocr_noise"}

Verdict(status, type, base, best, risk) ==
    [status |-> status, type |-> type, base |-> base, best |-> best, risk |-> risk]

\* What each rule of the engine asks of an item.
IsExactHeadword(i) == /\ i.class.match = "exact_headword_match"
                      /\ i.class.validation = "validates_word"
                      /\ i.class.strength = "strong" /\ i.class.quality = "good"
IsKnownDirect(i)      == IsExactHeadword(i) /\ i.type = "curated_lexicon"
IsDictionaryDirect(i) == IsExactHeadword(i) /\ i.type \in DictionaryTypes
IsLemmaMatch(i) == /\ i.class.match = "exact_lemma_match"
                   /\ i.class.validation = "supports_word"
                   /\ i.class.strength \in {"strong", "medium"} /\ i.class.quality = "good"
                   /\ i.type \in StrongTypes
\* No provider reports an approved variant yet; the rule is there for one that does.
IsVariantMatch(i) == /\ i.class.match = "approved_variant_match"
                     /\ i.class.validation = "supports_word"
                     /\ i.class.strength \in {"strong", "medium"} /\ i.class.quality = "good"
                     /\ i.type \in StrongTypes
IsCorpusAttestation(i) ==
    /\ i.class.match \in {"corpus_token_attestation", "corpus_lemma_attestation"}
    /\ i.class.validation = "supports_word" /\ i.type = "corpus"
    /\ i.class.strength \in {"strong", "medium", "weak"}
IsPoorDefinition(i) == /\ i.class.strength \in {"strong", "medium"}
                       /\ i.class.quality \in {"poor", "missing"}
IsMorphologyOnly(i) == /\ i.class.match = "morphology_analysis_only" /\ i.type = "morphology"
                       /\ i.class.validation = "suggests_candidate"
IsRejecting(i)   == i.class.match = "rejected_artifact" /\ i.class.validation = "rejects"
IsNamedEntity(i) == /\ i.class.match = "named_entity_signal" /\ i.type = "ner"
                    /\ i.class.validation = "suggests_candidate"
IsWeak(i) == /\ i.class.strength = "weak"
             /\ i.class.validation \in {"supports_word", "suggests_candidate"}

\* The rules in the order of the code; the first one that applies decides.
Rules(token, plausible, items, linked) ==
    LET risk == OcrRiskScore(token)
        noise == IF risk > 75 THEN risk ELSE 75
        Best(Wanted(_)) == BestEvidence({i \in items : Wanted(i)}, token.profile)
        Rule(applies, status, type, base, best, score) ==
            [applies |-> applies, verdict |-> Verdict(status, type, base, best, score)]
        By(Wanted(_), also, status, type, base, score) ==
            Rule(Best(Wanted) # {} /\ also, status, type, base, Best(Wanted), score)
    IN <<Rule(linked \/ Best(IsKnownDirect) # {}, "resolved_known", "known_suppressed", 0,
              Best(IsKnownDirect), risk),
         By(IsDictionaryDirect, TRUE, "resolved_by_dictionary", "known_suppressed", 0, risk),
         By(IsLemmaMatch, TRUE, "resolved_by_lemma", "known_suppressed", 10, risk),
         By(IsVariantMatch, risk < 60, "resolved_as_variant", "known_suppressed", 15, risk),
         Rule(HasConflictingSources(items), "conflicting_sources", "conflicting_sources", 70,
              {}, risk),
         By(IsCorpusAttestation, risk < 45, "attested_in_corpus", "attested_suppressed", 0, risk),
         By(IsPoorDefinition, TRUE, "poorly_defined", "poorly_defined", 0, risk),
         By(IsMorphologyOnly, token.armenian /\ risk < 45,
            "unknown_plausible", "unknown_plausible", 75, risk),
         By(IsRejecting, TRUE, "probable_ocr_noise", "noise_suppressed", 0, noise),
         By(IsNamedEntity, token.armenian, "possible_named_entity", "named_entity_candidate",
            72, risk),
         By(IsWeak, TRUE, "weakly_attested", "weakly_attested", 0, risk),
         Rule(token.script = "latin" /\ ~token.armenian,
              "probable_ocr_noise", "noise_suppressed", 0, {}, noise),
         Rule(risk >= 75 /\ token.occurrences <= 1,
              "probable_ocr_noise", "noise_suppressed", 0, {}, risk),
         Rule(risk >= 45, "possible_ocr_noise", "possible_ocr_corruption", 55, {}, risk),
         Rule(token.armenian /\ (token.occurrences > 1 \/ plausible),
              "unknown_plausible", "unknown_plausible", 80, {}, risk),
         Rule(TRUE, "needs_linguist_research", "needs_linguist_research", 0, {}, risk)>>

ResolveForm(token, plausible, items, linked) ==
    LET rules == Rules(token, plausible, items, linked)
        first == CHOOSE i \in DOMAIN rules :
                     rules[i].applies /\ \A j \in 1..(i - 1) : ~rules[j].applies
    IN rules[first].verdict

InterestScore(token, plausible, verdict) ==
    IF verdict.status \in SuppressedStatuses THEN Clamp(0, 100, verdict.base)
    ELSE Clamp(0, 100, verdict.base + Clamp(0, 15, token.occurrences)
                       + Clamp(0, 10, 2 * token.pages) + (IF plausible THEN 10 ELSE 0)
                       - (IF verdict.risk >= 45 THEN 30 ELSE 0))

\* The confidence of a verdict: all of its best items have the same, -1 stands for None.
ConfidenceScore(verdict) ==
    IF verdict.best = {} THEN -1 ELSE (CHOOSE i \in verdict.best : TRUE).class.confidence

QualityScores == [good |-> 100, poor |-> 35, missing |-> 0, unknown |-> 20]
DefinitionQualityScore(items) ==
    LET scores == {QualityScores[i.class.quality] : i \in items}
    IN IF scores = {} THEN -1 ELSE CHOOSE s \in scores : \A t \in scores : t <= s

SuppressedTypes == {"known_suppressed", "attested_suppressed", "noise_suppressed"}
IsSuppressed(verdict) == verdict.status \in SuppressedStatuses \/ verdict.type \in SuppressedTypes

(***************************************************************************)
(* The canonical form: the best tier of lexical evidence, if it agrees.    *)
(***************************************************************************)
CanonicalTier(i) ==
    IF i.class.validation = "validates_word" /\ i.type = "curated_lexicon" THEN 1
    ELSE IF i.class.validation = "validates_word" /\ i.type = "reference" THEN 2
    ELSE IF i.class.validation = "validates_word" /\ i.type = "web_dictionary" THEN 3
    ELSE IF i.class.match = "exact_lemma_match" THEN 4
    ELSE IF i.class.match \in {"corpus_token_attestation", "corpus_lemma_attestation"} THEN 5
    ELSE 6

ResolveCanonicalForm(items) ==
    LET placed == {i \in items : CanonicalTier(i) < 6 /\ i.form # "none"}
        tier == {i \in placed : \A j \in placed : CanonicalTier(i) <= CanonicalTier(j)}
        forms == {i.form : i \in tier}
    IN IF Cardinality(forms) # 1 THEN "none" ELSE CHOOSE f \in forms : TRUE

CanonicalFormCandidate(known, items) ==
    LET resolved == ResolveLexeme(known)
    IN IF resolved.source # "none" THEN resolved.lemma ELSE ResolveCanonicalForm(items)
===============================================================================
