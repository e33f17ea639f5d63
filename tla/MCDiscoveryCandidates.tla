------------------------ MODULE MCDiscoveryCandidates -------------------------
(* Small instances of DiscoveryCandidates for TLC. *)
EXTENDS DiscoveryCandidates, TLC

CONSTANTS a, b

Token(script, armenian, digits, occurrences, pages, profile) ==
    [script |-> script, armenian |-> armenian, digits |-> digits, punctuation |-> FALSE,
     single |-> FALSE, occurrences |-> occurrences, pages |-> pages, profile |-> profile]

MCTokens ==
    {Token("armenian", TRUE, FALSE, 2, 1, "eastern"),
     Token("digit_mixed", TRUE, TRUE, 1, 1, "classical")}

MCSources == {a, b}
Entry(form, defined, lemma) == [form |-> form, defined |-> defined, lemma |-> lemma]

\* One source defines the lemma, the other lists the form and its lemma without definitions.
MCEntriesOf == [s \in MCSources |->
                   IF s = a THEN {Entry("l", TRUE, FALSE)}
                   ELSE {Entry("w", FALSE, TRUE), Entry("l", FALSE, FALSE)}]
MCBackgrounds ==
    {[mapping |-> FALSE, corpus |-> "often", lemmaCorpus |-> "none", ner |-> "none"],
     [mapping |-> TRUE, corpus |-> "none", lemmaCorpus |-> "once", ner |-> "gold"]}
MCExternal  == {"approved", "page"}
MCDecisions == {"mark_known", "link_lexeme", "create_lexeme"}
===============================================================================
