---------------------------- MODULE MCTrustedLookup ----------------------------
(* Small instances of TrustedLookup for TLC. *)
EXTENDS TrustedLookup, TLC

CONSTANTS w1, w2, t1, t2, inflected, base

MCWorkers == {w1, w2}
MCThreads == {t1, t2}
Symmetry  == Permutations(MCWorkers) \cup Permutations(MCThreads)

\* An inflected word and its lemma, which the document holds as well.
MCWords == {inflected, base}
MCLemma == [x \in MCWords |-> IF x = inflected THEN base ELSE NoLemma]
===============================================================================
