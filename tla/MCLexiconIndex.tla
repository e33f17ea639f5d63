---------------------------- MODULE MCLexiconIndex ----------------------------
(***************************************************************************)
(* Finite instances of LexiconIndex for TLC.                               *)
(***************************************************************************)
EXTENDS LexiconIndex, TLC

CONSTANTS d1, d2, f1, f2, t1

\* The first page of every document has one word, its last page both.
SharedWords == [d \in Docs |-> [p \in 1..PageCount |->
                   [f \in Forms |-> IF f = f1 \/ p = PageCount THEN 1 ELSE 0]]]

Symmetry == Permutations(Docs)

================================================================================
