---------------------------- MODULE MCLexemeCuration ----------------------------
(* Small instances of LexemeCuration for TLC. *)
EXTENDS LexemeCuration, TLC

CONSTANTS wx, wy, l1, l2, d1, d2, a1, a2, v1, v2

\* Word wx is Armenian and wy is not.
MCWords   == {wx, wy}
MCArmenian == {wx}
MCLexemes == {l1, l2}
MCDocs    == {d1, d2}
MCWordsOf == (d1 :> {wx, wy} @@ d2 :> {wx})
MCApis    == {a1, a2}
MCWorkers == {v1, v2}
OneWorker == {v1}
Symmetry  == Permutations(MCLexemes) \cup Permutations(MCApis) \cup Permutations(MCWorkers)
===============================================================================
