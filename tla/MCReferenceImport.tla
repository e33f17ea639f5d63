--------------------------- MODULE MCReferenceImport ---------------------------
(***************************************************************************)
(* Finite instances of ReferenceImport for TLC.                            *)
(***************************************************************************)
EXTENDS ReferenceImport, TLC

CONSTANTS i1, i2, i3, p1, p2, w1, w2, s1

\* Two files with different words, and one with the words of both.
TwoWordFiles == {{p1}, {p2}, {p1, p2}}

\* Rows, workers and pairs are interchangeable; the files are closed under the
\* exchange of the two pairs.
Symmetry == Permutations(Imports) \cup Permutations(Workers) \cup Permutations(Pairs)

================================================================================
