------------------------- MODULE MCReferenceMatching ---------------------------
(* Small instances of ReferenceMatching for TLC. *)
EXTENDS ReferenceStatus, TLC

CONSTANTS r1, r2, w1, w2, e1, e2, wx, wy, l1, s1

MCRuns     == {r1, r2}
MCWorkers  == {w1, w2}
Symmetry   == Permutations(MCRuns) \cup Permutations(MCWorkers)

\* Entry e1 is spelled as its normalized form wy, near wx; e2 is wx in another spelling.
MCWords    == {wx, wy}
MCBooks    == {{wx}, {wx, wy}}
MCEntries  == {e1, e2}
MCSurface  == (e1 :> wy @@ e2 :> "X")
MCNorm     == (e1 :> wy @@ e2 :> wx)
MCSourceOf == (e1 :> s1 @@ e2 :> s1)
MCNear     == {<<wx, wy>>}
MCLexemes  == {l1}
MCCanon    == (l1 :> wx)

MCRequests ==
    {[direction |-> "source_to_internal", source |-> s1, target |-> "lexicon",
      scope |-> "all", view |-> "candidates", fuzzy |-> FALSE],
     [direction |-> "internal_to_reference", source |-> s1, target |-> "none",
      scope |-> "all", view |-> "all", fuzzy |-> TRUE]}
===============================================================================
