---------------------------- MODULE MCEvidenceRuns -----------------------------
(* Small instances of EvidenceRuns for TLC. *)
EXTENDS EvidenceRuns, TLC

CONSTANTS n1, n2, b1, b2

MCNlpWorkers   == {n1, n2}
MCBuildWorkers == {b1, b2}
Symmetry       == Permutations(MCNlpWorkers) \cup Permutations(MCBuildWorkers)

\* A classical document of two pages that fit in one batch, with a token PIE does not
\* take, and a Western one that is built at once and whose tokens morphology skips.
MCScopes == {[profile |-> "none", stage |-> "classical", pages |-> <<1, 1>>, skipped |-> 1],
             [profile |-> "none", stage |-> "western", pages |-> <<1>>, skipped |-> 0]}
MCOutcomes == {"ready", "exit_code"}
===============================================================================
