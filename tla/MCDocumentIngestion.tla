------------------------- MODULE MCDocumentIngestion --------------------------
(***************************************************************************)
(* Finite instances of DocumentIngestion for TLC: the values the .cfg      *)
(* files give to its constants.                                            *)
(***************************************************************************)
EXTENDS DocumentIngestion, TLC

CONSTANTS j1, j2, j3, s1, s2

\* Rows are interchangeable, and so are sweeps.
RowSymmetry      == Permutations(Jobs)
RowSweepSymmetry == Permutations(Jobs) \cup Permutations(Sweepers)

NoActions        == {}
RetryOnly        == {"retry"}
RetryAndResume   == {"retry", "resume failed"}
EveryAction      == AllUserActions

NoFaults         == {}
WorkerFaults     == {"run", "worker"}
CalmFaults       == AllFaultKinds \ {"mark"}
EveryFault       == AllFaultKinds

================================================================================
