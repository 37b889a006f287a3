--------------------------- MODULE MCTaskHandlers ---------------------------
(* Small instances of TaskHandlers for TLC.                                *)
EXTENDS TaskHandlers, TLC

CONSTANTS p1, p2, p3, m1

\* Pids are interchangeable.
PidsAreInterchangeable == Permutations(Pids)
=============================================================================
