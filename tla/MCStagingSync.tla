--------------------------- MODULE MCStagingSync ---------------------------
(* StagingSync on small instances.                                         *)
EXTENDS StagingSync, TLC

CONSTANTS f1, f2, c, w

\* The worker writes w or deletes a file; the owner writes anything.
MCWritten == {w, Absent}

Symmetry == Permutations(File)
=============================================================================
