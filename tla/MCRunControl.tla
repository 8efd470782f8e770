---------------------------- MODULE MCRunControl ----------------------------
(* RunControl on small instances.                                          *)
EXTENDS RunControl, TLC

CONSTANTS p1, p2

\* Each task depends on the one before it.
MCDependsOn == [t \in Task |-> IF t = 1 THEN {} ELSE {t - 1}]

Symmetry == Permutations(Runner)
=============================================================================
