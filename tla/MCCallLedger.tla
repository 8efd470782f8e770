---------------------------- MODULE MCCallLedger ----------------------------
(* CallLedger on small instances.                                          *)
EXTENDS CallLedger, TLC

CONSTANTS r1, r2, l1, p1, p2

\* Two remote keys that together exceed the budget and one local key.
MCEstimate == [k \in Key |-> IF k \in Remote THEN 2 ELSE 0]

Symmetry == Permutations(Proc)
=============================================================================
