---------------------- MODULE MCSupervisorCheckpoints ----------------------
(* SupervisorCheckpoints on small instances.                               *)
EXTENDS SupervisorCheckpoints

CONSTANTS p1, s1
=============================================================================
