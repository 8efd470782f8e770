--------------------------- MODULE MCContinuation ---------------------------
(* Continuation on small instances.                                        *)
EXTENDS Continuation, TLC

CONSTANTS d1, d2, s1, s2

Planned(session, parent, whole) ==
  [state |-> "planned", kind |-> "none", request |-> NoRef,
   session |-> session, parent |-> parent, whole |-> whole]
OutOfSteps ==
  [state |-> "failed", kind |-> "step_limit", request |-> s1,
   session |-> NoRef, parent |-> "none", whole |-> TRUE]

\* A planned base call and a planned continuation, sound or not.
MCInherited ==
  {<<Planned(NoRef, "none", whole)>> : whole \in BOOLEAN}
  \cup {<<Planned(s1, "none", TRUE)>>}
  \cup {<<OutOfSteps, Planned(session, parent, whole)>> :
          session \in {s1, s2, NoRef}, parent \in {"previous", "other"},
          whole \in BOOLEAN}

Symmetry == Permutations(Driver)
=============================================================================
