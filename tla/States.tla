------------------------------- MODULE States -------------------------------
(***************************************************************************)
(* The four orthogonal state machines of the control plane and the         *)
(* transition tables that Database methods consult before they write.      *)
(* A table maps a state to the set of states it may be changed to; the     *)
(* code raises ValueError for every other pair.                            *)
(***************************************************************************)

RunStates == {"running", "paused", "completed", "failed", "cancelled"}

\* The states a run never leaves.
TerminalRunStates == {"completed", "failed", "cancelled"}

ControlStates == {"RUNNING", "PAUSE_REQUESTED", "QUIESCING", "PAUSED",
                  "USER_TAKEOVER", "RESUMING"}

\* Mutant: the table without QUIESCING.
ControlTransitionsShort ==
  [s \in ControlStates |->
     CASE s = "RUNNING"         -> {"PAUSE_REQUESTED"}
       [] s = "PAUSE_REQUESTED" -> {"PAUSED"}
       [] s = "QUIESCING"       -> {}
       [] s = "PAUSED"          -> {"USER_TAKEOVER", "RESUMING"}
       [] s = "USER_TAKEOVER"   -> {"RESUMING"}
       [] s = "RESUMING"        -> {"RUNNING", "PAUSED"}]

ControlTransitions ==
  [s \in ControlStates |->
     CASE s = "RUNNING"         -> {"PAUSE_REQUESTED"}
       [] s = "PAUSE_REQUESTED" -> {"QUIESCING"}
       [] s = "QUIESCING"       -> {"PAUSED"}
       [] s = "PAUSED"          -> {"USER_TAKEOVER", "RESUMING"}
       [] s = "USER_TAKEOVER"   -> {"RESUMING"}
       [] s = "RESUMING"        -> {"RUNNING", "PAUSED"}]

InvocationStates == {"planned", "started", "completed", "failed", "unknown",
                     "cancelled"}

InvocationTransitions ==
  [s \in InvocationStates |->
     CASE s = "planned" -> {"started", "cancelled"}
       [] s = "started" -> {"completed", "failed", "unknown"}
       [] s = "unknown" -> {"completed", "failed"}
       [] s \in {"completed", "failed", "cancelled"} -> {}]

TaskStates == {"draft", "waiting_authorization", "queued", "running",
               "self_testing", "waiting_review", "revising",
               "waiting_rereview", "approved", "waiting_input",
               "authorization_required", "degraded", "failed", "cancelled",
               "timed_out"}

TaskTransitions ==
  [s \in TaskStates |->
     CASE s = "draft" ->
            {"waiting_authorization", "waiting_input", "failed", "cancelled"}
       [] s = "waiting_authorization" -> {"queued", "failed", "cancelled"}
       [] s = "queued"       -> {"running", "failed", "cancelled"}
       [] s = "running"      -> {"self_testing", "waiting_input",
                                 "authorization_required", "failed", "timed_out"}
       [] s = "self_testing" -> {"waiting_review", "revising", "failed"}
       [] s \in {"waiting_review", "waiting_rereview"} ->
            {"approved", "revising", "waiting_input", "failed"}
       [] s = "revising" ->
            {"waiting_rereview", "authorization_required", "failed"}
       [] s = "waiting_input" -> {"running", "queued", "revising", "cancelled"}
       [] s = "authorization_required" -> {"queued", "revising", "cancelled"}
       [] s = "degraded" -> {"running", "waiting_review", "failed", "cancelled"}
       [] s \in {"approved", "failed", "cancelled", "timed_out"} -> {}]
=============================================================================
