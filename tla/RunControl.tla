----------------------------- MODULE RunControl -----------------------------
(***************************************************************************)
(* One run under control: the processes that execute it (Runner.start,     *)
(* Runner.resume, Runner.execute), the CLI commands pause, pause           *)
(* --immediate, takeover, cancel and resolve-call, and crashes.            *)
(*                                                                         *)
(* A Database method is one transaction and one step.  The runner reads    *)
(* the control state, decides, and writes in a later transaction, so a     *)
(* command may come between any two of its steps.  Where a method refuses  *)
(* a transition it raises; what that does to a runner depends on where it  *)
(* is: inside the try of execute the generic handler takes over, in a      *)
(* handler or at the gate before the try the process dies.                 *)
(*                                                                         *)
(* Data is left out: a call, a test or a review has one of the outcomes    *)
(* the code tells apart, those in Faults besides the good one.  Tasks have *)
(* no fallback model and no continuation of a step-limited call.           *)
(***************************************************************************)
EXTENDS RunRow, Naturals, FiniteSets

CONSTANTS
  Runner,        \* processes that may execute the run, one at a time or not
  NTasks,        \* the plan's tasks, executed in the order 1..NTasks
  DependsOn,     \* task.depends_on
  MaxRetry,      \* task.max_retry_count
  Faults,        \* what may go wrong, a subset of FaultKinds
  Commands,      \* what the user does, a subset of CommandKinds
  Crashes,       \* whether processes may die between two steps
  MaxAttempt,    \* bound: attempts of a task
  MaxLaunches,   \* bound: uses of resume
  MaxCommands    \* bound: other commands

Task == 1..NTasks
WriteRole == {"implementation", "revision"}
ReviewRole == {"review", "rereview"}
Role == WriteRole \cup ReviewRole
Slot == Task \X (1..MaxAttempt) \X Role   \* a request key: task, attempt, role

FaultKinds == {"denied", "unconfirmed", "unavailable", "unknown", "incomplete",
               "error", "scope", "testfail", "reject", "block", "malformed",
               "violation"}
CommandKinds == {"pause", "freeze", "takeover", "cancel", "resolve"}

ASSUME ControlAssumption ==
  /\ NTasks \in Nat \ {0} /\ MaxRetry \in Nat /\ MaxAttempt \in Nat \ {0}
  /\ DependsOn \in [Task -> SUBSET Task]
  /\ \A t \in Task : DependsOn[t] \subseteq 1..(t - 1)
  /\ Faults \subseteq FaultKinds /\ Commands \subseteq CommandKinds
  /\ Crashes \in BOOLEAN /\ MaxLaunches \in Nat /\ MaxCommands \in Nat

VARIABLES
  task,       \* tasks.state
  attempt,    \* the number of the latest attempt, 0 for none
  closed,     \* the latest attempt has an outcome
  content,    \* the worktree, compared with what the latest review was shown
  call,       \* model_calls.state by request key, "absent" without a row
  opinion,    \* what the review of the latest attempt says
  noRetry,    \* a FAILED call bears a failure_kind that resume refuses
  runner,     \* the executing processes
  marking,    \* a freeze or cancel has yet to mark the calls in flight
  launches, commands   \* counters for the bounds

attemptVars == <<attempt, closed, opinion>>
callVars == <<call, noRetry>>
taskVars == <<task, attemptVars, content, callVars>>
bounds == <<launches, commands>>
vars == <<runState, control, finished, terminalCk, task, attempt, closed,
          content, call, opinion, noRetry, runner, marking, launches, commands>>

PC == {"off", "check", "restore", "takeover", "invalidate", "renew",
       "resuming", "rerunning", "restate", "gate", "step", "promote", "begin", "calling",
       "driven", "testing", "answered", "reviewed", "refuse", "retry", "reject",
       "approve", "ingate", "pause_read",
       "pause_request", "pause_seen", "pause_quiesce", "pause_saved",
       "pause_paused", "pause_state", "denied", "unknown", "violated",
       "after", "generic", "generic_fail", "finish", "finalize"}

\* A worktree is "shown" while it is as the latest review has got it; the one of
\* an approved task is "edited" once it differs from the task's baseline.
Content == {"shown", "unseen", "edited"}
Touched(t) == IF task[t] = "approved" THEN "edited" ELSE "unseen"
Opinion == {"approve", "reject", "block", "malformed"}

\* inTry: the process is inside the try of execute; seen: the control state
\* resume has read; todo: the tasks a takeover has still to invalidate.
Process == [pc : PC, task : Task, role : Role, inTry : BOOLEAN,
            seen : ControlStates, todo : SUBSET Task,
            verdict : {"completed", "failed"}]

Off == [pc |-> "off", task |-> 1, role |-> "implementation", inTry |-> FALSE,
        seen |-> "RUNNING", todo |-> {}, verdict |-> "failed"]

\* start has created the run and calls execute.
Init ==
  /\ RunInit
  /\ task = [t \in Task |-> "draft"]
  /\ attempt = [t \in Task |-> 0]
  /\ closed = [t \in Task |-> FALSE]
  /\ content = [t \in Task |-> "unseen"]
  /\ opinion = [t \in Task |-> "none"]
  /\ call = [k \in Slot |-> "absent"]
  /\ noRetry = FALSE
  /\ \E p \in Runner :
       runner = [q \in Runner |-> IF q = p THEN [Off EXCEPT !.pc = "gate"] ELSE Off]
  /\ marking = FALSE
  /\ launches = 0 /\ commands = 0

Calls(state) == {k \in Slot : call[k] = state}
Live(p) == runner[p].pc # "off"

-----------------------------------------------------------------------------
(* Moves of a process.                                                     *)

At(p, pc) == runner[p].pc = pc
Goto(p, pc) == runner' = [runner EXCEPT ![p].pc = pc]
Exit(p) == runner' = [runner EXCEPT ![p] = Off]

\* Into an except clause of execute, which is outside its try.
Handle(p, pc) == runner' = [runner EXCEPT ![p].pc = pc, ![p].inTry = FALSE]

\* An exception: for the generic handler, or the end of the process.
Raise(p) == IF runner[p].inTry THEN Handle(p, "generic") ELSE Exit(p)

\* Return from the body of the task, or from execute.
Leave(p) == IF runner[p].inTry THEN Handle(p, "after") ELSE Exit(p)

\* Mutant: the loop does not advance.
NextTaskStays(p) ==
  runner' = [runner EXCEPT ![p].pc = IF @ = "finish" THEN "finish" ELSE "gate"]

NextTask(p) ==
  LET next == runner[p].task + 1 IN
  runner' = [runner EXCEPT ![p] =
    IF next \in Task THEN [@ EXCEPT !.pc = "gate", !.task = next]
    ELSE [@ EXCEPT !.pc = "finish"]]

FinalizeAs(p, s) ==
  runner' = [runner EXCEPT ![p].pc = "finalize", ![p].verdict = s, ![p].inTry = FALSE]

ControlStep(p, target, next) ==
  \/ TransitionControl(target) /\ Goto(p, next)
  \/ ~ControlAllowed(target) /\ Raise(p) /\ UNCHANGED runVars

\* transition_task; the last argument is where the process goes on success.
MoveTask(t, target) ==
  /\ target \in TaskTransitions[task[t]]
  /\ task' = [task EXCEPT ![t] = target]

CannotMove(p, target) ==
  /\ target \notin TaskTransitions[task[runner[p].task]]
  /\ Raise(p)
  /\ UNCHANGED task

TaskStep(p, target, next) ==
  \/ MoveTask(runner[p].task, target) /\ Goto(p, next)
  \/ CannotMove(p, target)

\* _move_to_failed and return from the body.
FailTask(p) ==
  \/ MoveTask(runner[p].task, "failed") /\ Leave(p)
  \/ CannotMove(p, "failed")

-----------------------------------------------------------------------------
(* resume.                                                                 *)

Launch(p) ==
  /\ At(p, "off")
  /\ launches < MaxLaunches
  /\ runState \notin TerminalRunStates
  /\ runner' = [runner EXCEPT ![p] = [Off EXCEPT !.pc = "check", !.seen = control]]
  /\ launches' = launches + 1
  /\ UNCHANGED <<runVars, taskVars, marking, commands>>

\* The calls forbid it, or the control state that was read does.
ResumeRefused(p) ==
  LET seen == runner[p].seen IN
  \/ Calls("unknown") # {} \/ noRetry
  \/ seen = "RUNNING" /\ Calls("started") # {}
  \/ seen \notin {"RUNNING", "PAUSED", "USER_TAKEOVER"}

CheckCalls(p) ==
  /\ At(p, "check")
  /\ \/ ResumeRefused(p) /\ Exit(p)
     \/ /\ ~ResumeRefused(p)
        /\ Goto(p, IF runner[p].seen = "RUNNING" THEN "gate" ELSE "restore")
  /\ UNCHANGED <<runVars, taskVars, marking, bounds>>

\* A task whose UNKNOWN implementation call has been resolved runs again.
Resolved(t) ==
  /\ task[t] = "waiting_input"
  /\ attempt[t] > 0
  /\ call[<<t, attempt[t], "implementation">>] = "completed"
  /\ call[<<t, attempt[t], "review">>] = "absent"

RestoreResolved(p) ==
  LET todo == {t \in Task : Resolved(t)} IN
  /\ At(p, "restore")
  /\ \/ /\ todo # {}
        /\ MoveTask(CHOOSE t \in todo : \A u \in todo : t <= u, "running")
        /\ UNCHANGED runner
     \/ /\ todo = {}
        /\ Goto(p, IF runner[p].seen = "USER_TAKEOVER" THEN "takeover" ELSE "resuming")
        /\ UNCHANGED task
  /\ UNCHANGED <<runVars, attemptVars, content, callVars, marking, bounds>>

\* The edited tasks and all that depend, directly or not, on one of them.
Affected(edited) ==
  LET hit[t \in Task] == t \in edited \/ \E u \in DependsOn[t] : hit[u]
  IN  {t \in Task : hit[t]}

\* What the user has edited in the meantime; the approved tasks among them, by
\* their baseline, and their dependents are to be invalidated.
FindTakeoverChanges(p) ==
  /\ At(p, "takeover")
  /\ \E edited \in SUBSET Task :
       content' = [t \in Task |-> IF t \in edited THEN Touched(t) ELSE content[t]]
  /\ runner' = [runner EXCEPT ![p].pc = "invalidate",
       ![p].todo = Affected({t \in Task : task[t] = "approved" /\ content'[t] = "edited"})]
  /\ UNCHANGED <<runVars, task, attemptVars, callVars, marking, bounds>>

NewAttempt(t) ==
  /\ attempt[t] < MaxAttempt
  /\ attempt' = [attempt EXCEPT ![t] = @ + 1]
  /\ closed' = [closed EXCEPT ![t] = FALSE]
  /\ opinion' = [opinion EXCEPT ![t] = "none"]

\* invalidate_approved_task for one affected task, in the order of a set; it
\* raises for a task that is not APPROVED.
InvalidateTask(p, t) ==
  /\ t \in runner[p].todo /\ task[t] = "approved"
  /\ \/ /\ task' = [task EXCEPT ![t] = "self_testing"]
        /\ runner' = [runner EXCEPT ![p].pc = "renew", ![p].task = t]
     \/ /\ "scope" \in Faults
        /\ task' = [task EXCEPT ![t] = "failed"]
        /\ runner' = [runner EXCEPT ![p].todo = @ \ {t}]
  /\ content' = [content EXCEPT ![t] = IF @ = "edited" THEN "unseen" ELSE @]

Invalidate(p) ==
  /\ At(p, "invalidate")
  /\ \/ /\ runner[p].todo = {} /\ Goto(p, "resuming")
        /\ UNCHANGED <<task, content>>
     \/ /\ \E t \in runner[p].todo : task[t] # "approved"
        /\ Exit(p)
        /\ UNCHANGED <<task, content>>
     \/ \E t \in Task : InvalidateTask(p, t)
  /\ UNCHANGED <<runVars, attemptVars, callVars, marking, bounds>>

\* Mutant: an invalidated task keeps its attempt, with the old review.
RenewNot(p) ==
  /\ At(p, "renew")
  /\ runner' = [runner EXCEPT ![p].pc = "invalidate", ![p].task = 1,
                              ![p].todo = @ \ {runner[p].task}]
  /\ UNCHANGED <<runVars, task, attemptVars, content, callVars, marking, bounds>>

\* The invalidated task gets a new attempt, in a transaction of its own.
Renew(p) ==
  /\ At(p, "renew")
  /\ NewAttempt(runner[p].task)
  /\ runner' = [runner EXCEPT ![p].pc = "invalidate", ![p].task = 1,
                              ![p].todo = @ \ {runner[p].task}]
  /\ UNCHANGED <<runVars, task, content, callVars, marking, bounds>>

ToRunning(p) ==
  /\ \/ At(p, "resuming") /\ ControlStep(p, "RESUMING", "rerunning")
     \/ At(p, "rerunning") /\ ControlStep(p, "RUNNING", "restate")
     \/ At(p, "restate") /\ \/ SetRunState("running") /\ Goto(p, "gate")
                            \/ /\ ~SetRunStateAllowed("running")
                               /\ Raise(p) /\ UNCHANGED runVars
  /\ UNCHANGED <<taskVars, marking, bounds>>

-----------------------------------------------------------------------------
(* The gate before a task and after each stage of it: _pause_if_requested. *)

PauseIfRequested(p) ==
  /\ At(p, "gate") \/ At(p, "ingate")
  /\ CASE control = "PAUSED" -> Goto(p, "pause_state")
       [] control = "PAUSE_REQUESTED" -> Goto(p, "pause_read")
       [] OTHER ->
            IF At(p, "gate") /\ task[runner[p].task] = "approved" THEN NextTask(p)
            ELSE runner' = [runner EXCEPT ![p].pc = "step", ![p].inTry = TRUE]
  /\ UNCHANGED <<runVars, taskVars, marking, bounds>>

-----------------------------------------------------------------------------
(* _complete_safe_pause: read and write the control state, three times.    *)

SafePauseRead(p) ==
  /\ \/ At(p, "pause_read")
        /\ Goto(p, IF control = "RUNNING" THEN "pause_request" ELSE "pause_seen")
     \/ At(p, "pause_seen")
        /\ Goto(p, IF control = "PAUSE_REQUESTED" THEN "pause_quiesce" ELSE "pause_saved")
     \/ At(p, "pause_saved")
        /\ Goto(p, IF control = "QUIESCING" THEN "pause_paused" ELSE "pause_state")
  /\ UNCHANGED <<runVars, taskVars, marking, bounds>>

SafePauseWrite(p) ==
  /\ \/ At(p, "pause_request") /\ ControlStep(p, "PAUSE_REQUESTED", "pause_seen")
     \/ At(p, "pause_quiesce") /\ ControlStep(p, "QUIESCING", "pause_saved")
     \/ At(p, "pause_paused") /\ ControlStep(p, "PAUSED", "pause_state")
     \/ At(p, "pause_state") /\ \/ SetRunState("paused") /\ Leave(p)
                                \/ /\ ~SetRunStateAllowed("paused")
                                   /\ Raise(p) /\ UNCHANGED runVars
  /\ UNCHANGED <<taskVars, marking, bounds>>

-----------------------------------------------------------------------------
(* _execute_task: what the task's state calls for.                         *)

CallOf(p) == <<runner[p].task, attempt[runner[p].task], runner[p].role>>

\* Mutant: every drive opens a new attempt.
ContinuesNever(t, role) == t \in Task /\ role = "none"

\* _attempt_for_role continues the latest attempt if it has no outcome and its
\* latest call has the role, and opens a new one otherwise.
ReviewOf(role) == IF role = "implementation" THEN "review" ELSE "rereview"
Continues(t, role) ==
  /\ attempt[t] > 0 /\ ~closed[t]
  /\ call[<<t, attempt[t], role>>] # "absent"
  /\ call[<<t, attempt[t], ReviewOf(role)>>] = "absent"

\* Drive the implementation or revision: a finished call is not repeated, a
\* call with another end is an InvocationIncompleteError - for a local model
\* only if no pause is requested, which is looked at first.
Drive(p, role) ==
  LET t == runner[p].task
      last == call[<<t, attempt[t], role>>] IN
  \/ /\ ~Continues(t, role)
     /\ NewAttempt(t)
     /\ runner' = [runner EXCEPT ![p].pc = "begin", ![p].role = role]
  \/ /\ Continues(t, role)
     /\ \/ /\ last = "completed"
           /\ runner' = [runner EXCEPT ![p].pc = "driven", ![p].role = role]
        \/ last # "completed" /\ Handle(p, "pause_read")
        \/ last # "completed" /\ control # "RUNNING" /\ Goto(p, "pause_read")
     /\ UNCHANGED attemptVars

Step(p) ==
  LET t == runner[p].task
      s == task[t]
      Review(role) == runner' = [runner EXCEPT ![p].pc = "begin", ![p].role = role] IN
  /\ At(p, "step")
  /\ \/ s = "running" /\ Drive(p, "implementation")
     \/ s = "revising" /\ Drive(p, "revision")
     \/ /\ \/ s \in {"approved", "failed"} /\ Leave(p)
           \/ s = "draft" /\ Goto(p, "promote")
           \/ s = "self_testing" /\ Goto(p, "testing")
           \/ s = "waiting_review" /\ Review("review")
           \/ s = "waiting_rereview" /\ Review("rereview")
           \/ /\ s \in {"waiting_authorization", "queued", "waiting_input",
                        "authorization_required"}
              /\ Raise(p)
        /\ UNCHANGED attemptVars
  /\ UNCHANGED <<runVars, task, content, callVars, marking, bounds>>

\* DRAFT to RUNNING, in three transactions.
Promote(p) ==
  LET s == task[runner[p].task] IN
  /\ At(p, "promote")
  /\ \/ s = "draft" /\ TaskStep(p, "waiting_authorization", "promote")
     \/ s = "waiting_authorization" /\ TaskStep(p, "queued", "promote")
     \/ s \notin {"draft", "waiting_authorization"} /\ TaskStep(p, "running", "step")
  /\ UNCHANGED <<runVars, attemptVars, content, callVars, marking, bounds>>

\* Policy, confirmation and the choice of a reviewer come before begin_call.
Prevented(p) ==
  /\ At(p, "begin")
  /\ \/ "denied" \in Faults /\ Handle(p, "denied")
     \/ "unconfirmed" \in Faults /\ Handle(p, "pause_read")
     \/ "unavailable" \in Faults /\ runner[p].role \in ReviewRole /\ Handle(p, "pause_read")
  /\ UNCHANGED <<runVars, taskVars, marking, bounds>>

RunOpen == control = "RUNNING" /\ ~finished

\* Where a process goes on with a new answer and with a stored one.  What a review
\* left behind is compared with what it was given, and a review that is taken up
\* again is given the worktree as it is now: nothing is left to compare.
Answered(p) == IF runner[p].role \in WriteRole THEN "driven" ELSE "answered"
Reused(p) == IF runner[p].role \in WriteRole THEN "driven" ELSE "reviewed"

\* REUSED_COMPLETED
Reusable(k) == call[k] = "completed"

\* begin_call.  Only the drivers of the write roles expect PauseBlockedError;
\* from a review it reaches the generic handler, as do the errors for a call
\* that exists already.  A worker may write, and a review is shown the worktree,
\* from here on.
BeginCall(p) ==
  LET k == CallOf(p) IN
  /\ At(p, "begin")
  /\ \/ /\ \/ ~RunOpen /\ runner[p].role \in WriteRole /\ Goto(p, "pause_read")
           \/ ~RunOpen /\ runner[p].role \in ReviewRole /\ Raise(p)
           \/ RunOpen /\ Reusable(k) /\ Goto(p, Reused(p))
           \/ RunOpen /\ call[k] # "absent" /\ ~Reusable(k) /\ Raise(p)
        /\ UNCHANGED <<call, content>>
     \/ /\ RunOpen
        /\ call[k] = "absent"
        /\ call' = [call EXCEPT ![k] = "started"]
        /\ content' = [content EXCEPT ![runner[p].task] =
                         IF runner[p].role \in WriteRole THEN "unseen" ELSE "shown"]
        /\ Goto(p, "calling")
  /\ UNCHANGED <<runVars, task, attemptVars, noRetry, marking, bounds>>

\* Mutant: an answer that comes when a pause is requested is not written down.
CallEndsUnlessPausing(p, state) ==
  /\ state \in InvocationTransitions[call[CallOf(p)]]
  /\ call' = IF control # "RUNNING" THEN call ELSE [call EXCEPT ![CallOf(p)] = state]

\* The model's answer is written down, or the row has been settled meanwhile
\* and the write raises.  An UNKNOWN call can still be completed or failed.
CallEnds(p, state) ==
  /\ state \in InvocationTransitions[call[CallOf(p)]]
  /\ call' = [call EXCEPT ![CallOf(p)] = state]

\* What the text of a completed review says; the text is stored with the call.
Said(k) ==
  IF k[3] \in ReviewRole /\ k[2] = attempt[k[1]]
    THEN \E said \in {"approve"} \cup (Faults \cap Opinion) :
           opinion' = [opinion EXCEPT ![k[1]] = said]
    ELSE UNCHANGED opinion

Answer(p) ==
  /\ At(p, "calling")
  /\ \/ /\ CallEnds(p, "completed") /\ Said(CallOf(p)) /\ Goto(p, Answered(p))
        /\ UNCHANGED noRetry
     \/ /\ \/ "unknown" \in Faults /\ CallEnds(p, "unknown") /\ Handle(p, "unknown") /\ UNCHANGED noRetry
           \/ /\ "incomplete" \in Faults   \* also a protocol error: refused by resume
              /\ CallEnds(p, "failed") /\ Handle(p, "pause_read") /\ noRetry' = TRUE
           \/ "unavailable" \in Faults /\ CallEnds(p, "failed") /\ Handle(p, "pause_read") /\ UNCHANGED noRetry
           \/ "error" \in Faults /\ CallEnds(p, "failed") /\ Raise(p) /\ UNCHANGED noRetry
           \/ /\ \E state \in {"completed", "unknown", "failed"} :
                   /\ state = "unknown" => "unknown" \in Faults
                   /\ state = "failed" => Faults \cap {"incomplete", "unavailable", "error"} # {}
                   /\ state \notin InvocationTransitions[call[CallOf(p)]]
              /\ Raise(p) /\ UNCHANGED callVars
        /\ UNCHANGED opinion
  /\ UNCHANGED <<runVars, task, attempt, closed, content, marking, bounds>>

\* complete_attempt, a transaction of its own before the task is moved.
Close(p, next) ==
  /\ closed' = [closed EXCEPT ![runner[p].task] = TRUE]
  /\ Goto(p, next)
  /\ UNCHANGED task

\* After the implementation the file scope is checked; after a revision the
\* scope and the tests.
Driven(p) ==
  LET t == runner[p].task IN
  /\ At(p, "driven")
  /\ \/ /\ \/ runner[p].role = "implementation" /\ TaskStep(p, "self_testing", "ingate")
           \/ runner[p].role = "revision" /\ TaskStep(p, "waiting_rereview", "ingate")
        /\ UNCHANGED closed
     \/ /\ runner[p].role = "implementation" /\ "scope" \in Faults
        /\ Close(p, "refuse")
     \/ /\ runner[p].role = "revision" /\ Faults \cap {"scope", "testfail"} # {}
        /\ Close(p, IF attempt[t] - 1 >= MaxRetry THEN "refuse" ELSE "retry")
  /\ UNCHANGED <<runVars, attempt, opinion, content, callVars, marking, bounds>>

\* Mutant: one more revision than allowed.
RetryLeftMore(t) == attempt[t] <= MaxRetry + 1

RetryLeft(t) == attempt[t] <= MaxRetry

Test(p) ==
  LET t == runner[p].task IN
  /\ At(p, "testing")
  /\ \/ /\ \/ TaskStep(p, "waiting_review", "ingate")
           \/ "testfail" \in Faults /\ RetryLeft(t) /\ TaskStep(p, "revising", "ingate")
        /\ UNCHANGED closed
     \/ "scope" \in Faults /\ Close(p, "refuse")
     \/ "testfail" \in Faults /\ ~RetryLeft(t) /\ Close(p, "refuse")
  /\ UNCHANGED <<runVars, attempt, opinion, content, callVars, marking, bounds>>

\* The worktree is compared with the snapshot from before the review.
Compare(p) ==
  /\ At(p, "answered")
  /\ IF content[runner[p].task] = "shown" THEN Goto(p, "reviewed") ELSE Handle(p, "violated")
  /\ UNCHANGED <<runVars, taskVars, marking, bounds>>

Approves(t) == opinion[t] = "approve"

\* What the reviewer said.
Verdict(p) ==
  LET t == runner[p].task
      says(what) == opinion[t] = what IN
  /\ At(p, "reviewed")
  /\ \/ Approves(t) /\ Close(p, "approve")
     \/ Approves(t) /\ "scope" \in Faults /\ Close(p, "refuse")
     \/ says("reject") /\ ~RetryLeft(t) /\ Close(p, "reject")
     \/ /\ \/ says("reject") /\ RetryLeft(t) /\ TaskStep(p, "revising", "ingate")
           \/ says("block") /\ Goto(p, "pause_read") /\ UNCHANGED task
           \/ says("malformed") /\ Handle(p, "pause_read") /\ UNCHANGED task
        /\ UNCHANGED closed
  /\ UNCHANGED <<runVars, attempt, opinion, content, callVars, marking, bounds>>

\* The attempt is closed; the task follows, or a revision is tried again.
Settle(p) ==
  /\ \/ /\ \/ At(p, "refuse") /\ FailTask(p)
           \/ At(p, "reject") /\ TaskStep(p, "failed", "ingate")
           \/ At(p, "approve") /\ TaskStep(p, "approved", "ingate")
        /\ UNCHANGED attemptVars
     \/ /\ At(p, "retry")
        /\ NewAttempt(runner[p].task) /\ Goto(p, "begin")
        /\ UNCHANGED task
  /\ UNCHANGED <<runVars, content, callVars, marking, bounds>>

-----------------------------------------------------------------------------
(* execute around the body of a task.                                      *)

\* PolicyDeniedError and InvocationOutcomeUnknown move the task before the
\* safe pause, from some of its states.
HandlerTarget(p) ==
  LET s == task[runner[p].task] IN
  IF At(p, "denied") /\ s \in {"running", "revising"} THEN "authorization_required"
  ELSE IF \/ At(p, "denied") /\ s \in {"waiting_review", "waiting_rereview"}
          \/ At(p, "unknown") /\ s = "running"
    THEN "waiting_input"
  ELSE s

HandleTask(p) ==
  /\ \/ /\ At(p, "denied") \/ At(p, "unknown")
        /\ task' = [task EXCEPT ![runner[p].task] = HandlerTarget(p)]
        /\ Goto(p, "pause_read")
     \/ /\ At(p, "violated")   \* ReadOnlyReviewViolation
        /\ \/ MoveTask(runner[p].task, "failed") /\ FinalizeAs(p, "failed")
           \/ CannotMove(p, "failed")
  /\ UNCHANGED <<runVars, attemptVars, content, callVars, marking, bounds>>

\* The generic handler: a frozen run stays paused, any other one fails.
GenericHandler(p) ==
  /\ \/ At(p, "generic") /\ control = "PAUSED" /\ Exit(p) /\ UNCHANGED task
     \/ At(p, "generic") /\ control # "PAUSED" /\ Handle(p, "generic_fail") /\ UNCHANGED task
     \/ At(p, "generic_fail") /\ MoveTask(runner[p].task, "failed") /\ FinalizeAs(p, "failed")
     \/ /\ At(p, "generic_fail")
        /\ "failed" \notin TaskTransitions[task[runner[p].task]]
        /\ FinalizeAs(p, "failed") /\ UNCHANGED task
  /\ UNCHANGED <<runVars, attemptVars, content, callVars, marking, bounds>>

\* Mutants: the control state, or the state of the task, is not looked at.
AfterUnpaused(p) ==
  /\ At(p, "after")
  /\ IF task[runner[p].task] = "failed" THEN FinalizeAs(p, "failed") ELSE NextTask(p)
  /\ UNCHANGED <<runVars, taskVars, marking, bounds>>

AfterFailure(p) ==
  /\ At(p, "after")
  /\ IF control = "PAUSED" THEN Exit(p) ELSE NextTask(p)
  /\ UNCHANGED <<runVars, taskVars, marking, bounds>>

\* The body has returned, for whatever reason.
After(p) ==
  /\ At(p, "after")
  /\ CASE control = "PAUSED" -> Exit(p)
       [] control # "PAUSED" /\ task[runner[p].task] = "failed" -> FinalizeAs(p, "failed")
       [] OTHER -> NextTask(p)
  /\ UNCHANGED <<runVars, taskVars, marking, bounds>>

\* Mutant: a call in flight counts as finished.
UnfinishedUnknown == Calls("planned") \cup Calls("unknown")

\* unfinished_calls
Unfinished == Calls("planned") \cup Calls("started") \cup Calls("unknown")

\* Mutant: a run that is done is cancelled.
FinishCancels(p) ==
  /\ At(p, "finish")
  /\ FinalizeAs(p, IF Unfinished # {} THEN "failed" ELSE "cancelled")
  /\ UNCHANGED <<runVars, taskVars, marking, bounds>>

Finish(p) ==
  /\ At(p, "finish")
  /\ FinalizeAs(p, IF Unfinished # {} THEN "failed" ELSE "completed")
  /\ UNCHANGED <<runVars, taskVars, marking, bounds>>

FinalizeRun(p) ==
  /\ At(p, "finalize")
  /\ \/ Finalize(runner[p].verdict)
     \/ ~FinalizeAllowed(runner[p].verdict) /\ UNCHANGED runVars
  /\ Exit(p)
  /\ UNCHANGED <<taskVars, marking, bounds>>

-----------------------------------------------------------------------------
(* The commands of the user, and crashes.                                  *)

Command(kind) ==
  /\ kind \in Commands
  /\ commands < MaxCommands
  /\ commands' = commands + 1
  /\ UNCHANGED <<task, attempt, closed, content, noRetry, runner, launches>>

RequestPause ==
  Command("pause") /\ TransitionControl("PAUSE_REQUESTED") /\ UNCHANGED <<call, opinion, marking>>

Takeover ==
  Command("takeover") /\ TransitionControl("USER_TAKEOVER") /\ UNCHANGED <<call, opinion, marking>>

\* Mutant: only the control state is changed.
FreezeControl ==
  /\ Command("freeze") /\ ForcePauseAllowed
  /\ control' = "PAUSED" /\ marking' = TRUE
  /\ UNCHANGED <<runState, finished, terminalCk, call, opinion>>

Freeze ==
  Command("freeze") /\ ForcePause /\ marking' = TRUE /\ UNCHANGED <<call, opinion>>

Cancel ==
  /\ Command("cancel")
  /\ runState \notin TerminalRunStates
  /\ Finalize("cancelled")
  /\ marking' = TRUE
  /\ UNCHANGED <<call, opinion>>

\* mark_active_calls_unknown, one step here; CallLedger has its steps.
MarkActive ==
  /\ marking
  /\ marking' = FALSE
  /\ call' = [k \in Slot |-> IF call[k] = "started" THEN "unknown" ELSE call[k]]
  /\ UNCHANGED <<runVars, task, attemptVars, content, noRetry, runner, bounds>>

ResolveCall ==
  /\ Command("resolve")
  /\ \E k \in Calls("unknown") : call' = [call EXCEPT ![k] = "completed"] /\ Said(k)
  /\ UNCHANGED <<runVars, marking>>

Crash(p) ==
  /\ Crashes /\ Live(p) /\ Exit(p)
  /\ UNCHANGED <<runVars, taskVars, marking, bounds>>

CommandCrash ==
  /\ Crashes /\ marking /\ marking' = FALSE
  /\ UNCHANGED <<runVars, taskVars, runner, bounds>>

\* A reviewer writes the worktree it should only read ("violation").  A worker that
\* a freeze or a crash has left behind may do so later, too; nobody looks at the
\* worktree before its call is resolved, so a write while it is STARTED stands for
\* that.
ReviewerWrites ==
  /\ "violation" \in Faults
  /\ \E k \in Calls("started") :
       /\ k[3] \in ReviewRole /\ content[k[1]] = "shown"
       /\ content' = [content EXCEPT ![k[1]] = Touched(k[1])]
  /\ UNCHANGED <<runVars, task, attemptVars, callVars, runner, marking, bounds>>

-----------------------------------------------------------------------------
ResumeStep(p) ==
  \/ CheckCalls(p) \/ RestoreResolved(p) \/ FindTakeoverChanges(p)
  \/ Invalidate(p) \/ Renew(p) \/ ToRunning(p)

ExecuteStep(p) ==
  \/ PauseIfRequested(p) \/ SafePauseRead(p) \/ SafePauseWrite(p)
  \/ Step(p) \/ Promote(p) \/ Prevented(p) \/ BeginCall(p) \/ Answer(p)
  \/ Driven(p) \/ Test(p) \/ Compare(p) \/ Verdict(p) \/ Settle(p)
  \/ HandleTask(p) \/ GenericHandler(p) \/ After(p) \/ Finish(p) \/ FinalizeRun(p)

Next ==
  \/ \E p \in Runner : Launch(p) \/ ResumeStep(p) \/ ExecuteStep(p) \/ Crash(p)
  \/ RequestPause \/ Takeover \/ Freeze \/ Cancel \/ ResolveCall
  \/ MarkActive \/ CommandCrash \/ ReviewerWrites

Spec == Init /\ [][Next]_vars

\* A process that is not killed goes on: calls and tests have a timeout, and the
\* local git commands in between are taken to end.  Nobody issues a command.
FairSpec == Spec /\ \A p \in Runner : WF_vars(ResumeStep(p) \/ ExecuteStep(p))

-----------------------------------------------------------------------------
CallStates == InvocationStates \cup {"absent"}

TypeOK ==
  /\ RunTypeOK
  /\ task \in [Task -> TaskStates]
  /\ attempt \in [Task -> 0..MaxAttempt] /\ closed \in [Task -> BOOLEAN]
  /\ content \in [Task -> Content] /\ opinion \in [Task -> Opinion \cup {"none"}]
  /\ call \in [Slot -> CallStates]
  /\ noRetry \in BOOLEAN
  /\ runner \in [Runner -> Process]
  /\ marking \in BOOLEAN
  /\ launches \in 0..MaxLaunches /\ commands \in 0..MaxCommands

(* No task is approved on the strength of an old review, of one that was   *)
(* cut short or of one that did not approve: what is approved is what the  *)
(* completed review of the latest attempt was shown and approved of,       *)
(* across pauses, freezes, edits and takeovers (HUMAN-05).  The code keeps *)
(* it where no process dies and no call is resolved by hand; with either,  *)
(* only if nobody takes over and no reviewer writes the worktree.          *)
ApprovedIsReviewed ==
  \A t \in Task : task[t] = "approved" =>
    /\ content[t] # "unseen" /\ opinion[t] = "approve"
    /\ \E role \in ReviewRole : call[<<t, attempt[t], role>>] = "completed"

(* A completed run has nothing in the air: no call STARTED or UNKNOWN.     *)
CompletedIsSettled ==
  runState = "completed" => Calls("started") \cup Calls("unknown") = {}

(* A completed run has done what was authorized: every task is approved.   *)
CompletedMeansApproved ==
  runState = "completed" => \A t \in Task : task[t] = "approved"

(* A safe pause is reported only at a call boundary: when the process that *)
(* honours it brings the control state to PAUSED, no call of the run is in *)
(* flight (HUMAN-06).                                                      *)
PausesAtBoundary ==
  [][\A p \in Runner : At(p, "pause_paused") /\ runner'[p].pc = "pause_state"
       => Calls("started") = {}]_vars

(* Finished work is not repeated: whatever interrupts a task, its          *)
(* implementation is carried out by at most one completed call (STATE-03). *)
ImplementedOnce ==
  \A t \in Task :
    Cardinality({n \in 1..MaxAttempt : call[<<t, n, "implementation">>] = "completed"}) <= 1

(* The retry limit holds across restarts: interrupted attempts use up the  *)
(* limit, they never extend it.                                            *)
RevisionsBounded ==
  \A t \in Task :
    Cardinality({n \in 1..MaxAttempt : call[<<t, n, "revision">>] = "completed"}) <= MaxRetry

(* A task is started only on top of approved work: it leaves DRAFT when    *)
(* all the tasks before it in the plan are APPROVED.                       *)
StartsInOrder ==
  [][\A t \in Task : task[t] = "draft" /\ task'[t] # "draft" =>
       \A u \in 1..(t - 1) : task[u] = "approved"]_vars

(* Every process that executes the run comes to an end.                    *)
RunnersExit == \A p \in Runner : Live(p) ~> ~Live(p)

(* A safe pause that was requested is reached, or the run ends first.      *)
PauseReached ==
  control = "PAUSE_REQUESTED" ~> control # "PAUSE_REQUESTED" \/ finished

(* If no call, test or review goes wrong, no sequence of commands makes    *)
(* the run FAILED.                                                         *)
PauseIsHarmless == Faults = {} => runState # "failed"

(* One process at a time works on the run's tasks.                         *)
SoleRunner ==
  \A p, q \in Runner : runner[p].inTry /\ runner[q].inTry => p = q

-----------------------------------------------------------------------------
(* The calls of the run, as the request keys of CallPromise.               *)
PhaseOf(k) ==
  CASE call[k] \in {"absent", "planned"} -> "fresh"
    [] call[k] \in {"started", "unknown"} -> "open"
    [] call[k] \in {"completed", "failed", "cancelled"} -> "closed"

\* How a call ended stands for its charge, which is left out here like the sending.
Promise == INSTANCE CallPromise WITH
  Key <- Slot,
  phase <- [k \in Slot |-> PhaseOf(k)],
  sends <- [k \in Slot |-> 0],
  charge <- [k \in Slot |-> IF PhaseOf(k) = "closed" THEN call[k] ELSE "none"],
  Amount <- {"completed", "failed"},
  Unreported <- "none"

(* The runners and commands keep what the ledger promises: across resumes, *)
(* freezes and resolutions a call is begun once and ends once, and no late *)
(* answer changes how it ended.                                            *)
CallsKeepPromise == Promise!Spec
=============================================================================
