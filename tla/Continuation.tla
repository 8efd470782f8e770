---------------------------- MODULE Continuation ----------------------------
(***************************************************************************)
(* The segments of one local write role of one attempt: the loop           *)
(* Runner._drive_local_role, which continues an OpenCode session that has  *)
(* run out of steps in a new call, the rows of model_calls it leaves, and  *)
(* the gate of Runner.resume in front of it.                               *)
(*                                                                         *)
(* A run may be resumed while another process still drives it, so there    *)
(* may be several drivers.  Each step is one transaction of a driver or    *)
(* one read it acts on later: between the look at the last segment and     *)
(* begin_call a pause, a freeze, a crash or another driver may come.  The  *)
(* four transactions of a safe pause are one step here and several in      *)
(* RunControl.  A worker (OpenCode) is a process group of its own: it      *)
(* survives its driver and may touch any file until its call is settled.   *)
(***************************************************************************)
EXTENDS Naturals, Sequences, SequencesExt

CONSTANTS
  Driver,            \* processes that may resume the run
  Session,           \* OpenCode session ids, all well-formed
  MaxContinuations,  \* task.implementation_max_continuations
  Inherited,         \* chains that an older version may have left behind
  MaxCrashes,        \* bound: crashes of drivers
  MaxCommands        \* bound: pauses, freezes and edits by the user

NoRef == "none"
\* What on_provider_request_id stores: local-process-group:<pid>.
ProcessRef == "process"
Ref == Session \cup {NoRef, ProcessRef}

\* kind: failure_kind; "refused" is an output limit or a protocol error.
\* request: provider_request_id; session: continuation_session_id; parent:
\* continuation_of_call_id; whole: provider, model, version and family are set
\* and agree with those of the parent.
Segment ==
  [state : {"planned", "started", "completed", "failed", "unknown"},
   kind : {"none", "step_limit", "suspected", "session_mismatch", "refused"},
   request : Ref, session : Ref, parent : {"none", "previous", "other"},
   whole : BOOLEAN]

ASSUME SegmentAssumption ==
  /\ MaxContinuations \in Nat
  /\ MaxCrashes \in Nat /\ MaxCommands \in Nat
  /\ Session \cap {NoRef, ProcessRef} = {}

\* Such a chain ends in a planned call; those before it ran out of steps, each
\* in the session of the one before.
ASSUME InheritedAssumption ==
  \A chain \in Inherited :
    /\ chain \in Seq(Segment)
    /\ Len(chain) \in 1 .. (MaxContinuations + 1)
    /\ chain[Len(chain)].state = "planned"
    /\ \A i \in 1 .. (Len(chain) - 1) :
         /\ chain[i].state = "failed" /\ chain[i].kind = "step_limit"
         /\ i > 1 => chain[i].session = chain[i - 1].request

VARIABLES
  segments,  \* the calls of the role, by segment_index + 1 (UNIQUE request_key)
  control,   \* control_state: running, pause_requested or paused
  outcome,   \* the role open or done, its task failing, the run failed
  scope,     \* changed files are allowed ("in"), or who has left the scope
  driver,    \* the processes in _drive_local_role
  freezing,  \* pause --immediate between force_pause and mark_active_calls_unknown
  invoked,   \* how often a worker was started for each segment
  crashes, commands   \* counters for the bounds

vars == <<segments, control, outcome, scope, driver, freezing, invoked,
          crashes, commands>>

Index == 1 .. (MaxContinuations + 1)

\* index and session: the segment the driver has decided to begin or waits for.
Process == [pc : {"off", "drive", "loop", "look", "begin", "call", "wait",
                  "pause", "finalize"},
            index : Nat, session : Ref]
Off == [pc |-> "off", index |-> 0, session |-> NoRef]

Init ==
  /\ segments \in {<<>>} \cup Inherited
  /\ control = "running" /\ outcome = "open" /\ scope = "in"
  /\ driver = [p \in Driver |-> Off]
  /\ freezing = FALSE
  /\ invoked = [i \in Index |-> 0]
  /\ crashes = 0 /\ commands = 0

Goto(p, pc) == driver' = [driver EXCEPT ![p].pc = pc]
Leave(p) == driver' = [driver EXCEPT ![p] = Off]
Choose(p, i, session) ==
  driver' = [driver EXCEPT ![p] = [pc |-> "begin", index |-> i, session |-> session]]

Bounds == UNCHANGED <<crashes, commands>>
Row == Last(segments)

-----------------------------------------------------------------------------
(* What a segment permits.                                                 *)

StateOf(i) == IF i \in DOMAIN segments THEN segments[i].state ELSE "absent"

\* A base call that was planned and never started.
IsBase(i) ==
  /\ i = 1 /\ segments[i].state = "planned"
  /\ segments[i].parent = "none" /\ segments[i].session = NoRef

\* Mutant: the session is not compared with the parent's.
IsContinuationOfAny(i) ==
  /\ i > 1 /\ segments[i].parent = "previous"
  /\ segments[i].session # NoRef /\ segments[i].whole

\* _classify_planned_call: a planned segment that may be started as it stands.
IsContinuation(i) ==
  /\ i > 1 /\ segments[i].parent = "previous"
  /\ segments[i].session # NoRef /\ segments[i].whole
  /\ segments[i - 1].request = segments[i].session

\* Mutant: one continuation too many.
ContinuableOnceMore(i) ==
  segments[i].request # NoRef /\ i - 1 <= MaxContinuations

\* _continuation_allowed; segment_index + 1 is i.
Continuable(i) == segments[i].request # NoRef /\ i <= MaxContinuations

HasFailed(i, kind) == segments[i].state = "failed" /\ segments[i].kind = kind

\* step_limit_calls_without_continuation.
Unfollowed(i) ==
  /\ HasFailed(i, "step_limit")
  /\ StateOf(i + 1) \in {"absent", "planned"}

\* What Runner.resume refuses.
Blocking(i) ==
  \/ segments[i].state = "unknown"
  \/ HasFailed(i, "refused")
  \/ HasFailed(i, "suspected")
  \/ Unfollowed(i) /\ ~Continuable(i)

-----------------------------------------------------------------------------
(* The driver.                                                             *)

\* resume (or start) reaches the role; a run that is still RUNNING must not
\* have a call in flight.
Resume(p) ==
  /\ driver[p].pc = "off" /\ outcome = "open"
  /\ control \in {"running", "paused"}
  /\ \A i \in DOMAIN segments : ~Blocking(i)
  /\ control = "running" => \A i \in DOMAIN segments : segments[i].state # "started"
  /\ control' = "running"
  /\ Goto(p, "drive")
  /\ Bounds
  /\ UNCHANGED <<segments, outcome, scope, freezing, invoked>>

\* The role is done: the drive returns True.
Return(p) ==
  /\ outcome' = IF outcome = "open" THEN "done" ELSE outcome
  /\ Leave(p)

\* execute's last handler: a frozen run stays paused, any other one fails.
Fail(p) ==
  IF control = "paused" THEN Leave(p) /\ UNCHANGED outcome
  ELSE /\ outcome' = IF outcome = "failed" THEN outcome ELSE "failing"
       /\ Goto(p, "finalize")

\* _file_scope_failed: the task fails, whatever the control state.
FailScope(p) ==
  /\ outcome' = IF outcome = "failed" THEN outcome ELSE "failing"
  /\ Goto(p, "finalize")

\* _drive_local_role up to its loop.
Drive(p) ==
  /\ driver[p].pc = "drive"
  /\ \/ segments = <<>> /\ Choose(p, 1, NoRef) /\ UNCHANGED outcome
     \/ segments # <<>> /\ Row.state = "completed" /\ Return(p)
     \/ /\ segments # <<>> /\ Row.state # "completed"
        /\ IF IsBase(Len(segments))
           THEN IF Row.whole THEN Choose(p, 1, NoRef) ELSE Goto(p, "pause")
           ELSE Goto(p, "loop")
        /\ UNCHANGED outcome
  /\ Bounds
  /\ UNCHANGED <<segments, control, scope, freezing, invoked>>

\* _continuation_pause_requested.
ReadControl(p) ==
  /\ driver[p].pc = "loop"
  /\ Goto(p, IF control = "running" THEN "look" ELSE "pause")
  /\ Bounds
  /\ UNCHANGED <<segments, control, outcome, scope, freezing, invoked>>

\* Mutant: the changed files are not looked at before a continuation.
ProceedAnyway(p, i, session) ==
  Choose(p, i, session) /\ UNCHANGED outcome

\* The changed files are checked before every continuation.
Proceed(p, i, session) ==
  IF scope = "in" THEN Choose(p, i, session) /\ UNCHANGED outcome
  ELSE FailScope(p)

\* Mutant: the loop goes round where it should raise.
StayInLoop(p) == Goto(p, "loop") /\ UNCHANGED outcome

\* InvocationIncompleteError: execute pauses the run.
GiveUp(p) == Goto(p, "pause") /\ UNCHANGED outcome

Follows(i) == HasFailed(i, "step_limit") /\ Continuable(i)

\* The loop's look at the last segment.
Look(p) ==
  LET i == Len(segments) IN
  /\ driver[p].pc = "look"
  /\ \/ Row.state = "completed" /\ Return(p)
     \/ /\ Row.state = "planned"
        /\ IF IsContinuation(i) THEN Proceed(p, i, Row.session) ELSE GiveUp(p)
     \/ Follows(i) /\ Proceed(p, i + 1, Row.request)
     \/ /\ Row.state \in {"failed", "started", "unknown"} /\ ~Follows(i)
        /\ GiveUp(p)
  /\ Bounds
  /\ UNCHANGED <<segments, control, scope, freezing, invoked>>

NewSegment(p) ==
  [state |-> "started", kind |-> "none", request |-> NoRef,
   session |-> driver[p].session,
   parent |-> IF driver[p].index = 1 THEN "none" ELSE "previous", whole |-> TRUE]

\* Mutant: a row in any state but completed is started again.
StartableAgain(i) == StateOf(i) # "completed"

\* No row has the request key, or a planned one that is reused.
Startable(i) == StateOf(i) \in {"absent", "planned"}

\* begin_call.
Begin(p) ==
  LET i == driver[p].index
      open == control = "running" /\ outcome # "failed" IN
  /\ driver[p].pc = "begin"
  /\ \/ ~open /\ Goto(p, "pause") /\ UNCHANGED <<segments, invoked, outcome>>
     \/ /\ open /\ Startable(i)
        /\ segments' = IF i > Len(segments) THEN Append(segments, NewSegment(p))
                       ELSE [segments EXCEPT ![i].state = "started"]
        /\ invoked' = [invoked EXCEPT ![i] = @ + 1]
        /\ Goto(p, "call")
        /\ UNCHANGED outcome
     \* REUSED_COMPLETED, or a call in another state that cannot be started.
     \/ /\ open /\ ~Startable(i)
        /\ IF segments[i].state = "completed" THEN Return(p) ELSE Fail(p)
        /\ UNCHANGED <<segments, invoked>>
  /\ Bounds
  /\ UNCHANGED <<control, scope, freezing>>

\* OpenCode is running and on_provider_request_id has noted its process group.
Callback(p) ==
  /\ driver[p].pc = "call"
  /\ segments' = [segments EXCEPT ![driver[p].index].request = ProcessRef]
  /\ Goto(p, "wait")
  /\ Bounds
  /\ UNCHANGED <<control, outcome, scope, freezing, invoked>>

\* complete_call and fail_call: the reported session id, if there is one,
\* replaces what is stored.
Write(i, state, kind, reported) ==
  LET request == IF reported = NoRef THEN segments[i].request ELSE reported IN
  /\ segments[i].state \in {"started", "unknown"}
  /\ segments' = [segments EXCEPT ![i].state = state, ![i].kind = kind,
                                  ![i].request = request]

\* What OpenCode's answer amounts to.  A continuation that completes must
\* report the session it was asked for; a step limit at exit code 0 is not
\* compared with it.
Answer(p) ==
  LET i == driver[p].index IN
  /\ driver[p].pc = "wait"
  /\ \E reported \in Session \cup {NoRef} :
     LET fits == driver[p].session \in {NoRef, reported} IN
     \/ fits /\ Write(i, "completed", "none", reported) /\ Return(p)
     \/ ~fits /\ Write(i, "failed", "session_mismatch", reported) /\ GiveUp(p)
     \/ /\ Write(i, "failed", "step_limit", reported)
        /\ Goto(p, "loop") /\ UNCHANGED outcome
     \/ \E kind \in {"suspected", "refused"} :
          Write(i, "failed", kind, reported) /\ GiveUp(p)
  /\ Bounds
  /\ UNCHANGED <<control, scope, freezing, invoked>>

\* The adapter raises something else, before or after OpenCode has started.
Raise(p) ==
  /\ driver[p].pc \in {"call", "wait"}
  /\ Write(driver[p].index, "failed", "none", NoRef)
  /\ Fail(p)
  /\ Bounds
  /\ UNCHANGED <<control, scope, freezing, invoked>>

\* A timeout or a signal: mark_call_unknown, which a frozen call refuses.
TimeOut(p) ==
  LET i == driver[p].index IN
  /\ driver[p].pc = "wait"
  /\ IF segments[i].state = "started"
     THEN segments' = [segments EXCEPT ![i].state = "unknown"] /\ GiveUp(p)
     ELSE UNCHANGED segments /\ Fail(p)
  /\ Bounds
  /\ UNCHANGED <<control, scope, freezing, invoked>>

\* _complete_safe_pause.
SafePause(p) ==
  /\ driver[p].pc = "pause"
  /\ control' = "paused"
  /\ Leave(p)
  /\ Bounds
  /\ UNCHANGED <<segments, outcome, scope, freezing, invoked>>

\* finalize_run of a run whose task has failed.
Finalize(p) ==
  /\ driver[p].pc = "finalize"
  /\ outcome' = "failed"
  /\ Leave(p)
  /\ Bounds
  /\ UNCHANGED <<segments, control, scope, freezing, invoked>>

Crash(p) ==
  /\ driver[p].pc # "off" /\ crashes < MaxCrashes
  /\ crashes' = crashes + 1
  /\ Leave(p)
  /\ UNCHANGED <<segments, control, outcome, scope, freezing, invoked, commands>>

-----------------------------------------------------------------------------
(* The worker and the user.                                                *)

\* A worker whose call is not settled leaves the allowed files.
Stray ==
  /\ scope = "in"
  /\ \E i \in DOMAIN segments :
       segments[i].state \in {"started", "unknown"} /\ segments[i].request # NoRef
  /\ scope' = "worker"
  /\ Bounds
  /\ UNCHANGED <<segments, control, outcome, driver, freezing, invoked>>

Command ==
  /\ commands < MaxCommands /\ commands' = commands + 1 /\ UNCHANGED crashes

Pause ==
  /\ Command
  /\ control = "running" /\ outcome # "failed"
  /\ control' = "pause_requested"
  /\ UNCHANGED <<segments, outcome, scope, driver, freezing, invoked>>

\* pause --immediate: first the run, then its calls.
Freeze ==
  /\ Command
  /\ control # "paused" /\ outcome # "failed" /\ ~freezing
  /\ control' = "paused" /\ freezing' = TRUE
  /\ UNCHANGED <<segments, outcome, scope, driver, invoked>>

\* Mutant: the calls are cancelled, which no started call may be.
MarkCancelled ==
  /\ freezing
  /\ segments' = [i \in DOMAIN segments |->
       [segments[i] EXCEPT !.state = IF @ = "started" THEN "cancelled" ELSE @]]
  /\ freezing' = FALSE
  /\ Bounds
  /\ UNCHANGED <<control, outcome, scope, driver, invoked>>

\* mark_active_calls_unknown.
MarkUnknown ==
  /\ freezing
  /\ segments' = [i \in DOMAIN segments |->
       [segments[i] EXCEPT !.state = IF @ = "started" THEN "unknown" ELSE @]]
  /\ freezing' = FALSE
  /\ Bounds
  /\ UNCHANGED <<control, outcome, scope, driver, invoked>>

\* A user works in the worktree of a paused run.
Edit ==
  /\ Command
  /\ control = "paused"
  /\ scope' \in {"in", "user"}
  /\ UNCHANGED <<segments, control, outcome, driver, freezing, invoked>>

DriverStep(p) ==
  \/ Drive(p) \/ ReadControl(p) \/ Look(p) \/ Begin(p) \/ Callback(p)
  \/ Answer(p) \/ Raise(p) \/ TimeOut(p) \/ SafePause(p) \/ Finalize(p)

Next ==
  \/ \E p \in Driver : Resume(p) \/ DriverStep(p) \/ Crash(p)
  \/ Stray \/ Pause \/ Freeze \/ MarkUnknown \/ Edit

Spec == Init /\ [][Next]_vars

\* A driver goes on: process.communicate has a timeout, so it gets an answer.
FairSpec == Spec /\ \A p \in Driver : WF_vars(DriverStep(p))

-----------------------------------------------------------------------------
(* Properties.                                                             *)

\* Every variable stays in its set; a segment exists only after the one before.
TypeOK ==
  /\ segments \in Seq(Segment)
  /\ control \in {"running", "pause_requested", "paused"}
  /\ outcome \in {"open", "done", "failing", "failed"}
  /\ scope \in {"in", "worker", "user"}
  /\ driver \in [Driver -> Process]
  /\ freezing \in BOOLEAN
  /\ invoked \in [Index -> Nat]
  /\ crashes \in 0 .. MaxCrashes /\ commands \in 0 .. MaxCommands

\* However often the run is paused, crashes and is resumed, a role never takes
\* more calls than the plan allows: the base call and MaxContinuations more.
SegmentsBounded == Len(segments) <= MaxContinuations + 1

\* No segment is given to a worker twice: not by a second driver that has
\* looked at the same last segment, nor after a crash.
InvokedOnce == \A i \in Index : invoked[i] <= 1

\* A segment is started only on top of one that has run out of steps, in the
\* very session that this one has on record; nothing follows a completed, a
\* refused or an unknown segment.
ChainKept ==
  \A i \in DOMAIN segments : i > 1 /\ segments[i].state # "planned" =>
    /\ HasFailed(i - 1, "step_limit")
    /\ segments[i].session = segments[i - 1].request

\* A worker that has left the allowed files is never followed by another one
\* in the same worktree, unless the user has been there in between.
StrayedNotContinued ==
  [][invoked' = invoked \/ scope # "worker"]_vars

\* A driver comes to an end: it completes the role, pauses or fails.
DriveTerminates ==
  \A p \in Driver : driver[p].pc # "off" ~> driver[p].pc = "off"

\* A continuation is given a session that a worker has reported; without one
\* the run stays paused.
SessionKept ==
  \A i \in DOMAIN segments : segments[i].state # "planned" =>
    segments[i].session # ProcessRef
=============================================================================
