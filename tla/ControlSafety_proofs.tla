------------------------ MODULE ControlSafety_proofs ------------------------
(***************************************************************************)
(* Proofs about RunControl when one process at a time executes the run:    *)
(* the order of the tasks, what a completed run means, where a safe pause  *)
(* falls, what an approval rests on, and how often a task is implemented   *)
(* and revised.                                                            *)
(***************************************************************************)
EXTENDS RunControl_proofs, FiniteSetTheorems

\* One process executes the run; the commands are others.
Sole == \A p, q \in Runner : p = q

-----------------------------------------------------------------------------
(* The parts of the inductive invariant.                                   *)

AllApproved == \A t \in Task : task[t] = "approved"

\* Nobody has taken over, and no resume acts as if somebody had.
NoTakeover ==
  /\ control # "USER_TAKEOVER"
  /\ \A p \in Runner : /\ runner[p].seen # "USER_TAKEOVER"
                       /\ runner[p].pc \notin {"takeover", "invalidate", "renew"}

\* The tasks before the one in hand are approved.
Prefix == \A p \in Runner : \A u \in 1..(runner[p].task - 1) : task[u] = "approved"

\* A process that is about to complete the run has approved all of it.
Done ==
  /\ \A p \in Runner : At(p, "finish") => AllApproved
  /\ \A p \in Runner : At(p, "finalize") /\ runner[p].verdict = "completed" => AllApproved
  /\ CompletedMeansApproved

\* RESUMING is seen by the process that has set it only, or left by a crash or by
\* one that is on its way to fail the run; the reads of a safe pause tell how far it
\* has come; the body of a task ends with a pause or with the task.
Pausing ==
  /\ control = "RESUMING" => \A p \in Runner :
       \/ runner[p].pc \in {"off", "rerunning", "generic", "generic_fail", "finalize"}
       \/ At(p, "check") /\ runner[p].seen = "RESUMING"
  /\ \A p \in Runner : At(p, "pause_seen") =>
       control \in {"PAUSE_REQUESTED", "QUIESCING", "PAUSED"}
  /\ \A p \in Runner : At(p, "pause_saved") => control \in {"QUIESCING", "PAUSED"}
  /\ \A p \in Runner : At(p, "pause_state") => control = "PAUSED"
  /\ \A p \in Runner : At(p, "after") =>
       control = "PAUSED" \/ task[runner[p].task] \in {"approved", "failed"}

OrderInv == NoTakeover /\ Prefix /\ Done /\ Pausing

-----------------------------------------------------------------------------
(* What is approved or failed is not moved again.                          *)
LEMMA EndStates ==
  /\ TaskTransitions["approved"] = {} /\ TaskTransitions["failed"] = {}
  /\ TaskTransitions["waiting_input"] = {"running", "queued", "revising", "cancelled"}
  BY DEF TaskTransitions, TaskStates

(* Where the control state may come from.                                  *)
LEMMA ControlSources ==
  \A s \in ControlStates :
    /\ "RESUMING" \in ControlTransitions[s] <=> s \in {"PAUSED", "USER_TAKEOVER"}
    /\ "RUNNING" \in ControlTransitions[s] <=> s = "RESUMING"
    /\ "PAUSE_REQUESTED" \in ControlTransitions[s] <=> s = "RUNNING"
    /\ "QUIESCING" \in ControlTransitions[s] <=> s = "PAUSE_REQUESTED"
    /\ "PAUSED" \in ControlTransitions[s] <=> s \in {"QUIESCING", "RESUMING"}
  BY DEF ControlTransitions, ControlStates

(* The initial state satisfies the invariant.                              *)
LEMMA OrderInit == Sole /\ Init => OrderInv
<1> SUFFICES ASSUME Sole, Init PROVE OrderInv
  OBVIOUS
<1>1. \A p \in Runner : /\ runner[p].pc = "gate" /\ runner[p].task = 1
                        /\ runner[p].seen = "RUNNING"
  BY DEF Init, Sole, Off
<1>2. control = "RUNNING" /\ runState = "running"
  BY DEF Init, RunInit
<1> QED
  BY <1>1, <1>2 DEF OrderInv, NoTakeover, Prefix, Done, Pausing, At, CompletedMeansApproved

\* The place of a process is compatible with the control state and its task.
Placed(p) ==
  /\ runner[p].seen # "USER_TAKEOVER"
  /\ runner[p].pc \notin {"takeover", "invalidate", "renew"}
  /\ control = "RESUMING" =>
       \/ runner[p].pc \in {"off", "rerunning", "generic", "generic_fail", "finalize"}
       \/ runner[p].pc = "check" /\ runner[p].seen = "RESUMING"
  /\ runner[p].pc = "pause_seen" => control \in {"PAUSE_REQUESTED", "QUIESCING", "PAUSED"}
  /\ runner[p].pc = "pause_saved" => control \in {"QUIESCING", "PAUSED"}
  /\ runner[p].pc = "pause_state" => control = "PAUSED"
  /\ runner[p].pc = "after" =>
       control = "PAUSED" \/ task[runner[p].task] \in {"approved", "failed"}

\* The process is not about to complete the run.
NotLast(p) == runner[p].pc # "finish" /\ (runner[p].pc = "finalize" => runner[p].verdict = "failed")

(* A step keeps the invariant if it leaves approved tasks alone and puts   *)
(* the process into a place that fits.                                     *)
LEMMA Effect ==
  ASSUME Sole, ControlTypeOK, ControlTypeOK', OrderInv, NEW p \in Runner,
         \A t \in Task : task[t] = "approved" => task'[t] = "approved",
         \/ runner'[p].task = runner[p].task \/ runner'[p].task = 1
         \/ runner'[p].task = runner[p].task + 1 /\ task[runner[p].task] = "approved",
         control' # "USER_TAKEOVER", Placed(p)',
         NotLast(p)' \/ AllApproved',
         runState' = "completed" => runState = "completed" \/ AllApproved'
  PROVE  OrderInv'
<1>1. \A q \in Runner : q = p
  BY DEF Sole
<1>2. runner[p].task \in Nat /\ runner'[p].task \in Nat
  BY DEF ControlTypeOK, Process, Task
<1>3. Prefix'
  <2> SUFFICES ASSUME NEW u \in 1..(runner'[p].task - 1) PROVE task'[u] = "approved"
    BY <1>1 DEF Prefix
  <2>0. u \in Task
    <3>1. runner'[p].task \in 1..NTasks
      BY DEF ControlTypeOK, Process, Task
    <3> QED
      BY <3>1, ControlAssumption DEF Task
  <2>1. CASE u \in 1..(runner[p].task - 1)
    BY <2>0, <2>1 DEF OrderInv, Prefix
  <2>2. CASE u = runner[p].task /\ task[runner[p].task] = "approved"
    BY <2>0, <2>2
  <2> QED
    BY <1>2, <2>1, <2>2
<1>4. NoTakeover' /\ Pausing'
  BY <1>1 DEF NoTakeover, Pausing, Placed, At
<1>5. Done'
  BY <1>1 DEF OrderInv, Done, At, NotLast, CompletedMeansApproved, AllApproved
<1> QED
  BY <1>3, <1>4, <1>5 DEF OrderInv

-----------------------------------------------------------------------------
(* The moves of a process, field by field.                                 *)
Kept(p, pc) ==
  /\ runner'[p].pc = pc /\ runner'[p].task = runner[p].task
  /\ runner'[p].seen = runner[p].seen

Gone(p) == runner'[p] = Off

(* What each way of moving a process does to its place, task and reading.  *)
LEMMA Fields ==
  ASSUME RunnersTyped, NEW p \in Runner
  PROVE  /\ \A pc : Goto(p, pc) \/ Handle(p, pc) => Kept(p, pc)
         /\ \A pc, role : runner' = [runner EXCEPT ![p].pc = pc, ![p].role = role] => Kept(p, pc)
         /\ Exit(p) => Gone(p)
         /\ Raise(p) => Kept(p, "generic") \/ Gone(p)
         /\ Leave(p) => Kept(p, "after") \/ Gone(p)
         /\ \A s : FinalizeAs(p, s) => Kept(p, "finalize") /\ runner'[p].verdict = s
         /\ NextTask(p) => \/ /\ runner[p].task + 1 \in Task
                              /\ runner'[p].task = runner[p].task + 1
                              /\ runner'[p].pc = "gate" /\ runner'[p].seen = runner[p].seen
                           \/ runner[p].task + 1 \notin Task /\ Kept(p, "finish")
<1>1. runner[p] \in Process /\ p \in DOMAIN runner
  BY DEF RunnersTyped
<1>2. \A pc : Goto(p, pc) => Kept(p, pc)
  BY <1>1 DEF Goto, Kept, Process
<1>3. \A pc : Handle(p, pc) => Kept(p, pc)
  BY <1>1 DEF Handle, Kept, Process
<1>4. \A pc, role : runner' = [runner EXCEPT ![p].pc = pc, ![p].role = role] => Kept(p, pc)
  BY <1>1 DEF Kept, Process
<1>5. Exit(p) => Gone(p)
  BY <1>1 DEF Exit, Gone
<1>6. \A s : FinalizeAs(p, s) => Kept(p, "finalize") /\ runner'[p].verdict = s
  <2> SUFFICES ASSUME NEW s, FinalizeAs(p, s)
               PROVE  Kept(p, "finalize") /\ runner'[p].verdict = s
    OBVIOUS
  <2>1. runner'[p] = [runner[p] EXCEPT !.pc = "finalize", !.verdict = s, !.inTry = FALSE]
    BY <1>1 DEF FinalizeAs
  <2> QED
    BY <1>1, <2>1 DEF Kept, Process
<1>7. NextTask(p) => \/ /\ runner[p].task + 1 \in Task
                        /\ runner'[p].task = runner[p].task + 1
                        /\ runner'[p].pc = "gate" /\ runner'[p].seen = runner[p].seen
                     \/ runner[p].task + 1 \notin Task /\ Kept(p, "finish")
  BY <1>1 DEF NextTask, Kept, Process
<1> QED
  BY <1>2, <1>3, <1>4, <1>5, <1>6, <1>7 DEF Raise, Leave

(* Whoever has left is placed well.                                        *)
LEMMA GonePlaced ==
  ASSUME NEW p \in Runner, Gone(p) PROVE Placed(p)' /\ NotLast(p)' /\ runner'[p].task = 1
  BY DEF Gone, Placed, NotLast, Off

(* What the invariant says of the process at its place.                    *)
LEMMA PlacedNow == ASSUME OrderInv, NEW p \in Runner PROVE Placed(p) /\ control # "USER_TAKEOVER"
  BY DEF OrderInv, NoTakeover, Pausing, Placed, At
\* The places about which the invariant says nothing.
Free == PC \ {"takeover", "invalidate", "renew", "pause_seen", "pause_saved",
              "pause_state", "after", "finish", "finalize"}

ApprovedStay == \A t \in Task : task[t] = "approved" => task'[t] = "approved"

(* Most steps take the process to such a place, or out of the run.         *)
LEMMA OrdinaryMove ==
  ASSUME Sole, ControlTypeOK, ControlTypeOK', OrderInv, NEW p \in Runner,
         ApprovedStay, UNCHANGED <<control, runState>>,
         \/ \E pc \in Free : Kept(p, pc) /\ (control = "RESUMING" => pc = "generic")
         \/ Gone(p)
  PROVE  OrderInv'
<1>1. Placed(p) /\ control # "USER_TAKEOVER"
  BY PlacedNow
<1>2. CASE Gone(p)
  BY <1>1, <1>2, GonePlaced, Effect DEF ApprovedStay
<1>3. ASSUME NEW pc \in Free, Kept(p, pc), control = "RESUMING" => pc = "generic"
      PROVE  OrderInv'
  <2>1. Placed(p)' /\ NotLast(p)' /\ runner'[p].task = runner[p].task
    BY <1>1, <1>3 DEF Kept, Free, Placed, NotLast
  <2> QED
    BY <1>1, <2>1, Effect DEF ApprovedStay
<1> QED
  BY <1>2, <1>3

(* A task that is moved was not approved; what the process does then.      *)
LEMMA TaskEffects ==
  ASSUME ControlTypeOK, NEW p \in Runner
  PROVE  /\ \A t, target : MoveTask(t, target) =>
              ApprovedStay /\ (t \in Task => task'[t] = target)
         /\ \A target : CannotMove(p, target) =>
              ApprovedStay /\ (Kept(p, "generic") \/ Gone(p))
         /\ \A target, pc : TaskStep(p, target, pc) =>
              ApprovedStay /\ (Kept(p, pc) \/ Kept(p, "generic") \/ Gone(p))
         /\ FailTask(p) =>
              /\ ApprovedStay
              /\ \/ Kept(p, "after") /\ task'[runner[p].task] = "failed"
                 \/ Kept(p, "generic") \/ Gone(p)
<1>1. RunnersTyped /\ runner[p].task \in Task
  BY DEF ControlTypeOK, RunnersTyped, Process
<1>2. \A t, target : MoveTask(t, target) => ApprovedStay /\ (t \in Task => task'[t] = target)
  BY EndStates DEF MoveTask, ApprovedStay, ControlTypeOK
<1>3. \A target : CannotMove(p, target) => ApprovedStay /\ (Kept(p, "generic") \/ Gone(p))
  BY <1>1, Fields DEF CannotMove, ApprovedStay
<1>4. \A target, pc : TaskStep(p, target, pc) =>
        ApprovedStay /\ (Kept(p, pc) \/ Kept(p, "generic") \/ Gone(p))
  BY <1>1, <1>2, <1>3, Fields DEF TaskStep
<1>5. FailTask(p) => /\ ApprovedStay
                     /\ \/ Kept(p, "after") /\ task'[runner[p].task] = "failed"
                        \/ Kept(p, "generic") \/ Gone(p)
  BY <1>1, <1>2, <1>3, Fields DEF FailTask
<1> QED
  BY <1>2, <1>3, <1>4, <1>5

(* The loop goes on from an approved task.                                 *)
LEMMA NextTaskKeeps ==
  ASSUME Sole, ControlTypeOK, ControlTypeOK', OrderInv, NEW p \in Runner,
         NextTask(p), task[runner[p].task] = "approved",
         UNCHANGED <<control, runState, task>>, control # "RESUMING"
  PROVE  OrderInv'
<1>1. /\ RunnersTyped /\ runner[p].task \in 1..NTasks /\ NTasks \in Nat
      /\ Placed(p) /\ control # "USER_TAKEOVER"
  BY PlacedNow, ControlAssumption DEF ControlTypeOK, RunnersTyped, Process, Task
<1>2. CASE runner[p].task + 1 \in Task
  <2>1. /\ runner'[p].task = runner[p].task + 1
        /\ runner'[p].pc = "gate" /\ runner'[p].seen = runner[p].seen
    BY <1>1, <1>2, Fields DEF Kept
  <2>2. Placed(p)' /\ NotLast(p)'
    BY <1>1, <2>1 DEF Placed, NotLast
  <2> QED
    BY <1>1, <2>1, <2>2, Effect
<1>3. CASE runner[p].task + 1 \notin Task
  <2>1. Kept(p, "finish")
    BY <1>1, <1>3, Fields
  <2>2. AllApproved
    <3>1. runner[p].task = NTasks
      BY <1>1, <1>3 DEF Task
    <3>2. \A u \in 1..(NTasks - 1) : task[u] = "approved"
      BY <3>1 DEF OrderInv, Prefix
    <3> QED
      BY <1>1, <3>1, <3>2 DEF AllApproved, Task
  <2>3. Placed(p)' /\ AllApproved'
    BY <1>1, <2>1, <2>2 DEF Placed, Kept, AllApproved
  <2> QED
    BY <1>1, <2>1, <2>3, Effect DEF Kept
<1> QED
  BY <1>2, <1>3
-----------------------------------------------------------------------------
(* The steps of resume.                                                    *)
LEMMA ResumeKeepsOrder ==
  ASSUME Sole, ControlTypeOK, ControlTypeOK', RunTypeOK, OrderInv, NEW p \in Runner,
         Launch(p) \/ ResumeStep(p)
  PROVE  OrderInv'
<1>1. /\ RunnersTyped /\ runner[p] \in Process /\ p \in DOMAIN runner
      /\ Placed(p) /\ control # "USER_TAKEOVER"
  BY PlacedNow DEF ControlTypeOK, RunnersTyped
<1> USE DEF runVars, taskVars, attemptVars, callVars, bounds
<1>2. CASE Launch(p)
  <2>1. runner'[p] = [Off EXCEPT !.pc = "check", !.seen = control]
    BY <1>1, <1>2 DEF Launch
  <2>2. Placed(p)' /\ NotLast(p)' /\ runner'[p].task = 1
    BY <1>1, <1>2, <2>1 DEF Launch, Placed, NotLast, Off
  <2> QED
    BY <1>1, <1>2, <2>2, Effect DEF Launch
<1>3. CASE CheckCalls(p)
  <2>1. ApprovedStay /\ UNCHANGED <<control, runState>>
    BY <1>3 DEF CheckCalls, ApprovedStay
  <2>2. \/ Gone(p)
        \/ \E pc \in {"gate", "restore"} : Kept(p, pc) /\ control # "RESUMING"
    BY <1>1, <1>3, Fields DEF CheckCalls, At, ResumeRefused, Placed
  <2> QED
    BY <2>1, <2>2, OrdinaryMove DEF Free, PC
<1>4. CASE RestoreResolved(p)
  <2>1. UNCHANGED <<control, runState>> /\ control # "RESUMING"
    BY <1>1, <1>4 DEF RestoreResolved, Placed, At
  <2>3. CASE UNCHANGED task /\ Goto(p, "resuming")
    <3>1. ApprovedStay /\ Kept(p, "resuming")
      BY <1>1, <2>3, Fields DEF ApprovedStay
    <3> QED
      BY <2>1, <3>1, OrdinaryMove DEF Free, PC
  <2>4. CASE \E t : MoveTask(t, "running") /\ UNCHANGED runner
    <3>1. ApprovedStay
      BY <2>4, TaskEffects, <1>1
    <3>2. Kept(p, "restore")
      BY <1>4, <2>4 DEF RestoreResolved, Kept, At
    <3> QED
      BY <2>1, <3>1, <3>2, OrdinaryMove DEF Free, PC
  <2> QED
    BY <1>1, <1>4, <2>3, <2>4 DEF RestoreResolved, Placed
<1>5. ~FindTakeoverChanges(p) /\ ~Invalidate(p) /\ ~Renew(p)
  BY <1>1 DEF FindTakeoverChanges, Invalidate, Renew, At, Placed
<1>6. CASE ToRunning(p)
  <2>1. ApprovedStay
    BY <1>6 DEF ToRunning, ApprovedStay
  <2>2. CASE UNCHANGED <<control, runState>> /\ (Kept(p, "generic") \/ Gone(p))
    BY <2>1, <2>2, OrdinaryMove DEF Free, PC
  <2>3. CASE control' = "RESUMING" /\ UNCHANGED runState /\ Kept(p, "rerunning")
    <3>1. Placed(p)' /\ NotLast(p)'
      BY <1>1, <2>3 DEF Placed, NotLast, Kept
    <3> QED
      BY <2>1, <2>3, <3>1, Effect DEF ApprovedStay, Kept
  <2>4. CASE control' = "RUNNING" /\ UNCHANGED runState /\ Kept(p, "restate")
    <3>1. Placed(p)' /\ NotLast(p)'
      BY <1>1, <2>4 DEF Placed, NotLast, Kept
    <3> QED
      BY <2>1, <2>4, <3>1, Effect DEF ApprovedStay, Kept
  <2>5. CASE /\ runState' = "running" /\ UNCHANGED control /\ Kept(p, "gate")
             /\ runner[p].pc = "restate"
    <3>1. Placed(p)' /\ NotLast(p)'
      BY <1>1, <2>5 DEF Placed, NotLast, Kept
    <3> QED
      BY <1>1, <2>1, <2>5, <3>1, Effect DEF ApprovedStay, Kept
  <2> QED
    BY <1>1, <1>6, <2>2, <2>3, <2>4, <2>5, Fields
       DEF ToRunning, ControlStep, TransitionControl, SetRunState, At
<1> QED
  BY <1>2, <1>3, <1>4, <1>5, <1>6 DEF ResumeStep
(* The steps of a safe pause.                                              *)
LEMMA PauseKeepsOrder ==
  ASSUME Sole, ControlTypeOK, ControlTypeOK', RunTypeOK, OrderInv, NEW p \in Runner,
         SafePauseRead(p) \/ SafePauseWrite(p)
  PROVE  OrderInv'
<1>1. RunnersTyped /\ Placed(p) /\ control # "USER_TAKEOVER" /\ control \in ControlStates
  BY PlacedNow DEF ControlTypeOK, RunnersTyped, RunTypeOK
<1>2. ApprovedStay /\ UNCHANGED task
  BY DEF SafePauseRead, SafePauseWrite, taskVars, ApprovedStay
<1>3. ASSUME NEW pc \in PC, Kept(p, pc), UNCHANGED <<control, runState>>,
             control # "RESUMING",
             \/ pc \in {"pause_request", "pause_quiesce", "pause_paused", "generic"}
             \/ pc = "pause_seen" /\ control \in {"PAUSE_REQUESTED", "QUIESCING", "PAUSED"}
             \/ pc = "pause_saved" /\ control \in {"QUIESCING", "PAUSED"}
             \/ pc \in {"pause_state", "after"} /\ control = "PAUSED"
      PROVE  OrderInv'
  <2>1. Placed(p)' /\ NotLast(p)'
    BY <1>1, <1>3 DEF Placed, NotLast, Kept
  <2> QED
    BY <1>1, <1>2, <1>3, <2>1, Effect DEF ApprovedStay, Kept
<1>4. CASE SafePauseRead(p)
  <2>1. UNCHANGED <<control, runState>> /\ control # "RESUMING"
    BY <1>1, <1>4 DEF SafePauseRead, runVars, At, Placed
  <2>2. CASE At(p, "pause_read")
    <3>1. \/ Kept(p, "pause_request")
          \/ Kept(p, "pause_seen") /\ control # "RUNNING"
      BY <1>1, <1>4, <2>2, Fields DEF SafePauseRead, At
    <3> QED
      BY <1>1, <1>3, <2>1, <3>1 DEF PC, ControlStates
  <2>3. CASE At(p, "pause_seen")
    <3>1. \/ Kept(p, "pause_quiesce")
          \/ Kept(p, "pause_saved") /\ control # "PAUSE_REQUESTED"
      BY <1>1, <1>4, <2>3, Fields DEF SafePauseRead, At
    <3> QED
      BY <1>1, <1>3, <2>1, <2>3, <3>1 DEF PC, Placed, At
  <2>4. CASE At(p, "pause_saved")
    <3>1. \/ Kept(p, "pause_paused")
          \/ Kept(p, "pause_state") /\ control # "QUIESCING"
      BY <1>1, <1>4, <2>4, Fields DEF SafePauseRead, At
    <3> QED
      BY <1>1, <1>3, <2>1, <2>4, <3>1 DEF PC, Placed, At
  <2> QED
    BY <1>4, <2>2, <2>3, <2>4 DEF SafePauseRead
<1>5. CASE SafePauseWrite(p)
  <2>1. control # "RESUMING"
    BY <1>1, <1>5 DEF SafePauseWrite, At, Placed
  <2>2. CASE UNCHANGED <<control, runState>> /\ (Kept(p, "generic") \/ Gone(p))
    BY <1>2, <2>2, OrdinaryMove DEF Free, PC
  <2>3. ASSUME NEW target \in {"PAUSE_REQUESTED", "QUIESCING", "PAUSED"}, NEW pc,
               TransitionControl(target), Kept(p, pc),
               <<target, pc>> \in {<<"PAUSE_REQUESTED", "pause_seen">>,
                                  <<"QUIESCING", "pause_saved">>, <<"PAUSED", "pause_state">>}
        PROVE  OrderInv'
    <3>1. Placed(p)' /\ NotLast(p)' /\ control' # "USER_TAKEOVER" /\ UNCHANGED runState
      BY <1>1, <2>3 DEF Placed, NotLast, Kept, TransitionControl
    <3> QED
      BY <1>2, <2>3, <3>1, Effect DEF ApprovedStay, Kept
  <2>4. CASE At(p, "pause_state") /\ SetRunState("paused") /\ Leave(p)
    <3>1. control = "PAUSED" /\ control' = control /\ runState' = "paused"
      BY <1>1, <2>4 DEF At, Placed, SetRunState
    <3>2. Kept(p, "after") \/ Gone(p)
      BY <1>1, <2>4, Fields
    <3>3. Placed(p)' /\ NotLast(p)' /\ (runner'[p].task = runner[p].task \/ runner'[p].task = 1)
      BY <1>1, <3>1, <3>2, GonePlaced DEF Placed, NotLast, Kept
    <3> QED
      BY <1>1, <1>2, <3>1, <3>3, Effect DEF ApprovedStay
  <2>5. CASE At(p, "pause_request") /\ ControlStep(p, "PAUSE_REQUESTED", "pause_seen")
    BY <1>1, <2>2, <2>3, <2>5, Fields DEF ControlStep, runVars
  <2>6. CASE At(p, "pause_quiesce") /\ ControlStep(p, "QUIESCING", "pause_saved")
    BY <1>1, <2>2, <2>3, <2>6, Fields DEF ControlStep, runVars
  <2>7. CASE At(p, "pause_paused") /\ ControlStep(p, "PAUSED", "pause_state")
    BY <1>1, <2>2, <2>3, <2>7, Fields DEF ControlStep, runVars
  <2>8. CASE At(p, "pause_state") /\ Raise(p) /\ UNCHANGED runVars
    BY <1>1, <2>2, <2>8, Fields DEF runVars
  <2> QED
    BY <1>5, <2>4, <2>5, <2>6, <2>7, <2>8 DEF SafePauseWrite
<1> QED
  BY <1>4, <1>5

(* The other steps of execute.                                             *)
LEMMA ExecuteKeepsOrder ==
  ASSUME Sole, ControlTypeOK, ControlTypeOK', RunTypeOK, OrderInv, NEW p \in Runner,
         ExecuteStep(p)
  PROVE  OrderInv'
<1>1. /\ RunnersTyped /\ runner[p] \in Process /\ runner[p].task \in Task
      /\ Placed(p) /\ control # "USER_TAKEOVER"
  BY PlacedNow DEF ControlTypeOK, RunnersTyped, Process
<1> USE DEF runVars, taskVars, attemptVars, callVars, bounds
<1>2. CASE PauseIfRequested(p)
  <2>1. ApprovedStay /\ UNCHANGED <<control, runState, task>> /\ control # "RESUMING"
    BY <1>1, <1>2 DEF PauseIfRequested, ApprovedStay, At, Placed
  <2>2. CASE NextTask(p) /\ task[runner[p].task] = "approved"
    BY <2>1, <2>2, NextTaskKeeps
  <2>3. CASE Kept(p, "pause_read") \/ Kept(p, "step")
    BY <2>1, <2>3, OrdinaryMove DEF Free, PC
  <2>4. CASE Kept(p, "pause_state") /\ control = "PAUSED"
    <3>1. Placed(p)' /\ NotLast(p)'
      BY <1>1, <2>1, <2>4 DEF Placed, NotLast, Kept
    <3> QED
      BY <1>1, <2>1, <2>4, <3>1, Effect DEF ApprovedStay, Kept
  <2>5. runner' = [runner EXCEPT ![p].pc = "step", ![p].inTry = TRUE] => Kept(p, "step")
    BY <1>1 DEF Kept, RunnersTyped, Process
  <2> QED
    BY <1>1, <1>2, <2>2, <2>3, <2>4, <2>5, Fields DEF PauseIfRequested
<1>3. CASE SafePauseRead(p) \/ SafePauseWrite(p)
  BY <1>3, PauseKeepsOrder
<1>4. CASE Step(p)
  <2>1. ApprovedStay /\ UNCHANGED <<control, runState, task>> /\ control # "RESUMING"
    BY <1>1, <1>4 DEF Step, ApprovedStay, At, Placed
  <2>2. CASE Leave(p) /\ task[runner[p].task] \in {"approved", "failed"}
    <3>1. Kept(p, "after") \/ Gone(p)
      BY <1>1, <2>2, Fields
    <3>2. Placed(p)' /\ NotLast(p)' /\ (runner'[p].task = runner[p].task \/ runner'[p].task = 1)
      BY <1>1, <2>1, <2>2, <3>1, GonePlaced DEF Placed, NotLast, Kept
    <3> QED
      BY <1>1, <2>1, <3>2, Effect DEF ApprovedStay
  <2>3. CASE \/ Gone(p)
             \/ \E pc \in {"begin", "driven", "pause_read", "promote", "testing", "generic"} : Kept(p, pc)
    BY <2>1, <2>3, OrdinaryMove DEF Free, PC
  <2>4. ASSUME NEW role, Drive(p, role)
        PROVE  \E pc \in {"begin", "driven", "pause_read"} : Kept(p, pc)
    BY <1>1, <2>4, Fields DEF Drive
  <2> QED
    BY <1>1, <1>4, <2>2, <2>3, <2>4, Fields DEF Step
<1>5. CASE Promote(p)
  <2>1. UNCHANGED <<control, runState>> /\ control # "RESUMING"
    BY <1>1, <1>5 DEF Promote, At, Placed
  <2>2. ApprovedStay /\ \/ Gone(p)
                        \/ \E pc \in {"promote", "step", "generic"} : Kept(p, pc)
    BY <1>5, TaskEffects DEF Promote
  <2> QED
    BY <2>1, <2>2, OrdinaryMove DEF Free, PC
<1>6. CASE Prevented(p) \/ BeginCall(p) \/ Answer(p)
  <2>1. ApprovedStay /\ UNCHANGED <<control, runState>> /\ control # "RESUMING"
    BY <1>1, <1>6 DEF Prevented, BeginCall, Answer, ApprovedStay, At, Placed
  <2>2. \/ Gone(p)
        \/ \E pc \in {"denied", "pause_read", "driven", "answered", "reviewed", "calling",
                      "unknown", "generic"} : Kept(p, pc)
    BY <1>1, <1>6, Fields DEF Prevented, BeginCall, Answer, Answered, Reused
  <2> QED
    BY <2>1, <2>2, OrdinaryMove DEF Free, PC
<1>13. CASE Compare(p)
  <2>1. ApprovedStay /\ UNCHANGED <<control, runState>> /\ control # "RESUMING"
    BY <1>1, <1>13 DEF Compare, ApprovedStay, At, Placed
  <2>2. Kept(p, "reviewed") \/ Kept(p, "violated")
    BY <1>1, <1>13, Fields DEF Compare
  <2> QED
    BY <2>1, <2>2, OrdinaryMove DEF Free, PC
<1>7. CASE Driven(p) \/ Test(p) \/ Verdict(p)
  <2>1. UNCHANGED <<control, runState>> /\ control # "RESUMING"
    BY <1>1, <1>7 DEF Driven, Test, Verdict, At, Placed
  <2>2. \A pc : Close(p, pc) => ApprovedStay /\ Kept(p, pc)
    BY <1>1, Fields DEF Close, ApprovedStay
  <2>3. UNCHANGED task => ApprovedStay
    BY DEF ApprovedStay
  <2>4. /\ ApprovedStay
        /\ \/ Gone(p)
           \/ \E pc \in {"ingate", "refuse", "retry", "approve", "reject", "pause_read",
                         "generic"} : Kept(p, pc)
    <3>1. CASE Driven(p)
      BY <1>1, <2>2, <3>1, TaskEffects DEF Driven
    <3>2. CASE Test(p)
      BY <1>1, <2>2, <3>2, TaskEffects DEF Test
    <3>3. CASE Verdict(p)
      BY <1>1, <2>2, <2>3, <3>3, TaskEffects, Fields DEF Verdict
    <3> QED
      BY <1>7, <3>1, <3>2, <3>3
  <2> QED
    BY <2>1, <2>4, OrdinaryMove DEF Free, PC
<1>8. CASE Settle(p)
  <2>1. UNCHANGED <<control, runState>> /\ control # "RESUMING"
    BY <1>1, <1>8 DEF Settle, At, Placed
  <2>2. CASE FailTask(p)
    <3>1. ApprovedStay
      BY <2>2, TaskEffects
    <3>2. CASE Kept(p, "after") /\ task'[runner[p].task] = "failed"
      <4>1. Placed(p)' /\ NotLast(p)'
        BY <1>1, <2>1, <3>2 DEF Placed, NotLast, Kept
      <4> QED
        BY <1>1, <2>1, <3>1, <3>2, <4>1, Effect DEF ApprovedStay, Kept
    <3>3. CASE Kept(p, "generic") \/ Gone(p)
      BY <2>1, <3>1, <3>3, OrdinaryMove DEF Free, PC
    <3> QED
      BY <2>2, <3>2, <3>3, TaskEffects
  <2>3. CASE \E target : TaskStep(p, target, "ingate")
    <3>1. ApprovedStay /\ \/ Gone(p)
                          \/ \E pc \in {"ingate", "generic"} : Kept(p, pc)
      BY <2>3, TaskEffects
    <3> QED
      BY <2>1, <3>1, OrdinaryMove DEF Free, PC
  <2>4. CASE Goto(p, "begin") /\ UNCHANGED task
    <3>1. ApprovedStay /\ Kept(p, "begin")
      BY <1>1, <2>4, Fields DEF ApprovedStay
    <3> QED
      BY <2>1, <3>1, OrdinaryMove DEF Free, PC
  <2> QED
    BY <1>8, <2>2, <2>3, <2>4 DEF Settle
<1>9. CASE HandleTask(p) \/ GenericHandler(p)
  <2>1. UNCHANGED <<control, runState>>
    BY <1>9 DEF HandleTask, GenericHandler
  <2>2. ApprovedStay
    <3>1. [task EXCEPT ![runner[p].task] = HandlerTarget(p)] = task' => ApprovedStay
      BY <1>1 DEF HandlerTarget, ApprovedStay, ControlTypeOK
    <3> QED
      BY <1>1, <1>9, <3>1, TaskEffects DEF HandleTask, GenericHandler, ApprovedStay
  <2>3. \/ Gone(p)
        \/ Kept(p, "generic") \/ (Kept(p, "pause_read") /\ control # "RESUMING")
        \/ Kept(p, "generic_fail")
        \/ Kept(p, "finalize") /\ runner'[p].verdict = "failed"
    BY <1>1, <1>9, TaskEffects, Fields DEF HandleTask, GenericHandler, At, Placed
  <2>4. CASE Gone(p) \/ Kept(p, "generic") \/ (Kept(p, "pause_read") /\ control # "RESUMING")
    BY <2>1, <2>2, <2>4, OrdinaryMove DEF Free, PC
  <2>5. CASE Kept(p, "generic_fail") \/ (Kept(p, "finalize") /\ runner'[p].verdict = "failed")
    <3>1. Placed(p)' /\ NotLast(p)'
      BY <1>1, <2>1, <2>5 DEF Placed, NotLast, Kept
    <3> QED
      BY <1>1, <2>1, <2>2, <2>5, <3>1, Effect DEF ApprovedStay, Kept
  <2> QED
    BY <2>3, <2>4, <2>5
<1>10. CASE After(p)
  <2>1. ApprovedStay /\ UNCHANGED <<control, runState, task>> /\ control # "RESUMING"
    BY <1>1, <1>10 DEF After, ApprovedStay, At, Placed
  <2>2. CASE Exit(p)
    <3>1. Gone(p)
      BY <1>1, <2>2, Fields
    <3> QED
      BY <2>1, <3>1, OrdinaryMove
  <2>3. CASE FinalizeAs(p, "failed")
    <3>1. Kept(p, "finalize") /\ runner'[p].verdict = "failed"
      BY <1>1, <2>3, Fields
    <3>2. Placed(p)' /\ NotLast(p)'
      BY <1>1, <2>1, <3>1 DEF Placed, NotLast, Kept
    <3> QED
      BY <1>1, <2>1, <3>1, <3>2, Effect DEF ApprovedStay, Kept
  <2>4. CASE NextTask(p) /\ control # "PAUSED" /\ task[runner[p].task] # "failed"
    <3>1. task[runner[p].task] = "approved"
      BY <1>1, <1>10, <2>4 DEF After, At, Placed
    <3> QED
      BY <2>1, <2>4, <3>1, NextTaskKeeps
  <2> QED
    BY <1>10, <2>2, <2>3, <2>4 DEF After
<1>11. CASE Finish(p)
  <2>1. ApprovedStay /\ UNCHANGED <<control, runState, task>> /\ control # "RESUMING"
    BY <1>1, <1>11 DEF Finish, ApprovedStay, At, Placed
  <2>2. Kept(p, "finalize")
    BY <1>1, <1>11, Fields DEF Finish
  <2>3. AllApproved'
    BY <1>11, <2>1 DEF Finish, OrderInv, Done, AllApproved
  <2>4. Placed(p)'
    BY <1>1, <2>1, <2>2 DEF Placed, Kept
  <2> QED
    BY <1>1, <2>1, <2>2, <2>3, <2>4, Effect DEF ApprovedStay, Kept
<1>12. CASE FinalizeRun(p)
  <2>1. ApprovedStay /\ UNCHANGED <<control, task>>
    BY <1>12 DEF FinalizeRun, Finalize, ApprovedStay
  <2>2. Gone(p)
    BY <1>1, <1>12, Fields DEF FinalizeRun
  <2>3. runState' = "completed" => runState = "completed" \/ AllApproved'
    BY <1>12, <2>1 DEF FinalizeRun, Finalize, OrderInv, Done, AllApproved
  <2> QED
    BY <1>1, <2>1, <2>2, <2>3, GonePlaced, Effect DEF ApprovedStay
<1> QED
  BY <1>2, <1>3, <1>4, <1>5, <1>6, <1>7, <1>8, <1>9, <1>10, <1>11, <1>12, <1>13
     DEF ExecuteStep

(* The commands of the user, but for a takeover, crashes, and a reviewer   *)
(* that writes.                                                            *)
LEMMA CommandsKeepOrder ==
  ASSUME Sole, "takeover" \notin Commands, ControlTypeOK, ControlTypeOK', RunTypeOK, OrderInv,
         \/ RequestPause \/ Takeover \/ Freeze \/ Cancel \/ ResolveCall \/ MarkActive
         \/ CommandCrash \/ ReviewerWrites \/ \E p \in Runner : Crash(p)
  PROVE  OrderInv'
<1>1. control \in ControlStates /\ control # "USER_TAKEOVER" /\ \A p \in Runner : Placed(p)
  BY PlacedNow DEF RunTypeOK, OrderInv, NoTakeover
<1>2. CASE RequestPause
  <2>1. UNCHANGED <<task, runner, runState>> /\ control = "RUNNING" /\ control' = "PAUSE_REQUESTED"
    BY <1>1, <1>2, ControlSources DEF RequestPause, Command, TransitionControl, ControlAllowed
  <2>2. NoTakeover' /\ Prefix' /\ Done'
    BY <2>1 DEF OrderInv, NoTakeover, Prefix, Done, At, AllApproved, CompletedMeansApproved
  <2>3. Pausing'
    BY <2>1 DEF OrderInv, Pausing, At
  <2> QED
    BY <2>2, <2>3 DEF OrderInv
<1>3. CASE Takeover
  BY <1>3 DEF Takeover, Command
<1>4. CASE Freeze \/ Cancel
  <2>1. /\ UNCHANGED <<task, runner>> /\ (control' = control \/ control' = "PAUSED")
        /\ runState' # "completed"
    BY <1>4 DEF Freeze, Cancel, Command, ForcePause, Finalize
  <2>2. NoTakeover' /\ Prefix' /\ Done'
    BY <1>1, <2>1 DEF OrderInv, NoTakeover, Prefix, Done, At, AllApproved, CompletedMeansApproved
  <2>3. Pausing'
    BY <2>1 DEF OrderInv, Pausing, At
  <2> QED
    BY <2>2, <2>3 DEF OrderInv
<1>5. CASE ResolveCall \/ MarkActive \/ CommandCrash \/ ReviewerWrites
  <2>1. UNCHANGED <<task, runner, runState, control>>
    BY <1>5 DEF ResolveCall, MarkActive, CommandCrash, ReviewerWrites, Command, runVars, taskVars
  <2> QED
    BY <2>1 DEF OrderInv, NoTakeover, Prefix, Done, Pausing, At, AllApproved, CompletedMeansApproved
<1>6. ASSUME NEW p \in Runner, Crash(p) PROVE OrderInv'
  <2>1. ApprovedStay /\ UNCHANGED <<control, runState>>
    BY <1>6 DEF Crash, runVars, taskVars, ApprovedStay
  <2>2. Gone(p)
    BY <1>6, Fields DEF Crash, ControlTypeOK, RunnersTyped
  <2> QED
    BY <2>1, <2>2, OrdinaryMove
<1> QED
  BY <1>2, <1>3, <1>4, <1>5, <1>6

(* The invariant holds of every execution by one process at a time without *)
(* a takeover.                                                             *)
LEMMA OrderInvariant ==
  ASSUME Sole, "takeover" \notin Commands
  PROVE  Spec => []OrderInv
<1>1. Init => OrderInv
  BY OrderInit
<1>2. (RunInv /\ ControlTypeOK) /\ (RunInv /\ ControlTypeOK)' /\ OrderInv /\ [Next]_vars => OrderInv'
  <2> SUFFICES ASSUME RunInv, ControlTypeOK, ControlTypeOK', OrderInv, [Next]_vars PROVE OrderInv'
    OBVIOUS
  <2>1. RunTypeOK
    BY DEF RunInv
  <2>2. CASE Next
    BY <2>1, <2>2, ResumeKeepsOrder, ExecuteKeepsOrder, CommandsKeepOrder DEF Next
  <2>3. CASE UNCHANGED vars
    BY <2>3 DEF vars, OrderInv, NoTakeover, Prefix, Done, Pausing, At, AllApproved,
                CompletedMeansApproved
  <2> QED
    BY <2>2, <2>3
<1> QED
  BY <1>1, <1>2, ControlInvariant, PTL DEF Spec

(* What a completed run means: when one process at a time executes it and  *)
(* nobody takes over, every task of a completed run is approved, whatever  *)
(* pauses, freezes, faults, crashes and resumes lie between.               *)
THEOREM CompletedRunIsApproved ==
  ASSUME Sole, "takeover" \notin Commands
  PROVE  Spec => []CompletedMeansApproved
<1>1. OrderInv => CompletedMeansApproved
  BY DEF OrderInv, Done
<1> QED
  BY <1>1, OrderInvariant, PTL

\* A task that leaves DRAFT is the one in the hand of some process.
LEMMA DraftInHand ==
  ASSUME ControlTypeOK, Next, NEW t \in Task, task[t] = "draft", task'[t] # "draft"
  PROVE  \E p \in Runner : runner[p].task = t
<1>1. ASSUME NEW p \in Runner, NEW target, \/ TaskStep(p, target, "ingate") \/ FailTask(p)
                                        \/ CannotMove(p, target)
                                        \/ MoveTask(runner[p].task, target)
      PROVE  \A u \in Task : u # runner[p].task => task'[u] = task[u]
  BY <1>1 DEF ControlTypeOK, TaskStep, FailTask, MoveTask, CannotMove
<1>2. ASSUME NEW p \in Runner, ExecuteStep(p)
      PROVE  \A u \in Task : u # runner[p].task => task'[u] = task[u]
  BY <1>2 DEF ControlTypeOK, ExecuteStep, PauseIfRequested, SafePauseRead, SafePauseWrite, Step,
              Promote, Prevented, BeginCall, Answer, Driven, Test, Compare, Verdict, Settle, HandleTask,
              GenericHandler, After, Finish, FinalizeRun, taskVars, TaskStep, FailTask, MoveTask,
              CannotMove, Close
<1>3. ASSUME NEW p \in Runner, Launch(p) \/ ResumeStep(p) \/ Crash(p)
      PROVE  task'[t] = "draft"
  <2>1. CASE RestoreResolved(p)
    <3>1. \A u : MoveTask(u, "running") => task'[t] = "draft"
      BY DEF MoveTask, ControlTypeOK, TaskTransitions, TaskStates
    <3> QED
      BY <2>1, <3>1 DEF RestoreResolved
  <2>2. CASE Invalidate(p)
    BY <2>2 DEF Invalidate, InvalidateTask, ControlTypeOK
  <2> QED
    BY <1>3, <2>1, <2>2 DEF Launch, ResumeStep, CheckCalls, FindTakeoverChanges, Renew, ToRunning,
                            Crash, taskVars
<1>4. ASSUME \/ RequestPause \/ Takeover \/ Freeze \/ Cancel \/ ResolveCall \/ MarkActive
             \/ CommandCrash \/ ReviewerWrites
      PROVE  UNCHANGED task
  BY <1>4 DEF RequestPause, Takeover, Freeze, Cancel, ResolveCall, MarkActive, CommandCrash,
              ReviewerWrites, Command, taskVars
<1> QED
  BY <1>2, <1>3, <1>4 DEF Next

(* The order of the plan: under the same conditions a task leaves DRAFT    *)
(* only when all the tasks before it are approved.                         *)
THEOREM TasksStartInOrder ==
  ASSUME Sole, "takeover" \notin Commands
  PROVE  Spec => StartsInOrder
<1>1. ControlTypeOK /\ OrderInv /\ [Next]_vars =>
        [\A t \in Task : task[t] = "draft" /\ task'[t] # "draft" =>
           \A u \in 1..(t - 1) : task[u] = "approved"]_vars
  <2> SUFFICES ASSUME ControlTypeOK, OrderInv, Next, NEW t \in Task,
                      task[t] = "draft", task'[t] # "draft", NEW u \in 1..(t - 1)
               PROVE  task[u] = "approved"
    OBVIOUS
  <2>1. PICK p \in Runner : runner[p].task = t
    BY DraftInHand
  <2> QED
    BY <2>1 DEF OrderInv, Prefix
<1> QED
  BY <1>1, OrderInvariant, ControlInvariant, PTL DEF Spec, StartsInOrder
-----------------------------------------------------------------------------
(* Calls in flight.                                                        *)

Flight == Calls("started") \cup Calls("unknown")
Completes(p) == At(p, "finalize") /\ runner[p].verdict = "completed"

\* A process that waits for a call has begun it.
Waiting == \A p \in Runner : At(p, "calling") /\ CallOf(p) \in Slot => call[CallOf(p)] # "absent"

\* The process that is about to complete the run has seen no unfinished call, and
\* nobody starts one after that.
SettledInv ==
  /\ Waiting
  /\ \A p \in Runner : Completes(p) => Unfinished = {}
  /\ CompletedIsSettled

\* Without crashes a started call has a process that waits for it.
Held == \A k \in Calls("started") : \E p \in Runner : At(p, "calling") /\ CallOf(p) = k

(* The steps that lead to a call or to the end of the run.                 *)
LEMMA Arrivals ==
  ASSUME ControlTypeOK, NEW p \in Runner,
         Launch(p) \/ ResumeStep(p) \/ ExecuteStep(p) \/ Crash(p)
  PROVE  /\ runner'[p].pc = "calling" => BeginCall(p)
         /\ runner'[p].pc = "finalize" /\ runner'[p].verdict = "completed" => Finish(p)
<1> DEFINE Quiet == runner'[p].pc # "calling" /\ (runner'[p].pc = "finalize" => runner'[p].verdict = "failed")
<1>1. RunnersTyped /\ runner[p] \in Process /\ p \in DOMAIN runner
  BY DEF ControlTypeOK, RunnersTyped
<1>2. Gone(p) => Quiet
  BY DEF Gone, Off
<1>3. \A pc : Kept(p, pc) /\ pc \notin {"calling", "finalize"} => Quiet
  BY DEF Kept
<1>4. CASE Launch(p)
  BY <1>1, <1>4 DEF Launch, Off
<1>5. CASE CheckCalls(p) \/ ToRunning(p) \/ Crash(p)
  BY <1>1, <1>2, <1>3, <1>5, Fields DEF CheckCalls, ToRunning, ControlStep, Crash
<1>6. CASE RestoreResolved(p) \/ FindTakeoverChanges(p) \/ Renew(p)
  <2>1. Quiet
    <3>1. CASE RestoreResolved(p)
      BY <1>1, <1>3, <3>1, Fields DEF RestoreResolved, At
    <3>2. CASE FindTakeoverChanges(p)
      <4>1. PICK hit : runner' = [runner EXCEPT ![p].pc = "invalidate", ![p].todo = hit]
        BY <3>2 DEF FindTakeoverChanges
      <4> QED
        BY <1>1, <4>1 DEF Process
    <3>3. CASE Renew(p)
      BY <1>1, <3>3 DEF Renew, Process
    <3> QED
      BY <1>6, <3>1, <3>2, <3>3
  <2> QED
    BY <2>1
<1>7. CASE Invalidate(p)
  <2>1. ASSUME NEW t \in Task, InvalidateTask(p, t) PROVE Quiet
    <3>1. CASE runner' = [runner EXCEPT ![p].pc = "renew", ![p].task = t]
      BY <1>1, <3>1 DEF Process
    <3>2. CASE runner' = [runner EXCEPT ![p].todo = @ \ {t}] /\ runner[p].pc = "invalidate"
      BY <1>1, <3>2 DEF Process
    <3> QED
      BY <1>7, <2>1, <3>1, <3>2 DEF Invalidate, InvalidateTask, At
  <2> QED
    BY <1>1, <1>2, <1>3, <1>7, <2>1, Fields DEF Invalidate
<1>8. CASE PauseIfRequested(p) \/ After(p)
  <2>1. runner' = [runner EXCEPT ![p].pc = "step", ![p].inTry = TRUE] => Kept(p, "step")
    BY <1>1 DEF Kept, Process
  <2>2. NextTask(p) => Quiet
    BY <1>1, <1>3, Fields
  <2>3. FinalizeAs(p, "failed") => Quiet
    BY <1>1, Fields DEF Kept
  <2> QED
    BY <1>1, <1>2, <1>3, <1>8, <2>1, <2>2, <2>3, Fields DEF PauseIfRequested, After
<1>9. CASE SafePauseRead(p) \/ SafePauseWrite(p)
  BY <1>1, <1>2, <1>3, <1>9, Fields DEF SafePauseRead, SafePauseWrite, ControlStep
<1>10. CASE Step(p)
  <2>1. ASSUME NEW role, Drive(p, role) PROVE Quiet
    BY <1>1, <1>3, <2>1, Fields DEF Drive
  <2> QED
    BY <1>1, <1>2, <1>3, <1>10, <2>1, Fields DEF Step
<1>11. CASE Promote(p)
  BY <1>2, <1>3, <1>11, TaskEffects DEF Promote
<1>12. CASE Prevented(p) \/ BeginCall(p) \/ Answer(p)
  BY <1>1, <1>2, <1>3, <1>12, Fields DEF Prevented, BeginCall, Answer, Answered, Reused, Kept
<1>16. CASE Compare(p)
  BY <1>1, <1>3, <1>16, Fields DEF Compare
<1>13. CASE Driven(p) \/ Test(p) \/ Verdict(p) \/ Settle(p)
  <2>1. \A pc : Close(p, pc) => Kept(p, pc)
    BY <1>1, Fields DEF Close
  <2>2. CASE Driven(p) \/ Test(p)
    BY <1>2, <1>3, <2>1, <2>2, TaskEffects DEF Driven, Test
  <2>3. CASE Verdict(p)
    BY <1>1, <1>2, <1>3, <2>1, <2>3, TaskEffects, Fields DEF Verdict
  <2>4. CASE Settle(p)
    BY <1>1, <1>2, <1>3, <2>4, TaskEffects, Fields DEF Settle
  <2> QED
    BY <1>13, <2>2, <2>3, <2>4
<1>14. CASE HandleTask(p) \/ GenericHandler(p)
  <2>1. FinalizeAs(p, "failed") => Quiet
    BY <1>1, Fields DEF Kept
  <2> QED
    BY <1>1, <1>2, <1>3, <1>14, <2>1, TaskEffects, Fields DEF HandleTask, GenericHandler
<1>15. CASE Finish(p) \/ FinalizeRun(p)
  BY <1>1, <1>2, <1>15, Fields DEF Finish, FinalizeRun, Kept
<1> QED
  BY <1>4, <1>5, <1>6, <1>7, <1>8, <1>9, <1>10, <1>11, <1>12, <1>13, <1>14, <1>15, <1>16
     DEF ResumeStep, ExecuteStep

(* What the steps of processes do to the calls: begin_call starts one, an  *)
(* answer ends one, no other step changes any.                             *)
LEMMA CallSteps ==
  ASSUME NEW p \in Runner, Launch(p) \/ ResumeStep(p) \/ ExecuteStep(p) \/ Crash(p),
         ~BeginCall(p), ~Answer(p)
  PROVE  UNCHANGED call
  BY DEF Launch, ResumeStep, CheckCalls, RestoreResolved, FindTakeoverChanges, Invalidate, Renew,
         ToRunning, Crash, ExecuteStep, PauseIfRequested, SafePauseRead, SafePauseWrite, Step,
         Promote, Prevented, Driven, Test, Compare, Verdict, Settle, HandleTask, GenericHandler, After,
         Finish, FinalizeRun, taskVars, callVars

(* The answer to a call concerns the call of its own process.              *)
LEMMA AnswerEffect ==
  ASSUME ControlTypeOK, Waiting, NEW p \in Runner, Answer(p)
  PROVE  /\ \A k \in Slot : call'[k] # call[k] =>
              k = CallOf(p) /\ call[k] \in {"started", "unknown"}
         /\ \A k \in Slot : call'[k] = "started" => call[k] = "started" /\ k # CallOf(p)
         /\ \A k \in Slot : call'[k] = "unknown" => call[k] \in {"started", "unknown"}
         /\ \A k \in Slot : call'[k] = "planned" => call[k] = "planned"
         /\ \A k \in Slot : call'[k] = "absent" => call[k] = "absent"
<1>1. CASE UNCHANGED callVars
  <2>1. PICK state \in {"completed", "unknown", "failed"} :
          state \notin InvocationTransitions[call[CallOf(p)]] \/ CallEnds(p, state)
    BY <1>1 DEF Answer
  <2>2. call[CallOf(p)] # "started" \/ CallOf(p) \notin Slot
    BY <1>1, <2>1 DEF callVars, CallEnds, InvocationTransitions, InvocationStates, ControlTypeOK
  <2> QED
    BY <1>1, <2>2 DEF callVars
<1>2. ASSUME NEW state \in {"completed", "unknown", "failed"}, CallEnds(p, state)
      PROVE  /\ \A k \in Slot : call'[k] # call[k] =>
                  k = CallOf(p) /\ call[k] \in {"started", "unknown"}
             /\ \A k \in Slot : call'[k] = "started" => call[k] = "started" /\ k # CallOf(p)
             /\ \A k \in Slot : call'[k] = "unknown" => call[k] \in {"started", "unknown"}
             /\ \A k \in Slot : call'[k] = "planned" => call[k] = "planned"
             /\ \A k \in Slot : call'[k] = "absent" => call[k] = "absent"
  <2>1. CallOf(p) \in Slot => call[CallOf(p)] \in {"started", "unknown"}
    BY <1>2 DEF Answer, Waiting, CallEnds, ControlTypeOK, CallStates, InvocationTransitions,
                InvocationStates
  <2> QED
    BY <1>2, <2>1 DEF CallEnds, ControlTypeOK
<1> QED
  BY <1>1, <1>2 DEF Answer
(* The commands only settle calls.                                         *)
LEMMA CommandCalls ==
  ASSUME ControlTypeOK,
         \/ RequestPause \/ Takeover \/ Freeze \/ Cancel \/ ResolveCall \/ MarkActive \/ CommandCrash
         \/ ReviewerWrites
  PROVE  /\ UNCHANGED <<runner, attempt>>
         /\ \A k \in Slot : \/ call'[k] = call[k]
                            \/ call[k] = "started" /\ call'[k] = "unknown"
                            \/ call[k] = "unknown" /\ call'[k] = "completed"
         /\ runState' = "completed" => runState = "completed"
<1>1. CASE RequestPause \/ Takeover \/ Freeze \/ Cancel
  BY <1>1 DEF RequestPause, Takeover, Freeze, Cancel, Command, TransitionControl, ForcePause, Finalize
<1>2. CASE ResolveCall
  BY <1>2 DEF ResolveCall, Command, Calls, runVars, ControlTypeOK
<1>3. CASE MarkActive
  BY <1>3 DEF MarkActive, runVars, attemptVars, ControlTypeOK
<1>4. CASE CommandCrash
  BY <1>4 DEF CommandCrash, runVars, taskVars, attemptVars, callVars
<1>5. CASE ReviewerWrites
  BY <1>5 DEF ReviewerWrites, runVars, attemptVars, callVars
<1> QED
  BY <1>1, <1>2, <1>3, <1>4, <1>5

\* The run is completed by finalize_run only.
LEMMA RunCompletes ==
  ASSUME NEW p \in Runner, Launch(p) \/ ResumeStep(p) \/ ExecuteStep(p) \/ Crash(p),
         runState' = "completed"
  PROVE  runState = "completed" \/ Completes(p)
  BY DEF Launch, ResumeStep, CheckCalls, RestoreResolved, FindTakeoverChanges, Invalidate, Renew,
         ToRunning, Crash, ExecuteStep, PauseIfRequested, SafePauseRead, SafePauseWrite, Step,
         Promote, Prevented, BeginCall, Answer, Driven, Test, Compare, Verdict, Settle, HandleTask,
         GenericHandler, After, Finish, FinalizeRun, Finalize, runVars, ControlStep,
         TransitionControl, SetRunState, Completes

(* Every step keeps what is known about the calls of a completed run.      *)
LEMMA SettledStep ==
  ASSUME Sole, RunInv, ControlTypeOK, ControlTypeOK', SettledInv, [Next]_vars
  PROVE  SettledInv'
<1>1. ASSUME \/ RequestPause \/ Takeover \/ Freeze \/ Cancel \/ ResolveCall \/ MarkActive
             \/ CommandCrash \/ ReviewerWrites
      PROVE  SettledInv'
  <2>1. /\ UNCHANGED <<runner, attempt>>
        /\ \A k \in Slot : \/ call'[k] = call[k]
                           \/ call[k] = "started" /\ call'[k] = "unknown"
                           \/ call[k] = "unknown" /\ call'[k] = "completed"
        /\ runState' = "completed" => runState = "completed"
    BY <1>1, CommandCalls
  <2>2. Unfinished' \subseteq Unfinished /\ Flight' \subseteq Flight
    BY <2>1 DEF Unfinished, Flight, Calls
  <2>3. Waiting'
    BY <2>1 DEF SettledInv, Waiting, At, CallOf
  <2> QED
    BY <2>1, <2>2, <2>3 DEF SettledInv, Completes, At, CompletedIsSettled, Flight
<1>2. ASSUME NEW p \in Runner, Launch(p) \/ ResumeStep(p) \/ ExecuteStep(p) \/ Crash(p)
      PROVE  SettledInv'
  <2>1. /\ \A q \in Runner : q = p
        /\ runner'[p].pc = "calling" => BeginCall(p)
        /\ Completes(p)' => Finish(p)
    BY <1>2, Arrivals DEF Sole, Completes, At
  <2>2. CASE BeginCall(p)
    <3>1. /\ runState # "completed" \/ UNCHANGED call
          /\ UNCHANGED <<runState, attempt>>
      BY <2>2 DEF BeginCall, At, RunOpen, RunInv, VerdictConsistent, TerminalRunStates, runVars, attemptVars
    <3>2. runner'[p].pc = "calling" => /\ CallOf(p)' = CallOf(p)
                                       /\ call' = [call EXCEPT ![CallOf(p)] = "started"]
                                       /\ runState # "completed"
      <4>1. RunnersTyped
        BY DEF ControlTypeOK, RunnersTyped
      <4>2. CASE Goto(p, "calling") /\ call' = [call EXCEPT ![CallOf(p)] = "started"] /\ RunOpen
        <5>1. runner'[p] = [runner[p] EXCEPT !.pc = "calling"]
          BY <4>1, <4>2 DEF Goto, RunnersTyped
        <5>2. CallOf(p)' = CallOf(p)
          BY <3>1, <4>1, <5>1 DEF CallOf, RunnersTyped, Process
        <5> QED
          BY <4>2, <5>2 DEF RunOpen, RunInv, VerdictConsistent, TerminalRunStates
      <4>3. CASE Goto(p, "pause_read") \/ Raise(p) \/ Goto(p, Reused(p))
        BY <4>1, <4>3, Fields DEF Kept, Gone, Off, Reused
      <4> QED
        BY <2>2, <4>2, <4>3 DEF BeginCall
    <3>3. Waiting'
      BY <2>1, <3>2 DEF Waiting, At, ControlTypeOK
    <3>4. ~Completes(p)'
      BY <2>1, <2>2 DEF BeginCall, Finish, At
    <3>5. CompletedIsSettled'
      BY <2>2, <3>1 DEF BeginCall, RunOpen, RunInv, VerdictConsistent, TerminalRunStates,
                        SettledInv, CompletedIsSettled, Calls
    <3> QED
      BY <2>1, <3>3, <3>4, <3>5 DEF SettledInv
  <2>3. CASE ~BeginCall(p)
    <3>1. \A k \in Slot :
            \/ call'[k] = call[k]
            \/ /\ call[k] \in {"started", "unknown"}
               /\ call'[k] \notin {"started", "planned", "absent"}
      <4>1. CASE Answer(p)
        BY <4>1, AnswerEffect DEF SettledInv
      <4>2. CASE ~Answer(p)
        BY <1>2, <2>3, <4>2, CallSteps
      <4> QED
        BY <4>1, <4>2
    <3>2. Unfinished' \subseteq Unfinished /\ Flight' \subseteq Flight
      BY <3>1 DEF Unfinished, Flight, Calls
    <3>3. Waiting'
      BY <2>1, <2>3 DEF Waiting, At
    <3>4. Completes(p)' => Unfinished' = {}
      <4>1. ASSUME Finish(p), Completes(p)' PROVE Unfinished = {}
        BY <4>1, Fields DEF Finish, Completes, At, ControlTypeOK, RunnersTyped
      <4> QED
        BY <2>1, <3>2, <4>1
    <3>5. CompletedIsSettled'
      <4> SUFFICES ASSUME runState' = "completed" PROVE Flight' = {}
        BY DEF CompletedIsSettled, Flight
      <4>1. Flight = {}
        BY <1>2, RunCompletes DEF SettledInv, CompletedIsSettled, Flight, Unfinished
      <4> QED
        BY <3>2, <4>1
    <3> QED
      BY <2>1, <3>3, <3>4, <3>5 DEF SettledInv
  <2> QED
    BY <2>2, <2>3
<1>3. CASE UNCHANGED vars
  BY <1>3 DEF vars, SettledInv, Waiting, Completes, At, CallOf, Unfinished, Calls, CompletedIsSettled
<1> QED
  BY <1>1, <1>2, <1>3 DEF Next

(* It is known always.                                                     *)
LEMMA SettledInvariant == ASSUME Sole PROVE Spec => []SettledInv
<1>1. Init => SettledInv
  <2> SUFFICES ASSUME Init PROVE SettledInv
    OBVIOUS
  <2>1. \A p \in Runner : runner[p].pc \in {"gate", "off"}
    BY DEF Init, Off
  <2> QED
    BY <2>1 DEF Init, RunInit, SettledInv, Waiting, Completes, At, CompletedIsSettled
<1>2. (RunInv /\ ControlTypeOK) /\ (RunInv /\ ControlTypeOK)' /\ SettledInv /\ [Next]_vars => SettledInv'
  BY SettledStep
<1> QED
  BY <1>1, <1>2, ControlInvariant, PTL DEF Spec

(* A completed run is over: when one process at a time executes it, none   *)
(* of its calls is STARTED or UNKNOWN - between the look at the unfinished *)
(* calls and the verdict nobody has begun one.                             *)
THEOREM CompletedRunIsSettled == ASSUME Sole PROVE Spec => []CompletedIsSettled
<1>1. SettledInv => CompletedIsSettled
  BY DEF SettledInv
<1> QED
  BY <1>1, SettledInvariant, PTL

-----------------------------------------------------------------------------
(* The promise of the ledger, kept by the calls of a run.                  *)

\* How a call ended; it stands for the charge.
Ending(k) == IF PhaseOf(k) = "closed" THEN call[k] ELSE "none"

OpenStates == {"started", "unknown"}

\* No other call changes.
OthersStay(k) == \A j \in Slot : j # k => call'[j] = call[j]

(* A step that changes one call opens it, closes it or leaves it open.     *)
LEMMA OneCall ==
  ASSUME NEW k \in Slot, OthersStay(k)
  PROVE  /\ call[k] = "absent" /\ call'[k] = "started" => Promise!Open(k)
         /\ call[k] \in OpenStates /\ call'[k] \in {"completed", "failed"} => Promise!Close(k)
<1> DEFINE phase == [j \in Slot |-> PhaseOf(j)]
           sends == [j \in Slot |-> 0]
           charge == [j \in Slot |-> Ending(j)]
<1>1. /\ phase' = [phase EXCEPT ![k] = PhaseOf(k)']
      /\ charge' = [charge EXCEPT ![k] = Ending(k)']
      /\ UNCHANGED sends
  <2>1. \A j \in Slot \ {k} : PhaseOf(j)' = PhaseOf(j) /\ Ending(j)' = Ending(j)
    BY DEF OthersStay, PhaseOf, Ending
  <2> QED
    BY <2>1
<1>2. ASSUME call[k] = "absent", call'[k] = "started" PROVE Promise!Open(k)
  <2>1. PhaseOf(k) = "fresh" /\ PhaseOf(k)' = "open"
    BY <1>2 DEF PhaseOf
  <2>2. Ending(k)' = Ending(k)
    BY <2>1 DEF Ending
  <2>3. UNCHANGED charge
    BY <1>1, <2>2
  <2> QED
    BY <1>1, <2>1, <2>3 DEF Promise!Open, Ending
<1>3. ASSUME call[k] \in OpenStates, call'[k] \in {"completed", "failed"} PROVE Promise!Close(k)
  <2>1. PhaseOf(k) = "open" /\ PhaseOf(k)' = "closed" /\ Ending(k)' \in {"completed", "failed"}
    BY <1>3 DEF PhaseOf, Ending, OpenStates
  <2> QED
    BY <1>1, <2>1 DEF Promise!Close, Ending
<1> QED
  BY <1>2, <1>3

(* A step by which no call is opened or closed is no step of the promise.  *)
LEMMA OpenCallsMove ==
  ASSUME \A k \in Slot : call'[k] = call[k] \/ (call[k] \in OpenStates /\ call'[k] \in OpenStates)
  PROVE  UNCHANGED Promise!promiseVars
<1>1. \A k \in Slot : PhaseOf(k)' = PhaseOf(k) /\ Ending(k)' = Ending(k)
  BY DEF PhaseOf, Ending, OpenStates
<1> QED
  BY <1>1 DEF Promise!promiseVars, Ending

(* Every step of a run is one of the promise, or none.                     *)
LEMMA ControlPromiseStep ==
  ASSUME ControlTypeOK, Waiting, [Next]_vars
  PROVE  [Promise!Next]_(Promise!promiseVars)
<1>1. ASSUME NEW p \in Runner, BeginCall(p), call' # call PROVE Promise!Next
  <2>1. PICK k : k = CallOf(p) /\ call[k] = "absent" /\ call' = [call EXCEPT ![k] = "started"]
    BY <1>1 DEF BeginCall
  <2>2. k \in Slot /\ OthersStay(k) /\ call'[k] = "started"
    BY <1>1, <2>1 DEF OthersStay, ControlTypeOK
  <2> QED
    BY <2>1, <2>2, OneCall DEF Promise!Next
<1>2. ASSUME NEW p \in Runner, Answer(p) PROVE [Promise!Next]_(Promise!promiseVars)
  <2>1. PICK k : k = CallOf(p) /\ At(p, "calling")
    BY <1>2 DEF Answer
  <2>2. CASE UNCHANGED call
    BY <2>2, OpenCallsMove
  <2>3. ASSUME NEW state \in {"completed", "unknown", "failed"}, CallEnds(p, state), call' # call
        PROVE  [Promise!Next]_(Promise!promiseVars)
    <3>1. k \in Slot /\ OthersStay(k) /\ call'[k] = state
      BY <2>1, <2>3 DEF CallEnds, OthersStay, ControlTypeOK
    <3>2. call[k] \in OpenStates
      <4>1. call'[k] # call[k]
        BY <2>1, <2>3, <3>1 DEF CallEnds, ControlTypeOK
      <4> QED
        BY <1>2, <3>1, <4>1, AnswerEffect DEF OpenStates
    <3>3. CASE state \in {"completed", "failed"}
      BY <3>1, <3>2, <3>3, OneCall DEF Promise!Next
    <3>4. CASE state = "unknown"
      BY <3>1, <3>2, <3>4, OpenCallsMove DEF OthersStay, OpenStates
    <3> QED
      BY <3>3, <3>4
  <2> QED
    BY <1>2, <2>2, <2>3 DEF Answer, callVars
<1>3. ASSUME ResolveCall PROVE [Promise!Next]_(Promise!promiseVars)
  <2>1. PICK k \in Calls("unknown") : call' = [call EXCEPT ![k] = "completed"]
    BY <1>3 DEF ResolveCall
  <2>2. k \in Slot /\ OthersStay(k) /\ call'[k] = "completed" /\ call[k] \in OpenStates
    BY <2>1 DEF Calls, OthersStay, ControlTypeOK, OpenStates
  <2> QED
    BY <2>2, OneCall DEF Promise!Next
<1>4. CASE RequestPause \/ Takeover \/ Freeze \/ Cancel \/ MarkActive \/ CommandCrash \/ ReviewerWrites
  <2>1. \A k \in Slot : call'[k] = call[k] \/ (call[k] = "started" /\ call'[k] = "unknown")
    BY <1>4 DEF RequestPause, Takeover, Freeze, Cancel, MarkActive, CommandCrash, ReviewerWrites,
                taskVars, callVars
  <2> QED
    BY <2>1, OpenCallsMove DEF OpenStates
<1>5. ASSUME UNCHANGED call PROVE [Promise!Next]_(Promise!promiseVars)
  BY <1>5, OpenCallsMove
<1>6. ASSUME NEW p \in Runner, Launch(p) \/ ResumeStep(p) \/ ExecuteStep(p) \/ Crash(p)
      PROVE  [Promise!Next]_(Promise!promiseVars)
  BY <1>1, <1>2, <1>5, <1>6, CallSteps
<1> QED
  BY <1>3, <1>4, <1>5, <1>6 DEF Next, vars

(* Request keys across restarts: when one process at a time executes the   *)
(* run, each of its calls keeps the promise the ledger gives of a key - it *)
(* is begun once and ends once, and no late answer, freeze, retry or       *)
(* resolution changes how it ended.                                        *)
THEOREM ControlKeepsPromise == ASSUME Sole PROVE Spec => CallsKeepPromise
<1>1. Init => Promise!Init
  BY DEF Init, Promise!Init, PhaseOf
<1>2. ControlTypeOK /\ Waiting /\ [Next]_vars => [Promise!Next]_(Promise!promiseVars)
  BY ControlPromiseStep
<1>3. RunInv /\ ControlTypeOK => ControlTypeOK
  OBVIOUS
<1>4. SettledInv => Waiting
  BY DEF SettledInv
<1> QED
  BY <1>1, <1>2, <1>3, <1>4, SettledInvariant, ControlInvariant, PTL
     DEF Spec, CallsKeepPromise, Promise!Spec
(* Without crashes every started call is waited for by its process.        *)
LEMMA HeldStep ==
  ASSUME Sole, ~Crashes, ControlTypeOK, ControlTypeOK', Waiting, Held, [Next]_vars
  PROVE  Held'
<1>1. ASSUME \/ RequestPause \/ Takeover \/ Freeze \/ Cancel \/ ResolveCall \/ MarkActive
             \/ CommandCrash \/ ReviewerWrites
      PROVE  Held'
  <2>1. UNCHANGED <<runner, attempt>> /\ Calls("started")' \subseteq Calls("started")
    BY <1>1, CommandCalls DEF Calls
  <2> QED
    BY <2>1 DEF Held, At, CallOf
<1>2. ASSUME NEW p \in Runner, Launch(p) \/ ResumeStep(p) \/ ExecuteStep(p) \/ Crash(p)
      PROVE  Held'
  <2>1. Calls("started") \subseteq {CallOf(p)} /\ (Calls("started") # {} => At(p, "calling"))
    BY DEF Sole, Held
  <2>2. CASE BeginCall(p)
    <3>1. Calls("started") = {}
      BY <2>1, <2>2 DEF BeginCall, At
    <3>2. CASE call' = call
      BY <3>1, <3>2 DEF Held, Calls
    <3>3. CASE Goto(p, "calling") /\ call' = [call EXCEPT ![CallOf(p)] = "started"]
      <4>1. runner'[p] = [runner[p] EXCEPT !.pc = "calling"] /\ runner[p] \in Process
        BY <3>3 DEF Goto, ControlTypeOK
      <4>2. CallOf(p)' = CallOf(p) /\ runner'[p].pc = "calling"
        BY <2>2, <4>1 DEF BeginCall, CallOf, Process, attemptVars
      <4>3. Calls("started")' \subseteq {CallOf(p)}
        BY <3>1, <3>3 DEF Calls, ControlTypeOK
      <4> QED
        BY <4>2, <4>3 DEF Held, At
    <3> QED
      BY <2>2, <3>2, <3>3 DEF BeginCall
  <2>3. CASE Answer(p)
    <3>1. Calls("started")' = {}
      BY <2>1, <2>3, AnswerEffect DEF Calls
    <3> QED
      BY <3>1 DEF Held
  <2>4. CASE ~BeginCall(p) /\ ~Answer(p)
    <3>1. UNCHANGED call
      BY <1>2, <2>4, CallSteps
    <3>2. ~At(p, "calling")
      BY <1>2, <2>4
         DEF Launch, ResumeStep, CheckCalls, RestoreResolved, FindTakeoverChanges, Invalidate, Renew,
             ToRunning, Crash, ExecuteStep, PauseIfRequested, SafePauseRead, SafePauseWrite, Step,
             Promote, Prevented, Driven, Test, Compare, Verdict, Settle, HandleTask, GenericHandler, After,
             Finish, FinalizeRun, At
    <3> QED
      BY <2>1, <3>1, <3>2 DEF Held, Calls
  <2> QED
    BY <2>2, <2>3, <2>4
<1>3. CASE UNCHANGED vars
  BY <1>3 DEF vars, Held, Calls, At, CallOf
<1> QED
  BY <1>1, <1>2, <1>3 DEF Next

(* It is so always.                                                        *)
LEMMA HeldInvariant == ASSUME Sole, ~Crashes PROVE Spec => [](Held /\ SettledInv)
<1>1. Init => Held /\ SettledInv
  <2> SUFFICES ASSUME Init PROVE Held /\ SettledInv
    OBVIOUS
  <2>1. \A p \in Runner : runner[p].pc \in {"gate", "off"}
    BY DEF Init, Off
  <2> QED
    BY <2>1 DEF Init, RunInit, Held, Calls, SettledInv, Waiting, Completes, At, CompletedIsSettled
<1>2. /\ RunInv /\ ControlTypeOK /\ (RunInv /\ ControlTypeOK)' /\ Held /\ SettledInv /\ [Next]_vars
      => (Held /\ SettledInv)'
  BY SettledStep, HeldStep DEF SettledInv
<1> QED
  BY <1>1, <1>2, ControlInvariant, PTL DEF Spec

(* A safe pause is a boundary: when one process at a time executes the run *)
(* and is not killed, no call is in flight when it reports PAUSED.         *)
THEOREM SafePauseAtBoundary ==
  ASSUME Sole, ~Crashes
  PROVE  Spec => PausesAtBoundary
<1>1. Held /\ SettledInv /\ [Next]_vars =>
        [\A p \in Runner : At(p, "pause_paused") /\ runner'[p].pc = "pause_state"
             => Calls("started") = {}]_vars
  BY DEF Held, Sole, At
<1> QED
  BY <1>1, HeldInvariant, PTL DEF Spec, PausesAtBoundary

-----------------------------------------------------------------------------
(* The books of a task: what its attempts and calls say of its state.      *)

Wanted == [implementation |-> "running", revision |-> "revising",
           review |-> "waiting_review", rereview |-> "waiting_rereview"]

\* The latest attempt of a task has a call for the role.
Tried(t, role) == attempt[t] >= 1 /\ call[<<t, attempt[t], role>>] # "absent"

\* Nobody takes over.
Untouched == "takeover" \notin Commands

\* Later attempts have no calls; an attempt implements or revises; an opinion comes
\* from a completed review of the latest attempt, and an approval from an opinion.
Shape(t) ==
  /\ \A n \in 1..MaxAttempt : \A role \in Role : n > attempt[t] => call[<<t, n, role>>] = "absent"
  /\ Tried(t, "rereview") => Tried(t, "revision")
  /\ ~Tried(t, "implementation") \/ ~Tried(t, "revision")
  /\ task[t] \in {"draft", "waiting_authorization", "queued"} => attempt[t] = 0
  /\ task[t] \in {"self_testing", "waiting_review"} => attempt[t] >= 1
  /\ task[t] = "waiting_rereview" => Tried(t, "revision")
  /\ opinion[t] # "none" => /\ attempt[t] >= 1
                            /\ \E role \in ReviewRole : call[<<t, attempt[t], role>>] = "completed"
  /\ task[t] = "approved" => opinion[t] # "none"

\* No reviewer writes the worktree it should only read.
Honest == "violation" \notin Faults

\* As long as nobody takes over, a review follows the implementation in the same
\* attempt and is shown the worktree, and nobody but a reviewer writes before the
\* next attempt.
Trust(t) ==
  /\ Honest => \A role \in ReviewRole : Tried(t, role) => content[t] = "shown"
  /\ Tried(t, "review") => Tried(t, "implementation")
  /\ task[t] \in {"self_testing", "waiting_review"} => Tried(t, "implementation")
  /\ task[t] = "approved" => opinion[t] = "approve"

Row(t) == Shape(t) /\ (Untouched => Trust(t))

\* What a process knows of its task from where it is.
Place(p) ==
  LET t == runner[p].task
      role == runner[p].role
      pc == runner[p].pc IN
  /\ pc \in {"begin", "calling", "driven", "answered", "reviewed"} => attempt[t] >= 1 /\ task[t] = Wanted[role]
  /\ pc = "begin" /\ role \in WriteRole => \A any \in Role : ~Tried(t, any)
  /\ pc \in {"calling", "driven", "answered", "reviewed"} => Tried(t, role)
  /\ pc = "driven" => role \in WriteRole
  /\ pc \in {"answered", "reviewed"} => role \in ReviewRole
  /\ pc \in {"testing", "renew"} => task[t] = "self_testing"
  /\ pc = "retry" => attempt[t] >= 1 /\ task[t] = "revising" /\ role = "revision"
  /\ pc = "approve" => /\ task[t] \in {"waiting_review", "waiting_rereview"}
                      /\ opinion[t] # "none" /\ (Untouched => opinion[t] = "approve")
  /\ pc = "refuse" => task[t] \in {"running", "revising", "self_testing", "waiting_review",
                                   "waiting_rereview"}
  /\ pc = "promote" => task[t] \in {"draft", "waiting_authorization", "queued"}

BooksInv == (\A t \in Task : Row(t)) /\ (\A p \in Runner : Place(p))

\* No test fails and no worker leaves its files: an attempt is closed by a review only.
Steady == Faults \cap {"scope", "testfail"} = {}

Implemented(t, n) == call[<<t, n, "implementation">>] # "absent"
Revisions(t) == {n \in 1..MaxAttempt : call[<<t, n, "revision">>] # "absent"}

\* The process has closed an attempt without a review, and is about to act on that.
Closing(p) == At(p, "refuse") \/ At(p, "retry")
Refused(t) == \E p \in Runner : Closing(p) /\ runner[p].task = t

\* One attempt has the implementation, and the revisions are within the limit.
Counts(t) ==
  /\ \A m, n \in 1..MaxAttempt : Implemented(t, m) /\ Implemented(t, n) => m = n
  /\ \A n \in Revisions(t) : n >= 2
  /\ Cardinality(Revisions(t)) <= MaxRetry

\* A task goes on with its implementation as long as it is not reviewed; a task that
\* is to be revised has a revision left or is at it.
Orderly(t) ==
  /\ task[t] \in {"draft", "waiting_authorization", "queued"} => ~closed[t]
  /\ task[t] = "running" =>
       /\ ~closed[t] /\ ~Tried(t, "review")
       /\ \A n \in 1..MaxAttempt : Implemented(t, n) => n = attempt[t]
  /\ /\ closed[t] /\ task[t] \in {"self_testing", "waiting_review", "waiting_input"}
     /\ Tried(t, "implementation")
     => Tried(t, "review")
  /\ task[t] = "revising" =>
       /\ attempt[t] >= 1
       /\ \/ Cardinality(Revisions(t)) + 1 <= MaxRetry
          \/ Tried(t, "revision") /\ ~Tried(t, "rereview") /\ ~closed[t]

Tally(t) == Counts(t) /\ Orderly(t)

Turn(p) ==
  LET t == runner[p].task IN
  /\ Closing(p) => ~Steady
  /\ At(p, "retry") => attempt[t] <= MaxRetry
  /\ At(p, "begin") /\ runner[p].role = "implementation" =>
       \A n \in 1..MaxAttempt : ~Implemented(t, n)
  /\ At(p, "begin") /\ runner[p].role = "revision" =>
       /\ attempt[t] >= 2 /\ ~closed[t]
       /\ Cardinality(Revisions(t)) + 1 <= MaxRetry

TallyInv ==
  /\ \A t \in Task : Counts(t) /\ (Orderly(t) \/ Refused(t))
  /\ \A p \in Runner : Turn(p)

-----------------------------------------------------------------------------
(* What the steps of a process do to the books.                            *)

books == <<task, attempt, closed, content, opinion, call>>
Busy == {"begin", "calling", "driven", "testing", "answered", "reviewed", "retry", "approve",
         "refuse", "promote", "renew"}
Quiet(p) == runner'[p].pc \notin Busy
Moved(p, pc, role) ==
  /\ runner'[p].pc = pc /\ runner'[p].task = runner[p].task /\ runner'[p].role = role

Opens(p) ==
  LET t == runner[p].task IN
  /\ NewAttempt(t) /\ UNCHANGED <<task, content, call>>
  /\ \/ At(p, "retry") /\ Moved(p, "begin", runner[p].role)
     \/ \E role \in WriteRole : /\ At(p, "step") /\ ~Continues(t, role) /\ task[t] = Wanted[role]
                                /\ Moved(p, "begin", role)

Enters(p) ==
  LET t == runner[p].task IN
  /\ UNCHANGED books
  /\ \/ \E role \in WriteRole : /\ Continues(t, role) /\ task[t] = Wanted[role]
                                /\ Moved(p, "driven", role)
     \/ \E role \in ReviewRole : task[t] = Wanted[role] /\ Moved(p, "begin", role)
     \/ task[t] = "self_testing" /\ Moved(p, "testing", runner[p].role)
     \/ task[t] = "draft" /\ Moved(p, "promote", runner[p].role)
     \/ /\ At(p, "begin") /\ call[CallOf(p)] = "completed"
        /\ Moved(p, Reused(p), runner[p].role)
     \/ /\ At(p, "answered") /\ content[t] = "shown"
        /\ Moved(p, "reviewed", runner[p].role)

Promotes(p) ==
  /\ At(p, "promote") /\ UNCHANGED <<attempt, closed, content, opinion, call>>
  /\ \E target : /\ task' = [task EXCEPT ![runner[p].task] = target]
                 /\ \/ /\ target \in {"waiting_authorization", "queued"}
                       /\ Moved(p, "promote", runner[p].role)
                    \/ target = "running" /\ Quiet(p)

Begins(p) ==
  LET t == runner[p].task
      role == runner[p].role IN
  /\ At(p, "begin") /\ call[CallOf(p)] = "absent" /\ UNCHANGED <<task, attempt, closed, opinion>>
  /\ call' = [call EXCEPT ![CallOf(p)] = "started"]
  /\ content' = [content EXCEPT ![t] = IF role \in WriteRole THEN "unseen" ELSE "shown"]
  /\ Moved(p, "calling", role)

Answers(p) ==
  /\ At(p, "calling") /\ UNCHANGED <<task, attempt, closed, content>>
  /\ \/ /\ call' = [call EXCEPT ![CallOf(p)] = "completed"] /\ Said(CallOf(p))
        /\ Moved(p, Answered(p), runner[p].role)
     \/ /\ \E state \in {"unknown", "failed"} : CallEnds(p, state)
        /\ UNCHANGED opinion /\ Quiet(p)

Advances(p) ==
  LET t == runner[p].task
      role == runner[p].role IN
  /\ UNCHANGED <<attempt, closed, content, opinion, call>> /\ Quiet(p)
  /\ \E target :
       /\ task' = [task EXCEPT ![t] = target]
       /\ \/ At(p, "driven") /\ role = "implementation" /\ target = "self_testing"
          \/ At(p, "driven") /\ role = "revision" /\ target = "waiting_rereview"
          \/ At(p, "testing") /\ target = "waiting_review"
          \/ At(p, "testing") /\ RetryLeft(t) /\ target = "revising"
          \/ At(p, "reviewed") /\ RetryLeft(t) /\ target = "revising"
          \/ At(p, "approve") /\ target = "approved"
          \/ target \in {"failed", task[t]}
          \/ target = "authorization_required" /\ task[t] \in {"running", "revising"}
          \/ target = "waiting_input" /\ task[t] \in {"running", "waiting_review", "waiting_rereview"}

Closes(p) ==
  LET t == runner[p].task IN
  /\ closed' = [closed EXCEPT ![t] = TRUE]
  /\ UNCHANGED <<task, attempt, content, opinion, call>>
  /\ \/ /\ ~Steady /\ runner[p].pc \in {"driven", "testing", "reviewed"}
        /\ Moved(p, "refuse", runner[p].role)
     \/ /\ ~Steady /\ At(p, "driven") /\ runner[p].role = "revision" /\ attempt[t] <= MaxRetry
        /\ Moved(p, "retry", "revision")
     \/ At(p, "reviewed") /\ Approves(t) /\ Moved(p, "approve", runner[p].role)
     \/ At(p, "reviewed") /\ Quiet(p)

Reopens(p) ==
  /\ \E t \in Task : Resolved(t) /\ task' = [task EXCEPT ![t] = "running"]
  /\ UNCHANGED <<attempt, closed, content, opinion, call>> /\ Quiet(p)

Stride(p) ==
  \/ UNCHANGED books /\ Quiet(p)
  \/ Opens(p) \/ Enters(p) \/ Promotes(p) \/ Begins(p) \/ Answers(p) \/ Advances(p)
  \/ Closes(p) \/ Reopens(p)

(* Where the moves of a process lead.                                      *)
LEMMA Moving ==
  ASSUME ControlTypeOK, NEW p \in Runner
  PROVE  /\ \A pc : Goto(p, pc) \/ Handle(p, pc) => Moved(p, pc, runner[p].role)
         /\ \A pc, role : runner' = [runner EXCEPT ![p].pc = pc, ![p].role = role] =>
              Moved(p, pc, role)
         /\ Exit(p) \/ Raise(p) \/ Leave(p) \/ NextTask(p) => Quiet(p)
         /\ \A s : FinalizeAs(p, s) => Quiet(p)
<1>1. runner[p] \in Process /\ p \in DOMAIN runner
  BY DEF ControlTypeOK
<1>2. \A pc : Goto(p, pc) => Moved(p, pc, runner[p].role)
  BY <1>1 DEF Goto, Moved, Process
<1>3. \A pc : Handle(p, pc) => Moved(p, pc, runner[p].role)
  BY <1>1 DEF Handle, Moved, Process
<1>4. \A pc, role : runner' = [runner EXCEPT ![p].pc = pc, ![p].role = role] => Moved(p, pc, role)
  <2> SUFFICES ASSUME NEW pc, NEW role, runner' = [runner EXCEPT ![p].pc = pc, ![p].role = role]
               PROVE  Moved(p, pc, role)
    OBVIOUS
  <2>1. runner'[p] = [runner[p] EXCEPT !.pc = pc, !.role = role]
    BY <1>1
  <2> QED
    BY <1>1, <2>1 DEF Moved, Process
<1>5. Exit(p) => Quiet(p)
  BY <1>1 DEF Exit, Off, Quiet, Busy
<1>6. Raise(p) \/ Leave(p) => Quiet(p)
  BY <1>3, <1>5 DEF Raise, Leave, Moved, Quiet, Busy
<1>7. NextTask(p) => Quiet(p)
  <2>1. RunnersTyped
    BY DEF ControlTypeOK, RunnersTyped
  <2> QED
    BY <2>1, Fields DEF Kept, Quiet, Busy
<1>8. \A s : FinalizeAs(p, s) => Quiet(p)
  <2>1. RunnersTyped
    BY DEF ControlTypeOK, RunnersTyped
  <2> QED
    BY <2>1, Fields DEF Kept, Quiet, Busy
<1> QED
  BY <1>2, <1>3, <1>4, <1>5, <1>6, <1>7, <1>8

(* A task is moved, or an exception is raised.                             *)
LEMMA TaskMoving ==
  ASSUME ControlTypeOK, NEW p \in Runner
  PROVE  LET t == runner[p].task IN
         /\ \A target, pc : TaskStep(p, target, pc) =>
              \/ /\ task' = [task EXCEPT ![t] = target] /\ target \in TaskTransitions[task[t]]
                 /\ Moved(p, pc, runner[p].role)
              \/ UNCHANGED task /\ Quiet(p)
         /\ FailTask(p) => Quiet(p) /\ (UNCHANGED task \/ task' = [task EXCEPT ![t] = "failed"])
         /\ CannotMove(p, "failed") => Quiet(p) /\ UNCHANGED task
  BY Moving DEF TaskStep, FailTask, MoveTask, CannotMove

(* An exception never leads to where a violation is handled.               *)
LEMMA Raising ==
  ASSUME ControlTypeOK, NEW p \in Runner
  PROVE  /\ Raise(p) \/ Leave(p) => runner'[p].pc # "violated"
         /\ FinalizeAs(p, "failed") => runner'[p].pc # "violated"
<1>1. runner[p] \in Process /\ p \in DOMAIN runner
  BY DEF ControlTypeOK
<1>2. Exit(p) => runner'[p].pc = "off"
  BY <1>1 DEF Exit, Off
<1>3. \A pc \in {"generic", "after"} : Handle(p, pc) => runner'[p].pc = pc
  BY <1>1, Moving DEF Moved
<1>4. FinalizeAs(p, "failed") => runner'[p].pc = "finalize"
  <2> SUFFICES ASSUME FinalizeAs(p, "failed") PROVE runner'[p].pc = "finalize"
    OBVIOUS
  <2>1. runner'[p] = [runner[p] EXCEPT !.pc = "finalize", !.verdict = "failed", !.inTry = FALSE]
    BY <1>1 DEF FinalizeAs
  <2> QED
    BY <1>1, <2>1 DEF Process
<1> QED
  BY <1>2, <1>3, <1>4 DEF Raise, Leave

(* Every step of a process that is not a takeover is one of these.         *)
LEMMA Strides ==
  ASSUME ControlTypeOK, NEW p \in Runner,
         runner[p].pc \notin {"takeover", "invalidate", "renew"},
         Launch(p) \/ ResumeStep(p) \/ ExecuteStep(p) \/ Crash(p)
  PROVE  Stride(p)
<1>1. /\ runner[p] \in Process /\ runner[p].task \in Task /\ p \in DOMAIN runner
      /\ runner[p].role \in Role
  BY DEF ControlTypeOK, Process
<1> DEFINE t == runner[p].task
<1>0. ASSUME NEW pc, Moved(p, pc, runner[p].role), pc \notin Busy PROVE Quiet(p)
  BY <1>0 DEF Moved, Quiet
<1> USE DEF taskVars, attemptVars, callVars
<1>2. CASE Launch(p) \/ CheckCalls(p) \/ ToRunning(p) \/ Crash(p)
  <2>1. UNCHANGED books
    BY <1>2 DEF Launch, CheckCalls, ToRunning, Crash, books
  <2>2. CASE Launch(p)
    BY <1>1, <2>1, <2>2 DEF Launch, Off, Quiet, Busy, Stride
  <2>3. CASE CheckCalls(p) \/ ToRunning(p) \/ Crash(p)
    BY <1>2, <1>0, <2>1, <2>3, Moving DEF CheckCalls, ToRunning, ControlStep, Crash, Stride, Busy
  <2> QED
    BY <1>2, <2>2, <2>3
<1>3. CASE RestoreResolved(p)
  <2>1. UNCHANGED <<attempt, closed, content, opinion, call>>
    BY <1>3 DEF RestoreResolved
  <2>2. CASE UNCHANGED task /\ (Goto(p, "takeover") \/ Goto(p, "resuming"))
    BY <1>0, <2>1, <2>2, Moving DEF Stride, Busy, books
  <2>3. CASE /\ {u \in Task : Resolved(u)} # {} /\ UNCHANGED runner
             /\ MoveTask(CHOOSE u \in {v \in Task : Resolved(v)} : \A w \in {v \in Task : Resolved(v)} : u <= w, "running")
    <3>1. Quiet(p)
      BY <1>3, <2>3 DEF RestoreResolved, At, Quiet, Busy
    <3> DEFINE Ready == {v \in Task : Resolved(v)}
    <3>2. PICK u \in Ready : \A w \in Ready : u <= w
      <4>1. Ready \in SUBSET Nat
        BY ControlAssumption DEF Task
      <4> HIDE DEF Ready
      <4> QED
        BY <2>3, <4>1, Least DEF Ready
    <3>3. (CHOOSE v \in Ready : \A w \in Ready : v <= w) \in Ready
      BY <3>2
    <3>4. PICK v \in Task : Resolved(v) /\ MoveTask(v, "running")
      BY <2>3, <3>3
    <3> QED
      BY <2>1, <3>1, <3>4 DEF MoveTask, Reopens, Stride
  <2> QED
    BY <1>3, <2>2, <2>3 DEF RestoreResolved
<1>4. CASE FindTakeoverChanges(p) \/ Invalidate(p) \/ Renew(p)
  BY <1>4 DEF FindTakeoverChanges, Invalidate, Renew, At
<1>5. CASE PauseIfRequested(p) \/ SafePauseRead(p) \/ SafePauseWrite(p) \/ After(p)
           \/ Finish(p) \/ FinalizeRun(p) \/ Prevented(p)
  <2>1. UNCHANGED books
    BY <1>5 DEF PauseIfRequested, SafePauseRead, SafePauseWrite, After, Finish, FinalizeRun,
                Prevented, books
  <2>2. runner' = [runner EXCEPT ![p].pc = "step", ![p].inTry = TRUE] => Quiet(p)
    BY <1>1 DEF Quiet, Busy, Process
  <2>3. Quiet(p)
    BY <1>0, <1>5, <2>2, Moving DEF PauseIfRequested, SafePauseRead, SafePauseWrite, ControlStep,
       After, Finish, FinalizeRun, Prevented, Busy
  <2> QED
    BY <2>1, <2>3 DEF Stride
<1>6. CASE Step(p)
  <2>1. ASSUME NEW role \in WriteRole, Drive(p, role), task[t] = Wanted[role] PROVE Stride(p)
    <3>1. UNCHANGED <<task, content, call>> /\ At(p, "step")
      BY <1>6 DEF Step
    <3>2. CASE ~Continues(t, role) /\ NewAttempt(t) /\ Moved(p, "begin", role)
      BY <2>1, <3>1, <3>2 DEF Opens, Stride
    <3>3. CASE Continues(t, role) /\ UNCHANGED attemptVars /\ Moved(p, "driven", role)
      BY <2>1, <3>1, <3>3 DEF Enters, Stride, books
    <3>4. CASE UNCHANGED attemptVars /\ Moved(p, "pause_read", runner[p].role)
      BY <1>0, <3>1, <3>4 DEF Stride, books, Busy
    <3> QED
      BY <2>1, <3>2, <3>3, <3>4, Moving DEF Drive
  <2>2. ASSUME NEW role \in ReviewRole, Moved(p, "begin", role), task[t] = Wanted[role],
               UNCHANGED attemptVars
        PROVE  Stride(p)
    BY <1>6, <2>2 DEF Step, Enters, Stride, books
  <2>3. CASE /\ UNCHANGED attemptVars
             /\ \/ task[t] \in {"approved", "failed"} /\ Leave(p)
                \/ task[t] = "draft" /\ Goto(p, "promote")
                \/ task[t] = "self_testing" /\ Goto(p, "testing")
                \/ Raise(p)
    BY <1>6, <2>3, Moving DEF Step, Enters, Stride, books
  <2> QED
    BY <1>6, <2>1, <2>2, <2>3, Moving DEF Step, Wanted, WriteRole, ReviewRole
<1>7. CASE Promote(p)
  BY <1>0, <1>7, TaskMoving DEF Promote, Promotes, Stride, books, Busy
<1>8. CASE BeginCall(p)
  <2>1. UNCHANGED <<task, attempt, closed, opinion>> /\ At(p, "begin")
    BY <1>8 DEF BeginCall
  <2>2. CASE UNCHANGED <<call, content>> /\ (Goto(p, "pause_read") \/ Raise(p))
    BY <1>0, <2>1, <2>2, Moving DEF Stride, books, Busy
  <2>3. CASE UNCHANGED <<call, content>> /\ Reusable(CallOf(p)) /\ Goto(p, Reused(p))
    BY <2>1, <2>3, Moving DEF Stride, Enters, books, Reusable
  <2>4. CASE /\ call[CallOf(p)] = "absent"
             /\ call' = [call EXCEPT ![CallOf(p)] = "started"]
             /\ content' = [content EXCEPT ![runner[p].task] =
                              IF runner[p].role \in WriteRole THEN "unseen" ELSE "shown"]
             /\ Goto(p, "calling")
    BY <2>1, <2>4, Moving DEF Stride, Begins
  <2> QED
    BY <1>8, <2>2, <2>3, <2>4 DEF BeginCall
<1>9. CASE Answer(p)
  <2>1. UNCHANGED <<task, attempt, closed, content>> /\ At(p, "calling")
    BY <1>9 DEF Answer
  <2>2. CASE CallEnds(p, "completed") /\ Said(CallOf(p)) /\ Goto(p, Answered(p))
    BY <2>1, <2>2, Moving DEF CallEnds, Answers, Stride
  <2>3. CASE /\ UNCHANGED opinion
             /\ \/ CallEnds(p, "unknown") /\ Handle(p, "unknown")
                \/ CallEnds(p, "failed") /\ Handle(p, "pause_read")
                \/ CallEnds(p, "failed") /\ Raise(p)
    <3>1. Quiet(p)
      BY <1>0, <2>3, Moving DEF Busy
    <3> QED
      BY <2>1, <2>3, <3>1 DEF Answers, Stride
  <2>4. CASE UNCHANGED <<call, opinion>> /\ Raise(p)
    BY <2>1, <2>4, Moving DEF Stride, books
  <2> QED
    BY <1>9, <2>2, <2>3, <2>4 DEF Answer
<1>10. CASE Driven(p) \/ Test(p)
  <2>1. UNCHANGED <<attempt, opinion, content, call>> /\ (At(p, "driven") \/ At(p, "testing"))
    BY <1>10 DEF Driven, Test
  <2>2. ASSUME NEW target, UNCHANGED closed, TaskStep(p, target, "ingate"),
               \/ At(p, "driven") /\ runner[p].role = "implementation" /\ target = "self_testing"
               \/ At(p, "driven") /\ runner[p].role = "revision" /\ target = "waiting_rereview"
               \/ At(p, "testing") /\ target = "waiting_review"
               \/ At(p, "testing") /\ RetryLeft(t) /\ target = "revising"
        PROVE  Stride(p)
    BY <1>0, <2>1, <2>2, TaskMoving DEF Advances, Stride, books, Busy
  <2>3. ASSUME NEW pc \in {"refuse", "retry"}, Close(p, pc), ~Steady,
               pc = "retry" => At(p, "driven") /\ runner[p].role = "revision" /\ attempt[t] <= MaxRetry
        PROVE  Stride(p)
    <3>1. closed' = [closed EXCEPT ![t] = TRUE] /\ UNCHANGED task /\ Moved(p, pc, runner[p].role)
      BY <2>3, Moving DEF Close
    <3> QED
      BY <2>1, <2>3, <3>1 DEF Closes, Stride, At
  <2>4. MaxRetry \in Nat /\ attempt[t] \in Nat
    BY <1>1, ControlAssumption DEF ControlTypeOK
  <2>5. CASE Driven(p)
    <3>1. ~(attempt[t] - 1 >= MaxRetry) => attempt[t] <= MaxRetry
      BY <2>4
    <3> QED
      BY <2>1, <2>2, <2>3, <2>5, <3>1 DEF Driven, Steady
  <2>6. CASE Test(p)
    BY <2>1, <2>2, <2>3, <2>6 DEF Test, Steady
  <2> QED
    BY <1>10, <2>5, <2>6
<1>11. CASE Verdict(p)
  <2>1. UNCHANGED <<attempt, opinion, content, call>> /\ At(p, "reviewed")
    BY <1>11 DEF Verdict
  <2>2. ASSUME NEW pc \in {"approve", "refuse", "reject"}, Close(p, pc),
               pc = "approve" => Approves(t), pc = "refuse" => ~Steady
        PROVE  Stride(p)
    <3>1. closed' = [closed EXCEPT ![t] = TRUE] /\ UNCHANGED task /\ Moved(p, pc, runner[p].role)
      BY <2>2, Moving DEF Close
    <3> QED
      BY <1>0, <2>1, <2>2, <3>1 DEF Closes, Stride, Busy, At
  <2>3. CASE UNCHANGED closed /\ RetryLeft(t) /\ TaskStep(p, "revising", "ingate")
    BY <1>0, <2>1, <2>3, TaskMoving DEF Advances, Stride, books, Busy
  <2>4. CASE /\ UNCHANGED <<closed, task>>
             /\ Goto(p, "pause_read") \/ Handle(p, "pause_read")
    <3>1. Quiet(p)
      BY <1>0, <2>4, Moving DEF Busy
    <3> QED
      BY <2>1, <2>4, <3>1 DEF Stride, books
  <2> QED
    BY <1>11, <2>2, <2>3, <2>4 DEF Verdict, Steady
<1>14. CASE Compare(p)
  BY <1>0, <1>14, Moving DEF Compare, Enters, Stride, books, Busy
<1>12. CASE Settle(p)
  <2>1. UNCHANGED <<content, call>>
    BY <1>12 DEF Settle
  <2>2. CASE FailTask(p) /\ UNCHANGED attemptVars
    BY <2>1, <2>2, TaskMoving DEF Advances, Stride, books
  <2>3. ASSUME NEW target, TaskStep(p, target, "ingate"), UNCHANGED attemptVars,
               target = "failed" \/ (target = "approved" /\ At(p, "approve"))
        PROVE  Stride(p)
    BY <1>0, <2>1, <2>3, TaskMoving DEF Advances, Stride, books, Busy
  <2>4. CASE At(p, "retry") /\ NewAttempt(t) /\ Goto(p, "begin") /\ UNCHANGED task
    BY <2>1, <2>4, Moving DEF Opens, Stride
  <2>5. CASE At(p, "reject") /\ TaskStep(p, "failed", "ingate") /\ UNCHANGED attemptVars
    BY <2>3, <2>5
  <2>6. CASE At(p, "approve") /\ TaskStep(p, "approved", "ingate") /\ UNCHANGED attemptVars
    BY <2>3, <2>6
  <2> QED
    BY <1>12, <2>2, <2>4, <2>5, <2>6 DEF Settle
<1>13. CASE HandleTask(p) \/ GenericHandler(p)
  <2>1. UNCHANGED <<attempt, closed, opinion, content, call>>
    BY <1>13 DEF HandleTask, GenericHandler
  <2>2. CASE task' = [task EXCEPT ![t] = HandlerTarget(p)] /\ Goto(p, "pause_read")
    <3>1. Quiet(p)
      BY <1>0, <2>2, Moving DEF Busy
    <3>2. \/ HandlerTarget(p) = task[t]
          \/ HandlerTarget(p) = "authorization_required" /\ task[t] \in {"running", "revising"}
          \/ HandlerTarget(p) = "waiting_input" /\ task[t] \in {"running", "waiting_review", "waiting_rereview"}
      BY DEF HandlerTarget
    <3> QED
      BY <2>1, <2>2, <3>1, <3>2 DEF Advances, Stride
  <2>3. CASE MoveTask(t, "failed") /\ FinalizeAs(p, "failed")
    BY <2>1, <2>3, Moving DEF MoveTask, Advances, Stride
  <2>4. CASE \/ CannotMove(p, "failed")
             \/ UNCHANGED task /\ (Exit(p) \/ Handle(p, "generic_fail") \/ FinalizeAs(p, "failed"))
    BY <1>0, <2>1, <2>4, Moving, TaskMoving DEF Stride, books, Busy
  <2> QED
    BY <1>13, <2>2, <2>3, <2>4 DEF HandleTask, GenericHandler
<1> QED
  BY <1>2, <1>3, <1>4, <1>5, <1>6, <1>7, <1>8, <1>9, <1>10, <1>11, <1>12, <1>13,
     <1>14 DEF ResumeStep, ExecuteStep

-----------------------------------------------------------------------------
(* The shape of a row does not depend on the worktree, which a user edits. *)
LEMMA ShapeFrame ==
  ASSUME NEW t \in Task, Shape(t), attempt[t] \in 0..MaxAttempt, MaxAttempt \in Nat,
         task'[t] = task[t], attempt'[t] = attempt[t], opinion'[t] = opinion[t],
         \A n \in 1..MaxAttempt, role \in Role : call'[<<t, n, role>>] = call[<<t, n, role>>]
  PROVE  Shape(t)' /\ \A role \in Role : Tried(t, role)' = Tried(t, role)
<1>1. \A role \in Role : Tried(t, role)' = Tried(t, role)
  BY DEF Tried
<1>2. \A role \in Role : attempt[t] >= 1 => call'[<<t, attempt[t], role>>] = call[<<t, attempt[t], role>>]
  OBVIOUS
<1>3. opinion'[t] # "none" => /\ attempt'[t] >= 1
                              /\ \E role \in ReviewRole : call'[<<t, attempt'[t], role>>] = "completed"
  BY <1>2 DEF Shape, Role
<1>4. \A n \in 1..MaxAttempt : \A role \in Role : n > attempt'[t] => call'[<<t, n, role>>] = "absent"
  BY DEF Shape
<1> QED
  BY <1>1, <1>3, <1>4 DEF Shape, Role, ReviewRole, WriteRole

(* A row that a step does not touch stays as it is.                        *)
LEMMA RowFrame ==
  ASSUME NEW t \in Task, Row(t), attempt[t] \in 0..MaxAttempt, MaxAttempt \in Nat,
         task'[t] = task[t], attempt'[t] = attempt[t], content'[t] = content[t],
         opinion'[t] = opinion[t],
         \A n \in 1..MaxAttempt, role \in Role : call'[<<t, n, role>>] = call[<<t, n, role>>]
  PROVE  Row(t)'
<1>1. Shape(t)' /\ \A role \in Role : Tried(t, role)' = Tried(t, role)
  BY ShapeFrame DEF Row
<1> QED
  BY <1>1 DEF Row, Trust, Role, ReviewRole, WriteRole

(* The books are kept by each kind of step.                                *)
LEMMA BooksOpen ==
  ASSUME Sole, ControlTypeOK, ControlTypeOK', BooksInv, NEW p \in Runner, Opens(p)
  PROVE  BooksInv'
<1>0. PICK t \in Task : t = runner[p].task
  BY DEF ControlTypeOK, Process
<1>1. /\ MaxAttempt \in Nat /\ \A q \in Runner : q = p
      /\ \A u \in Task : attempt[u] \in 0..MaxAttempt /\ attempt'[u] \in 0..MaxAttempt
      /\ \A u \in Task : Row(u)
      /\ Place(p)
  BY ControlAssumption DEF Sole, ControlTypeOK, Process, BooksInv
<1>2. /\ attempt' = [attempt EXCEPT ![t] = @ + 1] /\ opinion' = [opinion EXCEPT ![t] = "none"]
      /\ UNCHANGED <<task, content, call>>
  BY <1>0 DEF Opens, NewAttempt
<1>3. /\ \A role \in Role : ~Tried(t, role)'
      /\ attempt'[t] = attempt[t] + 1 /\ attempt'[t] >= 1
  <2>1. attempt'[t] = attempt[t] + 1 /\ attempt'[t] \in 1..MaxAttempt /\ attempt'[t] > attempt[t]
    BY <1>1, <1>2 DEF ControlTypeOK
  <2>2. \A role \in Role : call[<<t, attempt'[t], role>>] = "absent"
    BY <1>1, <2>1 DEF Row, Shape, Trust
  <2> QED
    BY <1>2, <2>1, <2>2 DEF Tried
<1>4. task[t] \in {"running", "revising"}
  BY <1>0, <1>1 DEF Opens, Place, At, Wanted, WriteRole
<1>5. Row(t)'
  <2>1. opinion'[t] = "none" /\ task'[t] \in {"running", "revising"}
    BY <1>2, <1>4 DEF ControlTypeOK
  <2>2. \A n \in 1..MaxAttempt : \A role \in Role : n > attempt'[t] => call'[<<t, n, role>>] = "absent"
    BY <1>1, <1>2, <1>3 DEF Row, Shape, Trust
  <2>3. \A role \in Role : ~Tried(t, role)'
    BY <1>3
  <2> QED
    BY <2>1, <2>2, <2>3 DEF Row, Shape, Trust, Role, WriteRole, ReviewRole
<1>6. \A u \in Task : u # t => Row(u)'
  BY <1>1, <1>2, RowFrame DEF ControlTypeOK
<1>7. Place(p)'
  <2>1. CASE At(p, "retry") /\ Moved(p, "begin", runner[p].role)
    BY <1>0, <1>1, <1>2, <1>3, <2>1 DEF Place, At, Moved, Wanted
  <2>2. ASSUME NEW role \in WriteRole, task[t] = Wanted[role], Moved(p, "begin", role)
        PROVE  Place(p)'
    BY <1>0, <1>1, <1>2, <1>3, <2>2 DEF Place, Moved
  <2> QED
    BY <1>0, <2>1, <2>2 DEF Opens
<1> QED
  BY <1>1, <1>5, <1>6, <1>7 DEF BooksInv

(* A step that only moves the process.                                     *)
LEMMA BooksEnter ==
  ASSUME Sole, ControlTypeOK, ControlTypeOK', BooksInv, NEW p \in Runner,
         Enters(p) \/ (UNCHANGED books /\ Quiet(p))
  PROVE  BooksInv'
<1>0. PICK t \in Task : t = runner[p].task
  BY DEF ControlTypeOK, Process
<1>1. /\ MaxAttempt \in Nat /\ \A q \in Runner : q = p
      /\ \A u \in Task : attempt[u] \in 0..MaxAttempt
      /\ \A u \in Task : Row(u)
      /\ Place(p) /\ runner[p].role \in Role
  BY ControlAssumption DEF Sole, ControlTypeOK, Process, BooksInv
<1>2. UNCHANGED <<task, attempt, closed, content, opinion, call>>
  BY DEF Enters, books
<1>3. \A u \in Task : Row(u)'
  BY <1>1, <1>2, RowFrame
<1>4. Place(p)'
  <2>1. CASE Quiet(p)
    BY <2>1 DEF Quiet, Busy, Place
  <2>2. ASSUME NEW role \in WriteRole, Continues(t, role), task[t] = Wanted[role],
               Moved(p, "driven", role)
        PROVE  Place(p)'
    BY <1>0, <1>1, <1>2, <2>2 DEF Place, Moved, Continues, Tried
  <2>3. ASSUME NEW role \in ReviewRole, task[t] = Wanted[role], Moved(p, "begin", role)
        PROVE  Place(p)'
    <3>1. attempt[t] >= 1
      <4>1. task[t] \in {"waiting_review", "waiting_rereview"}
        BY <2>3 DEF Wanted, ReviewRole
      <4> QED
        BY <1>1, <4>1 DEF Row, Shape, Tried
    <3>2. role \notin WriteRole
      BY DEF ReviewRole, WriteRole
    <3> QED
      BY <1>0, <1>2, <2>3, <3>1, <3>2 DEF Place, Moved
  <2>4. CASE \/ task[t] = "self_testing" /\ Moved(p, "testing", runner[p].role)
             \/ task[t] = "draft" /\ Moved(p, "promote", runner[p].role)
    BY <1>0, <1>1, <1>2, <2>4 DEF Place, Moved
  <2>5. CASE At(p, "begin") /\ call[CallOf(p)] = "completed" /\ Moved(p, Reused(p), runner[p].role)
    BY <1>0, <1>1, <1>2, <2>5 DEF Place, Moved, At, CallOf, Reused, Tried, Role
  <2>6. CASE At(p, "answered") /\ Moved(p, "reviewed", runner[p].role)
    BY <1>0, <1>1, <1>2, <2>6 DEF Place, Moved, At, Tried
  <2> QED
    BY <1>0, <2>1, <2>2, <2>3, <2>4, <2>5, <2>6 DEF Enters
<1> QED
  BY <1>1, <1>3, <1>4 DEF BooksInv

\* What the invariant and the types say of a process and its task.
Known(p, t) ==
  /\ t \in Task /\ t = runner[p].task /\ MaxAttempt \in Nat
  /\ \A u \in Task : attempt[u] \in 0..MaxAttempt /\ Row(u)
  /\ Place(p) /\ runner[p].role \in Role

(* The state of the process is known, and there is no other process.       *)
LEMMA KnownHere ==
  ASSUME Sole, ControlTypeOK, BooksInv, NEW p \in Runner
  PROVE  /\ \E t \in Task : Known(p, t)
         /\ \A q \in Runner : q = p
  BY ControlAssumption DEF Sole, ControlTypeOK, Process, BooksInv, Known

(* A task is moved, not its attempts or calls.                             *)
LEMMA BooksAdvance ==
  ASSUME Sole, ControlTypeOK, ControlTypeOK', BooksInv, NEW p \in Runner,
         Advances(p) \/ Promotes(p) \/ Reopens(p)
  PROVE  BooksInv'
<1>1. PICK t \in Task : Known(p, t)
  BY KnownHere
<1>2. \A q \in Runner : q = p
  BY KnownHere
<1>3. UNCHANGED <<attempt, content, opinion, call>>
  BY DEF Advances, Promotes, Reopens
<1> DEFINE Plain == {"running", "revising", "waiting_input", "failed", "authorization_required"}
<1>4. ASSUME NEW u \in Task,
             \/ task'[u] = task[u]
             \/ task'[u] \in Plain
             \/ task'[u] \in {"waiting_authorization", "queued"} /\ attempt[u] = 0
             \/ /\ task'[u] \in {"self_testing", "waiting_review"} /\ attempt[u] >= 1
                /\ Untouched => Tried(u, "implementation")
             \/ task'[u] = "waiting_rereview" /\ Tried(u, "revision")
             \/ /\ task'[u] = "approved" /\ opinion[u] # "none"
                /\ Untouched => opinion[u] = "approve"
      PROVE  Row(u)'
  <2>1. Row(u) /\ \A role \in Role : Tried(u, role)' = Tried(u, role)
    BY <1>1, <1>3 DEF Known, Tried
  <2> QED
    BY <1>3, <1>4, <2>1 DEF Row, Shape, Trust, Role, WriteRole, ReviewRole
<1>5. CASE Advances(p)
  <2>1. PICK target :
          /\ task' = [task EXCEPT ![t] = target]
          /\ \/ At(p, "driven") /\ runner[p].role = "implementation" /\ target = "self_testing"
             \/ At(p, "driven") /\ runner[p].role = "revision" /\ target = "waiting_rereview"
             \/ At(p, "testing") /\ target = "waiting_review"
             \/ target = "revising"
             \/ At(p, "approve") /\ target = "approved"
             \/ target \in {"failed", "authorization_required", task[t]}
             \/ target = "waiting_input"
    BY <1>1, <1>5 DEF Advances, Known
  <2>2. \A u \in Task : u # t => task'[u] = task[u]
    BY <2>1 DEF ControlTypeOK
  <2>3. task'[t] = target
    BY <2>1 DEF ControlTypeOK
  <2>4. \/ task'[t] = task[t]
        \/ task'[t] \in Plain
        \/ /\ task'[t] \in {"self_testing", "waiting_review"} /\ attempt[t] >= 1
           /\ Untouched => Tried(t, "implementation")
        \/ task'[t] = "waiting_rereview" /\ Tried(t, "revision")
        \/ /\ task'[t] = "approved" /\ opinion[t] # "none"
           /\ Untouched => opinion[t] = "approve"
    <3>1. Place(p) /\ Row(t) /\ t = runner[p].task
      BY <1>1 DEF Known
    <3> QED
      BY <2>1, <2>3, <3>1 DEF Place, Row, Shape, Trust, At, Tried
  <2>5. Place(p)'
    BY <1>5 DEF Advances, Quiet, Busy, Place
  <2> QED
    BY <1>2, <1>4, <2>2, <2>4, <2>5 DEF BooksInv
<1>6. CASE Promotes(p)
  <2>1. PICK target \in {"waiting_authorization", "queued", "running"} :
          /\ task' = [task EXCEPT ![t] = target]
          /\ \/ target \in {"waiting_authorization", "queued"} /\ Moved(p, "promote", runner[p].role)
             \/ Quiet(p)
    BY <1>1, <1>6 DEF Promotes, Known
  <2>2. \A u \in Task : u # t => task'[u] = task[u]
    BY <2>1 DEF ControlTypeOK
  <2>3. task'[t] = target
    BY <2>1 DEF ControlTypeOK
  <2>4. \A u \in Task : Row(u)'
    <3>1. attempt[t] = 0
      BY <1>1, <1>6 DEF Promotes, Known, Place, At, Row, Shape
    <3> QED
      BY <1>4, <2>1, <2>2, <2>3, <3>1
  <2>5. Place(p)'
    BY <1>1, <2>1, <2>3 DEF Known, Moved, Quiet, Busy, Place
  <2> QED
    BY <1>2, <2>4, <2>5 DEF BooksInv
<1>7. CASE Reopens(p)
  <2>1. \A u \in Task : task'[u] = task[u] \/ task'[u] = "running"
    BY <1>7 DEF Reopens, ControlTypeOK
  <2>2. Place(p)'
    BY <1>7 DEF Reopens, Quiet, Busy, Place
  <2> QED
    BY <1>2, <1>4, <2>1, <2>2 DEF BooksInv
<1> QED
  BY <1>5, <1>6, <1>7

(* An attempt is closed.                                                   *)
LEMMA BooksClose ==
  ASSUME Sole, ControlTypeOK, ControlTypeOK', BooksInv, NEW p \in Runner, Closes(p)
  PROVE  BooksInv'
<1>1. PICK t \in Task : Known(p, t)
  BY KnownHere
<1>2. \A q \in Runner : q = p
  BY KnownHere
<1>3. UNCHANGED <<task, attempt, content, opinion, call>>
  BY DEF Closes
<1>4. \A u \in Task : Row(u)'
  BY <1>1, <1>3, RowFrame DEF Known
<1>5. Place(p)'
  <2>1. CASE Quiet(p)
    BY <2>1 DEF Quiet, Busy, Place
  <2>4. CASE /\ runner[p].pc \in {"driven", "testing", "reviewed"}
             /\ Moved(p, "refuse", runner[p].role)
    <3>1. Place(p) /\ t = runner[p].task /\ runner[p].role \in Role
      BY <1>1 DEF Known
    <3>2. task[t] \in {"running", "revising", "self_testing", "waiting_review", "waiting_rereview"}
      BY <2>4, <3>1 DEF Place, Wanted, WriteRole, ReviewRole
    <3> QED
      BY <1>3, <2>4, <3>1, <3>2 DEF Place, Moved
  <2>2. CASE At(p, "driven") /\ runner[p].role = "revision" /\ Moved(p, "retry", "revision")
    BY <1>1, <1>3, <2>2 DEF Known, Place, At, Moved, Wanted
  <2>3. CASE At(p, "reviewed") /\ Approves(t) /\ Moved(p, "approve", runner[p].role)
    BY <1>1, <1>3, <2>3 DEF Known, Place, Moved, Approves, At, Wanted, ReviewRole
  <2> QED
    BY <1>1, <2>1, <2>2, <2>3, <2>4 DEF Closes, Known
<1> QED
  BY <1>2, <1>4, <1>5 DEF BooksInv

(* A call is begun.                                                        *)
LEMMA BooksBegin ==
  ASSUME Sole, ControlTypeOK, ControlTypeOK', BooksInv, NEW p \in Runner, Begins(p)
  PROVE  BooksInv'
<1>1. PICK t \in Task : Known(p, t)
  BY KnownHere
<1>2. \A q \in Runner : q = p
  BY KnownHere
<1>3. PICK role \in Role : role = runner[p].role
  BY <1>1 DEF Known
<1>4. /\ attempt[t] \in 1..MaxAttempt /\ task[t] = Wanted[role]
      /\ role \in WriteRole => \A any \in Role : ~Tried(t, any)
  BY <1>1, <1>3 DEF Begins, At, Known, Place
<1> DEFINE k == <<t, attempt[t], role>>
<1>5. /\ UNCHANGED <<task, attempt, closed, opinion>> /\ call[k] = "absent"
      /\ call' = [call EXCEPT ![k] = "started"]
      /\ content' = [content EXCEPT ![t] = IF role \in WriteRole THEN "unseen" ELSE "shown"]
      /\ Moved(p, "calling", role)
  BY <1>1, <1>3 DEF Begins, CallOf, Known
<1>6. \A j \in Slot : call'[j] = IF j = k THEN "started" ELSE call[j]
  BY <1>4, <1>5 DEF ControlTypeOK
<1>7. \A u \in Task : u # t => Row(u)'
  <2> SUFFICES ASSUME NEW u \in Task, u # t PROVE Row(u)'
    OBVIOUS
  <2>1. \A n \in 1..MaxAttempt, r \in Role : call'[<<u, n, r>>] = call[<<u, n, r>>]
    BY <1>6 DEF Slot
  <2>2. content'[u] = content[u]
    BY <1>5 DEF ControlTypeOK
  <2> QED
    BY <1>1, <1>5, <2>1, <2>2, RowFrame DEF Known
<1>8. Row(t)'
  <2>1. \A r \in Role : Tried(t, r)' <=> Tried(t, r) \/ r = role
    BY <1>4, <1>5, <1>6 DEF Tried, Slot
  <2>2. \A n \in 1..MaxAttempt : \A r \in Role : n > attempt'[t] => call'[<<t, n, r>>] = "absent"
    BY <1>1, <1>4, <1>5, <1>6 DEF Known, Row, Shape, Trust, Slot
  <2>3. \A r \in Role : call[<<t, attempt[t], r>>] = "completed" => call'[<<t, attempt[t], r>>] = "completed"
    BY <1>4, <1>5, <1>6 DEF Slot
  <2>4. Row(t) /\ content'[t] = IF role \in WriteRole THEN "unseen" ELSE "shown"
    BY <1>1, <1>5 DEF Known, ControlTypeOK
  <2>5. \A r \in ReviewRole : Tried(t, r)' => content'[t] = "shown"
    BY <1>3, <1>4, <2>1, <2>4 DEF Row, Shape, Trust, Role, WriteRole, ReviewRole
  <2>6. /\ Untouched => (Tried(t, "review")' => Tried(t, "implementation")')
        /\ Tried(t, "rereview")' => Tried(t, "revision")'
        /\ ~Tried(t, "implementation")' \/ ~Tried(t, "revision")'
    BY <1>3, <1>4, <2>1, <2>4 DEF Row, Shape, Trust, Role, WriteRole, ReviewRole, Wanted
  <2>7. /\ Untouched /\ task'[t] \in {"self_testing", "waiting_review"} => Tried(t, "implementation")'
        /\ Untouched /\ task'[t] = "approved" => opinion'[t] = "approve"
        /\ task'[t] \in {"self_testing", "waiting_review"} => attempt'[t] >= 1
        /\ task'[t] \notin {"draft", "waiting_authorization", "queued"}
        /\ task'[t] = "waiting_rereview" => Tried(t, "revision")'
        /\ task'[t] = "approved" => opinion'[t] # "none"
    BY <1>3, <1>4, <1>5, <2>1, <2>4 DEF Row, Shape, Trust, Role, WriteRole, ReviewRole, Wanted
  <2>8. opinion'[t] # "none" => /\ attempt'[t] >= 1
                                /\ \E r \in ReviewRole : call'[<<t, attempt'[t], r>>] = "completed"
    BY <1>5, <2>3, <2>4 DEF Row, Shape, Trust, Role, WriteRole, ReviewRole
  <2> QED
    <3>1. Shape(t)'
      BY <2>2, <2>6, <2>7, <2>8 DEF Shape
    <3>2. ASSUME Untouched PROVE Trust(t)'
      <4>1. /\ Tried(t, "review")' => Tried(t, "implementation")'
            /\ task'[t] \in {"self_testing", "waiting_review"} => Tried(t, "implementation")'
            /\ task'[t] = "approved" => opinion'[t] = "approve"
        BY <2>6, <2>7, <3>2
      <4> QED
        BY <2>5, <4>1 DEF Trust
    <3> QED
      BY <3>1, <3>2 DEF Row
<1>9. Place(p)'
  <2>1. Tried(t, role)'
    BY <1>4, <1>5, <1>6 DEF Tried, Slot
  <2> QED
    BY <1>1, <1>4, <1>5, <2>1 DEF Known, Moved, Place
<1> QED
  BY <1>2, <1>7, <1>8, <1>9 DEF BooksInv

(* A call comes to an end, in a step of its process or by a command.       *)
LEMMA BooksSettle ==
  ASSUME ControlTypeOK, NEW t \in Task, Row(t),
         UNCHANGED <<task, attempt, content>>,
         \A n \in 1..MaxAttempt, r \in Role :
           \/ call'[<<t, n, r>>] = call[<<t, n, r>>]
           \/ /\ call[<<t, n, r>>] \notin {"absent", "completed"}
              /\ call'[<<t, n, r>>] # "absent",
         \/ opinion'[t] = opinion[t]
         \/ /\ opinion'[t] # "none" /\ (Untouched => task[t] # "approved")
            /\ attempt[t] >= 1
            /\ \E r \in ReviewRole : call'[<<t, attempt[t], r>>] = "completed"
  PROVE  Row(t)' /\ \A r \in Role : Tried(t, r)' = Tried(t, r)
<1>1. attempt[t] \in 0..MaxAttempt /\ MaxAttempt \in Nat
  BY ControlAssumption DEF ControlTypeOK
<1>2. \A r \in Role : Tried(t, r)' = Tried(t, r)
  BY <1>1 DEF Tried
<1>3. \A n \in 1..MaxAttempt : \A r \in Role : n > attempt'[t] => call'[<<t, n, r>>] = "absent"
  BY DEF Row, Shape, Trust
<1>4. opinion'[t] # "none" => /\ attempt'[t] >= 1
                              /\ \E r \in ReviewRole : call'[<<t, attempt'[t], r>>] = "completed"
  <2> SUFFICES ASSUME opinion'[t] = opinion[t], opinion[t] # "none"
               PROVE  /\ attempt[t] >= 1
                      /\ \E r \in ReviewRole : call'[<<t, attempt[t], r>>] = "completed"
    OBVIOUS
  <2>1. PICK r \in ReviewRole : attempt[t] >= 1 /\ call[<<t, attempt[t], r>>] = "completed"
    BY DEF Row, Shape, Trust
  <2> QED
    BY <1>1, <2>1 DEF Role
<1>5. task'[t] = "approved" => opinion'[t] # "none" /\ (Untouched => opinion'[t] = "approve")
  BY DEF Row, Shape, Trust
<1> QED
  BY <1>2, <1>3, <1>4, <1>5 DEF Row, Shape, Trust, Role, WriteRole, ReviewRole

(* The process has its answer, or does without.                            *)
LEMMA BooksAnswer ==
  ASSUME Sole, ControlTypeOK, ControlTypeOK', BooksInv, NEW p \in Runner, Answers(p)
  PROVE  BooksInv'
<1>1. PICK t \in Task : Known(p, t)
  BY KnownHere
<1>2. \A q \in Runner : q = p
  BY KnownHere
<1>3. PICK role \in Role : role = runner[p].role
  BY <1>1 DEF Known
<1>4. attempt[t] \in 1..MaxAttempt /\ task[t] = Wanted[role] /\ Tried(t, role)
  BY <1>1, <1>3 DEF Answers, At, Known, Place
<1> DEFINE k == <<t, attempt[t], role>>
<1>5. k = CallOf(p) /\ k \in Slot /\ UNCHANGED <<task, attempt, closed, content>>
  BY <1>1, <1>3, <1>4 DEF CallOf, Known, Slot, Answers
<1>6. CASE call' = [call EXCEPT ![k] = "completed"] /\ Said(k) /\ Moved(p, Answered(p), role)
  <2>1. \A j \in Slot : call'[j] = IF j = k THEN "completed" ELSE call[j]
    BY <1>5, <1>6 DEF ControlTypeOK
  <2>2. ASSUME NEW u \in Task PROVE Row(u)' /\ \A r \in Role : Tried(u, r)' = Tried(u, r)
    <3>1. \A n \in 1..MaxAttempt, r \in Role :
            \/ call'[<<u, n, r>>] = call[<<u, n, r>>]
            \/ /\ call[<<u, n, r>>] \notin {"absent", "completed"}
               /\ call'[<<u, n, r>>] # "absent"
      BY <1>4, <2>1 DEF Slot, Tried
    <3>2. \/ opinion'[u] = opinion[u]
          \/ u = t /\ role \in ReviewRole /\ opinion'[u] # "none"
      <4>1. k[1] = t /\ k[2] = attempt[t] /\ k[3] = role
        OBVIOUS
      <4> HIDE DEF k
      <4> QED
        BY <1>6, <4>1 DEF Said, ControlTypeOK, Opinion
    <3>3. task[t] # "approved" /\ attempt[t] >= 1 /\ call'[<<t, attempt[t], role>>] = "completed"
      BY <1>3, <1>4, <1>5, <2>1 DEF Wanted, Role, WriteRole, ReviewRole
    <3>4. Row(u)
      BY <1>1 DEF Known
    <3> QED
      BY <1>5, <3>1, <3>2, <3>3, <3>4, BooksSettle
  <2>3. Place(p)'
    BY <1>1, <1>3, <1>4, <1>5, <1>6, <2>2 DEF Known, Moved, Place, Answered, Role
  <2> QED
    BY <1>2, <2>2, <2>3 DEF BooksInv
<1>7. ASSUME NEW state \in {"unknown", "failed"}, CallEnds(p, state), UNCHANGED opinion, Quiet(p)
      PROVE  BooksInv'
  <2>1. /\ \A j \in Slot : call'[j] = IF j = k THEN state ELSE call[j]
        /\ call[k] # "completed"
    BY <1>5, <1>7 DEF CallEnds, ControlTypeOK, CallStates, InvocationTransitions, InvocationStates
  <2>2. ASSUME NEW u \in Task PROVE Row(u)'
    <3>1. \A n \in 1..MaxAttempt, r \in Role :
            \/ call'[<<u, n, r>>] = call[<<u, n, r>>]
            \/ /\ call[<<u, n, r>>] \notin {"absent", "completed"}
               /\ call'[<<u, n, r>>] # "absent"
      BY <1>4, <2>1 DEF Slot, Tried
    <3> QED
      BY <1>1, <1>5, <1>7, <3>1, BooksSettle DEF Known
  <2>3. Place(p)'
    BY <1>7 DEF Quiet, Busy, Place
  <2> QED
    BY <1>2, <2>2, <2>3 DEF BooksInv
<1> QED
  BY <1>3, <1>5, <1>6, <1>7 DEF Answers

(* The commands settle calls; a call that is resolved says what it says.   *)
LEMMA BooksCommand ==
  ASSUME ControlTypeOK, ControlTypeOK', BooksInv,
         \/ RequestPause \/ Takeover \/ Freeze \/ Cancel \/ ResolveCall \/ MarkActive \/ CommandCrash
  PROVE  /\ UNCHANGED <<task, attempt, closed, content, runner>>
         /\ \A t \in Task, r \in Role : Tried(t, r)' = Tried(t, r)
         /\ BooksInv'
<1>1. UNCHANGED <<task, attempt, closed, content, runner>>
  BY DEF RequestPause, Takeover, Freeze, Cancel, ResolveCall, MarkActive, CommandCrash, Command,
         taskVars, attemptVars
<1>2. ASSUME \A t \in Task : /\ Row(t)' /\ \A r \in Role : Tried(t, r)' = Tried(t, r),
             \A p \in Runner : At(p, "approve") =>
               /\ opinion'[runner[p].task] # "none"
               /\ Untouched => opinion'[runner[p].task] = "approve"
      PROVE  BooksInv' /\ \A t \in Task, r \in Role : Tried(t, r)' = Tried(t, r)
  <2>1. ASSUME NEW p \in Runner PROVE Place(p)'
    <3>1. Place(p) /\ runner[p].task \in Task /\ runner[p].role \in Role
      BY DEF BooksInv, ControlTypeOK, Process
    <3>2. /\ \A r \in Role : Tried(runner[p].task, r)' = Tried(runner[p].task, r)
          /\ Tried(runner[p].task, runner[p].role)' = Tried(runner[p].task, runner[p].role)
      BY <1>1, <1>2, <3>1 DEF Tried
    <3> QED
      BY <1>1, <1>2, <3>1, <3>2 DEF Place, At
  <2> QED
    BY <1>2, <2>1 DEF BooksInv
<1>3. CASE RequestPause \/ Takeover \/ Freeze \/ Cancel \/ CommandCrash
  <2>1. UNCHANGED <<call, opinion>>
    BY <1>3 DEF RequestPause, Takeover, Freeze, Cancel, CommandCrash, taskVars, attemptVars, callVars
  <2>2. ASSUME NEW t \in Task PROVE Row(t)' /\ \A r \in Role : Tried(t, r)' = Tried(t, r)
    BY <1>1, <2>1, BooksSettle DEF BooksInv
  <2> QED
    BY <1>1, <1>2, <2>1, <2>2 DEF BooksInv, Place, At
<1>4. CASE MarkActive
  <2>1. UNCHANGED opinion /\ \A k \in Slot : call'[k] = IF call[k] = "started" THEN "unknown" ELSE call[k]
    BY <1>4 DEF MarkActive, attemptVars
  <2>2. ASSUME NEW t \in Task PROVE Row(t)' /\ \A r \in Role : Tried(t, r)' = Tried(t, r)
    <3>1. \A n \in 1..MaxAttempt, r \in Role :
            \/ call'[<<t, n, r>>] = call[<<t, n, r>>]
            \/ /\ call[<<t, n, r>>] \notin {"absent", "completed"}
               /\ call'[<<t, n, r>>] # "absent"
      BY <2>1 DEF Slot
    <3> QED
      BY <1>1, <2>1, <3>1, BooksSettle DEF BooksInv
  <2> QED
    BY <1>1, <1>2, <2>1, <2>2 DEF BooksInv, Place, At
<1>5. CASE ResolveCall
  <2>1. PICK k \in Slot : /\ call[k] = "unknown" /\ call' = [call EXCEPT ![k] = "completed"]
                          /\ Said(k)
    BY <1>5 DEF ResolveCall, Calls
  <2>2. PICK u \in Task, n \in 1..MaxAttempt, role \in Role : k = <<u, n, role>>
    BY <2>1 DEF Slot
  <2>3. \A j \in Slot : call'[j] = IF j = k THEN "completed" ELSE call[j]
    BY <2>1 DEF ControlTypeOK
  <2>4. \/ UNCHANGED opinion
        \/ /\ role \in ReviewRole /\ n = attempt[u] /\ opinion'[u] # "none"
           /\ \A t \in Task : t # u => opinion'[t] = opinion[t]
    BY <2>1, <2>2 DEF Said, ControlTypeOK, Opinion
  <2>5. Untouched /\ role \in ReviewRole /\ n = attempt[u] => opinion[u] = "none"
    <3> SUFFICES ASSUME Untouched, role \in ReviewRole, n = attempt[u], opinion[u] # "none" PROVE FALSE
      OBVIOUS
    <3>1. Row(u) /\ Tried(u, role)
      BY <2>1, <2>2 DEF BooksInv, Tried
    <3>2. PICK other \in ReviewRole : call[<<u, n, other>>] = "completed"
      BY <3>1 DEF Row, Shape, Trust
    <3>3. Tried(u, other) /\ other # role
      BY <2>1, <2>2, <3>2 DEF Tried
    <3> QED
      BY <3>1, <3>3 DEF Row, Shape, Trust, ReviewRole
  <2>6. ASSUME NEW t \in Task PROVE Row(t)' /\ \A r \in Role : Tried(t, r)' = Tried(t, r)
    <3>1. \A m \in 1..MaxAttempt, r \in Role :
            \/ call'[<<t, m, r>>] = call[<<t, m, r>>]
            \/ /\ call[<<t, m, r>>] \notin {"absent", "completed"}
               /\ call'[<<t, m, r>>] # "absent"
      BY <2>1, <2>2, <2>3 DEF Slot
    <3>2. Row(t)
      BY DEF BooksInv
    <3>3. \/ opinion'[t] = opinion[t]
          \/ /\ opinion'[t] # "none" /\ (Untouched => task[t] # "approved")
             /\ attempt[t] >= 1
             /\ \E r \in ReviewRole : call'[<<t, attempt[t], r>>] = "completed"
      BY <2>1, <2>2, <2>3, <2>4, <2>5, <3>2 DEF Row, Shape, Trust
    <3> QED
      BY <1>1, <3>1, <3>2, <3>3, BooksSettle
  <2>7. \A t \in Task : /\ opinion[t] # "none" => opinion'[t] # "none"
                        /\ Untouched /\ opinion[t] = "approve" => opinion'[t] = "approve"
    BY <2>4, <2>5
  <2>8. \A p \in Runner : At(p, "approve") =>
          /\ opinion'[runner[p].task] # "none"
          /\ Untouched => opinion'[runner[p].task] = "approve"
    BY <2>7 DEF BooksInv, Place, At, ControlTypeOK, Process
  <2> QED
    BY <1>1, <1>2, <2>6, <2>7, <2>8
<1> QED
  BY <1>3, <1>4, <1>5

(* A reviewer that writes changes the worktree only.                       *)
LEMMA BooksWritten ==
  ASSUME ControlTypeOK, BooksInv, ReviewerWrites
  PROVE  /\ UNCHANGED <<task, attempt, closed, opinion, call, runner>> /\ ~Honest
         /\ \A t \in Task, r \in Role : Tried(t, r)' = Tried(t, r)
         /\ BooksInv'
<1>1. UNCHANGED <<task, attempt, closed, opinion, call, runner>> /\ ~Honest
  BY DEF ReviewerWrites, attemptVars, callVars, Honest
<1>2. ASSUME NEW t \in Task PROVE Row(t)' /\ \A r \in Role : Tried(t, r)' = Tried(t, r)
  <2>1. Row(t) /\ attempt[t] \in 0..MaxAttempt /\ MaxAttempt \in Nat
    BY ControlAssumption DEF BooksInv, ControlTypeOK
  <2>2. Shape(t)' /\ \A r \in Role : Tried(t, r)' = Tried(t, r)
    BY <1>1, <2>1, ShapeFrame DEF Row
  <2> QED
    BY <1>1, <2>1, <2>2 DEF Row, Trust, Role, ReviewRole, WriteRole
<1>3. ASSUME NEW p \in Runner PROVE Place(p)'
  <2>1. Place(p) /\ runner[p].task \in Task
    BY DEF BooksInv, ControlTypeOK, Process
  <2> QED
    BY <1>1, <2>1 DEF Place, Tried
<1> QED
  BY <1>1, <1>2, <1>3 DEF BooksInv

(* A resume after a takeover: what it invalidates goes back to be tested   *)
(* and reviewed in a new attempt.                                          *)
LEMMA BooksTakeover ==
  ASSUME Sole, ~Untouched, ControlTypeOK, ControlTypeOK', BooksInv, NEW p \in Runner,
         FindTakeoverChanges(p) \/ Invalidate(p) \/ Renew(p)
  PROVE  BooksInv'
<1>1. PICK t \in Task : Known(p, t)
  BY KnownHere
<1>2. \A q \in Runner : q = p
  BY KnownHere
<1>3. call' = call
  BY DEF FindTakeoverChanges, Invalidate, Renew, callVars
<1>4. /\ runner[p] \in Process /\ p \in DOMAIN runner
      /\ \A u \in Task : Row(u) /\ attempt[u] \in 0..MaxAttempt
  BY <1>1 DEF ControlTypeOK, Known
<1>5. CASE FindTakeoverChanges(p)
  <2>1. UNCHANGED <<task, attempt, closed, opinion>> /\ At(p, "takeover")
    BY <1>5 DEF FindTakeoverChanges, attemptVars
  <2>2. \A u \in Task : Row(u)'
    BY <1>1, <1>3, <1>4, <2>1, ShapeFrame DEF Known, Row
  <2>3. runner'[p].pc = "invalidate"
    <3>1. PICK hit : runner' = [runner EXCEPT ![p].pc = "invalidate", ![p].todo = hit]
      BY <1>5 DEF FindTakeoverChanges
    <3> QED
      BY <1>4, <3>1 DEF Process
  <2>4. Place(p)'
    BY <2>3 DEF Place
  <2> QED
    BY <1>2, <2>2, <2>4 DEF BooksInv
<1>6. CASE Invalidate(p)
  <2>1. UNCHANGED <<attempt, closed, opinion>> /\ At(p, "invalidate")
    BY <1>6 DEF Invalidate, attemptVars
  <2>2. CASE UNCHANGED task /\ (Goto(p, "resuming") \/ Exit(p))
    <3>1. \A u \in Task : Row(u)'
      <4>1. UNCHANGED <<task, attempt, opinion, call>>
        BY <1>3, <2>1, <2>2
      <4> QED
        BY <1>1, <1>4, <4>1, ShapeFrame DEF Known, Row
    <3>2. Quiet(p)
      BY <2>2, Moving DEF Quiet, Moved, Busy
    <3>3. Place(p)'
      BY <3>2 DEF Quiet, Busy, Place
    <3> QED
      BY <1>2, <3>1, <3>3 DEF BooksInv
  <2>3. ASSUME NEW u \in Task, InvalidateTask(p, u) PROVE BooksInv'
    <3>1. /\ task[u] = "approved" /\ attempt[u] >= 1
          /\ task'[u] \in {"self_testing", "failed"}
          /\ \A v \in Task : v # u => task'[v] = task[v]
      BY <1>4, <2>3 DEF InvalidateTask, Row, Shape, ControlTypeOK
    <3>2. \A v \in Task : Row(v)'
      BY <1>3, <1>4, <2>1, <3>1 DEF Row, Shape, Tried
    <3>3. Place(p)'
      <4>1. CASE /\ task' = [task EXCEPT ![u] = "self_testing"]
                 /\ runner' = [runner EXCEPT ![p].pc = "renew", ![p].task = u]
        <5>1. runner'[p].pc = "renew" /\ runner'[p].task = u /\ task'[u] = "self_testing"
          BY <1>4, <4>1 DEF Process, ControlTypeOK
        <5> QED
          BY <5>1 DEF Place
      <4>2. CASE runner' = [runner EXCEPT ![p].todo = @ \ {u}]
        <5>1. runner'[p].pc = "invalidate"
          BY <1>4, <2>1, <4>2 DEF Process, At
        <5> QED
          BY <5>1 DEF Place
      <4> QED
        BY <2>3, <4>1, <4>2 DEF InvalidateTask
    <3> QED
      BY <1>2, <3>2, <3>3 DEF BooksInv
  <2> QED
    BY <1>6, <2>2, <2>3 DEF Invalidate
<1>7. CASE Renew(p)
  <2>1. /\ attempt' = [attempt EXCEPT ![t] = @ + 1] /\ opinion' = [opinion EXCEPT ![t] = "none"]
        /\ UNCHANGED task /\ task[t] = "self_testing"
    BY <1>1, <1>7 DEF Renew, NewAttempt, Known, Place, At
  <2>2. attempt'[t] = attempt[t] + 1 /\ attempt'[t] \in 1..MaxAttempt /\ opinion'[t] = "none"
    BY <1>4, <2>1 DEF ControlTypeOK
  <2>3. \A u \in Task : u # t => attempt'[u] = attempt[u] /\ opinion'[u] = opinion[u]
    BY <2>1 DEF ControlTypeOK
  <2>4. \A role \in Role : ~Tried(t, role)'
    <3>1. \A role \in Role : call[<<t, attempt'[t], role>>] = "absent"
      BY <1>4, <2>2 DEF Row, Shape
    <3> QED
      BY <1>3, <3>1 DEF Tried
  <2>5. Row(t)'
    <3>1. \A n \in 1..MaxAttempt : \A role \in Role : n > attempt'[t] => call'[<<t, n, role>>] = "absent"
      BY <1>3, <1>4, <2>2 DEF Row, Shape
    <3> QED
      BY <2>1, <2>2, <2>4, <3>1 DEF Row, Shape, Role, WriteRole, ReviewRole
  <2>6. \A u \in Task : u # t => Row(u)'
    BY <1>3, <1>4, <2>1, <2>3 DEF Row, Shape, Tried
  <2>7. runner'[p].pc = "invalidate"
    BY <1>4, <1>7 DEF Renew, Process
  <2>8. Place(p)'
    BY <2>7 DEF Place
  <2> QED
    BY <1>2, <2>5, <2>6, <2>8 DEF BooksInv
<1> QED
  BY <1>5, <1>6, <1>7

(* A process at one of the places of a takeover does its step or dies.     *)
LEMMA TakeoverStrides ==
  ASSUME ControlTypeOK, NEW p \in Runner, runner[p].pc \in {"takeover", "invalidate", "renew"},
         Launch(p) \/ ResumeStep(p) \/ ExecuteStep(p) \/ Crash(p)
  PROVE  \/ FindTakeoverChanges(p) \/ Invalidate(p) \/ Renew(p)
         \/ UNCHANGED books /\ Quiet(p)
<1>1. CASE ResumeStep(p)
  BY <1>1 DEF ResumeStep, CheckCalls, RestoreResolved, ToRunning, At
<1>2. CASE Crash(p)
  BY <1>2, Moving DEF Crash, books, taskVars, attemptVars, callVars
<1>3. ~Launch(p) /\ ~ExecuteStep(p)
  BY DEF Launch, ExecuteStep, PauseIfRequested, SafePauseRead, SafePauseWrite, Step, Promote,
         Prevented, BeginCall, Answer, Driven, Test, Compare, Verdict, Settle, HandleTask, GenericHandler,
         After, Finish, FinalizeRun, At
<1> QED
  BY <1>1, <1>2, <1>3

\* Of a run that cannot be taken over the order of the tasks is known too.
OrderKept == Untouched => OrderInv

(* The books are kept by every step.                                       *)
LEMMA BooksStep ==
  ASSUME Sole, ControlTypeOK, ControlTypeOK', OrderKept, BooksInv, [Next]_vars
  PROVE  BooksInv'
<1>1. ASSUME NEW p \in Runner, Launch(p) \/ ResumeStep(p) \/ ExecuteStep(p) \/ Crash(p)
      PROVE  BooksInv'
  <2>1. CASE runner[p].pc \notin {"takeover", "invalidate", "renew"}
    <3>1. Stride(p)
      BY <1>1, <2>1, Strides
    <3> QED
      BY <3>1, BooksOpen, BooksEnter, BooksAdvance, BooksClose, BooksBegin, BooksAnswer DEF Stride
  <2>2. CASE runner[p].pc \in {"takeover", "invalidate", "renew"}
    <3>1. ~Untouched
      BY <2>2 DEF OrderKept, OrderInv, NoTakeover
    <3> QED
      BY <1>1, <2>2, <3>1, TakeoverStrides, BooksTakeover, BooksEnter
  <2> QED
    BY <2>1, <2>2
<1>2. CASE UNCHANGED vars
  <2>1. \A t \in Task : Row(t)'
    BY <1>2, RowFrame, ControlAssumption DEF vars, BooksInv, ControlTypeOK
  <2>2. \A p \in Runner : Place(p)'
    BY <1>2 DEF vars, BooksInv, Place, Tried
  <2> QED
    BY <2>1, <2>2 DEF BooksInv
<1> QED
  BY <1>1, <1>2, BooksCommand, BooksWritten DEF Next

(* It is known always.                                                     *)
LEMMA OrderIfUntouched ==
  ASSUME Sole
  PROVE  Spec => []OrderKept
<1>1. CASE Untouched
  <2>1. Spec => []OrderInv
    BY <1>1, OrderInvariant DEF Untouched
  <2>2. OrderInv => OrderKept
    BY DEF OrderKept
  <2> QED
    BY <2>1, <2>2, PTL
<1>2. CASE ~Untouched
  <2>1. OrderKept
    BY <1>2 DEF OrderKept
  <2> QED
    BY <2>1, PTL
<1> QED
  BY <1>1, <1>2

\* The books are always kept.
LEMMA BooksInvariant ==
  ASSUME Sole
  PROVE  Spec => []BooksInv
<1>1. Init => BooksInv
  <2> SUFFICES ASSUME Init PROVE BooksInv
    OBVIOUS
  <2>1. \A p \in Runner : runner[p].pc \in {"gate", "off"}
    BY DEF Init, Off
  <2>2. \A t \in Task : /\ task[t] = "draft" /\ attempt[t] = 0 /\ opinion[t] = "none"
                        /\ \A r \in Role : ~Tried(t, r)
    BY DEF Init, Tried
  <2>3. \A t \in Task, n \in 1..MaxAttempt, r \in Role : call[<<t, n, r>>] = "absent"
    BY DEF Init, Slot
  <2>4. \A t \in Task : Row(t)
    BY <2>2, <2>3 DEF Row, Shape, Trust, Role, WriteRole, ReviewRole
  <2> QED
    BY <2>1, <2>4 DEF BooksInv, Place
<1>2. /\ RunInv /\ ControlTypeOK /\ (RunInv /\ ControlTypeOK)'
      /\ OrderKept /\ BooksInv /\ [Next]_vars
      => BooksInv'
  BY BooksStep
<1> QED
  BY <1>1, <1>2, ControlInvariant, OrderIfUntouched, PTL DEF Spec

-----------------------------------------------------------------------------
(* Approvals and takeovers.                                                *)

\* A process that has an approval in hand and acts on it.
Minded(t) == \E p \in Runner :
  /\ runner[p].task = t
  /\ runner[p].pc \in {"answered", "reviewed", "approve", "refuse", "violated", "renew"}

\* An approval is acted on at once: a task whose latest review approves is approved or
\* failed, or a process is about to see to it.
Acted(t) ==
  /\ opinion[t] = "approve" => task[t] \in {"approved", "failed"} \/ Minded(t)
  /\ task[t] = "approved" => content[t] # "unseen" /\ opinion[t] = "approve"

\* What the review in hand was shown is still in the worktree, once that has been
\* looked at.
Fresh(p) ==
  LET t == runner[p].task IN
  /\ At(p, "reviewed") /\ opinion[t] = "approve" => content[t] = "shown"
  /\ At(p, "approve") => content[t] = "shown" /\ opinion[t] = "approve"
  /\ At(p, "violated") /\ opinion[t] = "approve" =>
       task[t] \in {"waiting_review", "waiting_rereview", "approved", "failed"}

UpheldInv == (\A t \in Task : Acted(t)) /\ (\A p \in Runner : Fresh(p))

\* What is known at the step of a process.
Upheld(p, t) ==
  /\ Known(p, t) /\ \A q \in Runner : q = p
  /\ runner[p] \in Process /\ p \in DOMAIN runner
  /\ \A u \in Task : Acted(u) /\ (Minded(u) => u = t)
  /\ Fresh(p)

(* No other process has an approval in hand.                               *)
LEMMA UpheldHere ==
  ASSUME Sole, ControlTypeOK, BooksInv, UpheldInv, NEW p \in Runner
  PROVE  \E t \in Task : Upheld(p, t)
<1>1. PICK t \in Task : Known(p, t)
  BY KnownHere
<1>2. \A q \in Runner : q = p
  BY KnownHere
<1>3. \A u \in Task : Minded(u) => u = t
  BY <1>1, <1>2 DEF Minded, Known
<1> QED
  BY <1>1, <1>2, <1>3 DEF Upheld, UpheldInv, ControlTypeOK

\* The process has no approval in hand.
Idle(p) == runner[p].pc \notin {"answered", "reviewed", "approve", "refuse", "violated", "renew"}

(* Then the approvals are all acted on.                                    *)
LEMMA AllActed ==
  ASSUME NEW p \in Runner, NEW t \in Task, Upheld(p, t), Idle(p)
  PROVE  \A u \in Task : /\ opinion[u] = "approve" => task[u] \in {"approved", "failed"}
                         /\ task[u] = "approved" => content[u] # "unseen" /\ opinion[u] = "approve"
<1>1. \A u \in Task : ~Minded(u)
  BY DEF Upheld, Minded, Idle
<1> QED
  BY <1>1 DEF Upheld, Acted

(* A process without an approval in hand, away from a takeover.            *)
LEMMA UpheldStride ==
  ASSUME Sole, ControlTypeOK, ControlTypeOK', BooksInv, UpheldInv, NEW p \in Runner,
         Idle(p), Stride(p)
  PROVE  UpheldInv'
<1>1. PICK t \in Task : Upheld(p, t)
  BY UpheldHere
<1>2. /\ Known(p, t) /\ \A q \in Runner : q = p
      /\ t = runner[p].task /\ Place(p) /\ runner[p].role \in Role /\ Fresh(p)
  BY <1>1 DEF Upheld, Known
<1>3. \A u \in Task : /\ opinion[u] = "approve" => task[u] \in {"approved", "failed"}
                      /\ task[u] = "approved" => content[u] # "unseen" /\ opinion[u] = "approve"
  BY <1>1, AllActed
<1>4. ASSUME \A u \in Task : /\ opinion'[u] = "approve" => task'[u] \in {"approved", "failed"}
                             /\ task'[u] = "approved" => content'[u] # "unseen" /\ opinion'[u] = "approve",
             runner'[p].pc \notin {"reviewed", "approve"}
      PROVE  UpheldInv'
  <2>1. \A u \in Task : Acted(u)'
    BY <1>4 DEF Acted
  <2>2. Fresh(p)'
    <3>1. PICK v \in Task : v = runner'[p].task
      BY DEF ControlTypeOK, Process
    <3> QED
      BY <1>4, <3>1 DEF Fresh, At
  <2> QED
    BY <1>2, <2>1, <2>2 DEF UpheldInv
<1>5. CASE UNCHANGED books /\ Quiet(p)
  BY <1>3, <1>4, <1>5 DEF books, Quiet, Busy
<1>6. CASE Opens(p)
  <2>1. /\ opinion' = [opinion EXCEPT ![t] = "none"] /\ UNCHANGED <<task, content>>
        /\ runner'[p].pc = "begin" /\ task[t] \in {"running", "revising"}
    BY <1>2, <1>6 DEF Opens, NewAttempt, Moved, Wanted, WriteRole, Place, At
  <2>2. opinion'[t] = "none" /\ \A u \in Task : u # t => opinion'[u] = opinion[u]
    BY <2>1 DEF ControlTypeOK
  <2> QED
    BY <1>3, <1>4, <2>1, <2>2
<1>7. CASE Enters(p)
  <2>1. UNCHANGED books
    BY <1>7 DEF Enters
  <2>2. CASE runner'[p].pc \notin {"reviewed", "approve"}
    BY <1>3, <1>4, <2>1, <2>2 DEF books
  <2>3. CASE At(p, "begin") /\ Moved(p, Reused(p), runner[p].role)
    <3>1. task[t] = Wanted[runner[p].role]
      BY <1>2, <2>3 DEF Place, At
    <3>2. opinion[t] # "approve"
      BY <1>2, <1>3, <3>1 DEF Wanted, Role, WriteRole, ReviewRole
    <3>3. Fresh(p)'
      BY <1>2, <2>1, <2>3, <3>2 DEF Fresh, Moved, Reused, At, books
    <3>4. \A u \in Task : Acted(u)'
      BY <1>3, <2>1 DEF Acted, books
    <3> QED
      BY <1>2, <3>3, <3>4 DEF UpheldInv
  <2> QED
    BY <1>7, <2>2, <2>3 DEF Enters, Moved, Idle, At
<1>8. CASE Promotes(p)
  <2>1. PICK target \in {"waiting_authorization", "queued", "running"} :
          task' = [task EXCEPT ![t] = target]
    BY <1>2, <1>8 DEF Promotes
  <2>2. /\ task'[t] = target /\ \A u \in Task : u # t => task'[u] = task[u]
        /\ UNCHANGED <<opinion, content>> /\ At(p, "promote")
        /\ runner'[p].pc \notin {"reviewed", "approve"}
    BY <1>8, <2>1 DEF Promotes, ControlTypeOK, Moved, Quiet, Busy
  <2>3. opinion[t] # "approve"
    BY <1>2, <1>3, <2>2 DEF Place, At
  <2> QED
    BY <1>3, <1>4, <2>2, <2>3
<1>9. CASE Begins(p)
  <2>1. /\ task[t] = Wanted[runner[p].role] /\ UNCHANGED <<task, opinion>>
        /\ content' = [content EXCEPT ![t] = IF runner[p].role \in WriteRole THEN "unseen" ELSE "shown"]
        /\ Moved(p, "calling", runner[p].role)
    BY <1>2, <1>9 DEF Begins, Place, At
  <2>2. task[t] # "approved" /\ \A u \in Task : u # t => content'[u] = content[u]
    BY <1>2, <2>1 DEF Wanted, Role, WriteRole, ReviewRole, ControlTypeOK
  <2>3. \A u \in Task : Acted(u)'
    BY <1>3, <2>1, <2>2 DEF Acted
  <2>4. Fresh(p)'
    BY <2>1 DEF Fresh, Moved, At
  <2> QED
    BY <1>2, <2>3, <2>4 DEF UpheldInv
<1>10. CASE Answers(p)
  <2>1. /\ UNCHANGED <<task, content>> /\ At(p, "calling") /\ task[t] = Wanted[runner[p].role]
    BY <1>2, <1>10 DEF Answers, Place, At
  <2>2. task[t] \notin {"approved", "failed"}
    BY <1>2, <2>1 DEF Wanted, Role, WriteRole, ReviewRole
  <2>3. CASE UNCHANGED opinion /\ Quiet(p)
    BY <1>3, <1>4, <2>1, <2>3 DEF Quiet, Busy
  <2>4. CASE Said(CallOf(p)) /\ Moved(p, Answered(p), runner[p].role)
    <3>1. CASE runner[p].role \in WriteRole
      <4>1. UNCHANGED opinion /\ runner'[p].pc = "driven"
        BY <2>4, <3>1 DEF Said, CallOf, Moved, Answered, WriteRole, ReviewRole
      <4> QED
        BY <1>3, <1>4, <2>1, <4>1
    <3>2. CASE runner[p].role \in ReviewRole
      <4>1. /\ \A u \in Task : u # t => opinion'[u] = opinion[u]
            /\ runner'[p].pc = "answered" /\ runner'[p].task = t
        BY <1>2, <2>1, <2>4, <3>2 DEF Said, CallOf, Moved, Answered, WriteRole, ReviewRole,
           ControlTypeOK
      <4>2. Minded(t)'
        BY <4>1 DEF Minded
      <4>3. \A u \in Task : Acted(u)'
        BY <1>3, <2>1, <2>2, <4>1, <4>2 DEF Acted
      <4>4. Fresh(p)'
        BY <4>1 DEF Fresh, At
      <4> QED
        BY <1>2, <4>3, <4>4 DEF UpheldInv
    <3> QED
      BY <1>2, <3>1, <3>2 DEF Role
  <2> QED
    BY <1>10, <2>3, <2>4 DEF Answers
<1>11. CASE Advances(p)
  <2>1. PICK target :
          /\ task' = [task EXCEPT ![t] = target]
          /\ \/ At(p, "driven") /\ target \in {"self_testing", "waiting_rereview"}
             \/ At(p, "testing") /\ target \in {"waiting_review", "revising"}
             \/ target \in {"failed", task[t]}
             \/ /\ target \in {"authorization_required", "waiting_input"}
                /\ task[t] \in {"running", "revising", "waiting_review", "waiting_rereview"}
    BY <1>2, <1>11 DEF Advances, Idle, At
  <2>2. /\ task'[t] = target /\ \A u \in Task : u # t => task'[u] = task[u]
        /\ UNCHANGED <<opinion, content>> /\ runner'[p].pc \notin {"reviewed", "approve"}
    BY <1>11, <2>1 DEF Advances, ControlTypeOK, Quiet, Busy
  <2>3. At(p, "driven") \/ At(p, "testing") => task[t] \notin {"approved", "failed"}
    BY <1>2 DEF Place, At, Wanted, Role, WriteRole, ReviewRole
  <2> QED
    BY <1>3, <1>4, <2>1, <2>2, <2>3
<1>12. CASE Closes(p)
  <2>1. /\ UNCHANGED <<task, opinion, content>>
        /\ runner'[p].pc \notin {"reviewed", "approve"}
    BY <1>12 DEF Closes, Idle, At, Moved, Quiet, Busy
  <2> QED
    BY <1>3, <1>4, <2>1
<1>13. CASE Reopens(p)
  <2>1. PICK u \in Task : task[u] = "waiting_input" /\ task' = [task EXCEPT ![u] = "running"]
    BY <1>13 DEF Reopens, Resolved
  <2>2. /\ task'[u] = "running" /\ \A v \in Task : v # u => task'[v] = task[v]
        /\ UNCHANGED <<opinion, content>> /\ runner'[p].pc \notin {"reviewed", "approve"}
    BY <1>13, <2>1 DEF Reopens, ControlTypeOK, Quiet, Busy
  <2> QED
    BY <1>3, <1>4, <2>1, <2>2
<1> QED
  BY <1>5, <1>6, <1>7, <1>8, <1>9, <1>10, <1>11, <1>12, <1>13 DEF Stride

(* A resume after a takeover: what it finds edited it invalidates, and the *)
(* opinion on it goes with the old attempt.                                *)
LEMMA UpheldTakeover ==
  ASSUME Sole, ControlTypeOK, ControlTypeOK', BooksInv, UpheldInv, NEW p \in Runner,
         FindTakeoverChanges(p) \/ Invalidate(p) \/ Renew(p)
  PROVE  UpheldInv'
<1>1. PICK t \in Task : Upheld(p, t)
  BY UpheldHere
<1>2. /\ \A q \in Runner : q = p
      /\ t = runner[p].task /\ runner[p] \in Process /\ p \in DOMAIN runner
      /\ \A u \in Task : Acted(u) /\ (Minded(u) => u = t)
  BY <1>1 DEF Upheld, Known
<1>3. CASE FindTakeoverChanges(p)
  <2>1. Idle(p) /\ UNCHANGED <<task, opinion>>
    BY <1>3 DEF FindTakeoverChanges, Idle, At, attemptVars
  <2>2. \A u \in Task : content'[u] = content[u] \/ (task[u] = "approved" => content'[u] = "edited")
    BY <1>3 DEF FindTakeoverChanges, Touched
  <2>3. \A u \in Task : Acted(u)'
    BY <1>1, <2>1, <2>2, AllActed DEF Acted
  <2>4. runner'[p].pc = "invalidate"
    <3>1. PICK hit : runner' = [runner EXCEPT ![p].pc = "invalidate", ![p].todo = hit]
      BY <1>3 DEF FindTakeoverChanges
    <3> QED
      BY <1>2, <3>1 DEF Process
  <2>5. Fresh(p)'
    BY <2>4 DEF Fresh, At
  <2> QED
    BY <1>2, <2>3, <2>5 DEF UpheldInv
<1>4. CASE Invalidate(p)
  <2>1. Idle(p) /\ UNCHANGED opinion /\ At(p, "invalidate")
    BY <1>4 DEF Invalidate, Idle, At, attemptVars
  <2>2. \A u \in Task : /\ opinion[u] = "approve" => task[u] \in {"approved", "failed"}
                        /\ task[u] = "approved" => content[u] # "unseen" /\ opinion[u] = "approve"
    BY <1>1, <2>1, AllActed
  <2>3. CASE UNCHANGED <<task, content>> /\ (Goto(p, "resuming") \/ Exit(p))
    <3>1. \A u \in Task : Acted(u)'
      BY <2>1, <2>2, <2>3 DEF Acted
    <3>2. runner'[p].pc \in {"resuming", "off"}
      BY <1>2, <2>3 DEF Goto, Exit, Off, Process
    <3>3. Fresh(p)'
      BY <3>2 DEF Fresh, At
    <3> QED
      BY <1>2, <3>1, <3>3 DEF UpheldInv
  <2>4. ASSUME NEW u \in Task, InvalidateTask(p, u) PROVE UpheldInv'
    <3>1. /\ task'[u] \in {"self_testing", "failed"}
          /\ \A v \in Task : v # u => task'[v] = task[v] /\ content'[v] = content[v]
      BY <2>4 DEF InvalidateTask, ControlTypeOK
    <3>2. CASE /\ task' = [task EXCEPT ![u] = "self_testing"]
               /\ runner' = [runner EXCEPT ![p].pc = "renew", ![p].task = u]
      <4>1. runner'[p].pc = "renew" /\ runner'[p].task = u
        BY <1>2, <3>2 DEF Process
      <4>2. Minded(u)' /\ Fresh(p)'
        BY <4>1 DEF Minded, Fresh, At
      <4>3. \A v \in Task : Acted(v)'
        BY <2>1, <2>2, <3>1, <4>2 DEF Acted
      <4> QED
        BY <1>2, <4>2, <4>3 DEF UpheldInv
    <3>3. CASE /\ task' = [task EXCEPT ![u] = "failed"]
               /\ runner' = [runner EXCEPT ![p].todo = @ \ {u}]
      <4>1. runner'[p].pc = "invalidate" /\ task'[u] = "failed"
        BY <1>2, <2>1, <3>3 DEF Process, At, ControlTypeOK
      <4>2. \A v \in Task : Acted(v)'
        BY <2>1, <2>2, <3>1, <4>1 DEF Acted
      <4>3. Fresh(p)'
        BY <4>1 DEF Fresh, At
      <4> QED
        BY <1>2, <4>2, <4>3 DEF UpheldInv
    <3> QED
      BY <2>4, <3>2, <3>3 DEF InvalidateTask
  <2> QED
    BY <1>4, <2>3, <2>4 DEF Invalidate
<1>5. CASE Renew(p)
  <2>1. /\ opinion' = [opinion EXCEPT ![t] = "none"] /\ UNCHANGED <<task, content>>
        /\ task[t] = "self_testing"
    BY <1>1, <1>2, <1>5 DEF Renew, NewAttempt, Upheld, Known, Place, At
  <2>2. opinion'[t] = "none" /\ \A u \in Task : u # t => opinion'[u] = opinion[u]
    BY <2>1 DEF ControlTypeOK
  <2>3. \A u \in Task : Acted(u)'
    BY <1>2, <2>1, <2>2 DEF Acted
  <2>4. runner'[p].pc = "invalidate"
    BY <1>2, <1>5 DEF Renew, Process
  <2>5. Fresh(p)'
    BY <2>4 DEF Fresh, At
  <2> QED
    BY <1>2, <2>3, <2>5 DEF UpheldInv
<1> QED
  BY <1>3, <1>4, <1>5

(* Where an approval goes: a task under review can be approved, and every  *)
(* task that is refused can fail.                                          *)
LEMMA ReviewEnds ==
  /\ \A s \in {"waiting_review", "waiting_rereview"} : {"approved", "failed"} \subseteq TaskTransitions[s]
  /\ \A s \in {"running", "revising", "self_testing"} : "failed" \in TaskTransitions[s]
  BY DEF TaskTransitions, TaskStates

(* A process with an approval in hand acts on it.                          *)
LEMMA UpheldHand ==
  ASSUME Sole, ControlTypeOK, ControlTypeOK', BooksInv, UpheldInv, NEW p \in Runner,
         runner[p].pc \in {"answered", "reviewed", "approve", "refuse", "violated"}, ExecuteStep(p)
  PROVE  UpheldInv'
<1>1. PICK t \in Task : Upheld(p, t)
  BY UpheldHere
<1>2. /\ \A q \in Runner : q = p
      /\ t = runner[p].task /\ runner[p] \in Process /\ p \in DOMAIN runner
      /\ \A u \in Task : Acted(u) /\ (Minded(u) => u = t)
      /\ Place(p) /\ runner[p].role \in Role /\ Fresh(p)
  BY <1>1 DEF Upheld, Known
<1>3. /\ Compare(p) \/ Verdict(p) \/ Settle(p) \/ HandleTask(p)
      /\ UNCHANGED <<content, opinion>>
  <2>1. Compare(p) \/ Verdict(p) \/ Settle(p) \/ HandleTask(p)
    BY DEF ExecuteStep, PauseIfRequested, SafePauseRead, SafePauseWrite, Step, Promote,
           Prevented, BeginCall, Answer, Driven, Test, GenericHandler, After, Finish, FinalizeRun, At
  <2> QED
    BY <2>1 DEF Compare, Verdict, Settle, HandleTask, NewAttempt, taskVars, attemptVars, At
\* The other tasks: nothing is said of them, and they stay as they are.
<1>4. ASSUME \A u \in Task : u # t => task'[u] = task[u],
             \/ opinion[t] # "approve"
             \/ task'[t] \in {"approved", "failed"}
             \/ Minded(t)',
             task'[t] = "approved" => content[t] # "unseen" /\ opinion[t] = "approve",
             Fresh(p)'
      PROVE  UpheldInv'
  <2>1. \A u \in Task : u # t => Acted(u)'
    BY <1>2, <1>3, <1>4 DEF Acted
  <2>2. Acted(t)'
    BY <1>3, <1>4 DEF Acted
  <2> QED
    BY <1>2, <1>4, <2>1, <2>2 DEF UpheldInv
<1>5. ASSUME Quiet(p), runner'[p].pc # "violated" PROVE Fresh(p)'
  BY <1>5 DEF Quiet, Busy, Fresh, At
<1>10. CASE At(p, "answered")
  <2>1. Compare(p) /\ UNCHANGED task
    BY <1>3, <1>10 DEF Compare, Verdict, Settle, HandleTask, At, taskVars
  <2>2. task[t] \in {"waiting_review", "waiting_rereview"}
    BY <1>2, <1>10 DEF Place, At, Wanted, ReviewRole
  <2>3. \/ Moved(p, "reviewed", runner[p].role) /\ content[t] = "shown"
        \/ Moved(p, "violated", runner[p].role)
    BY <1>2, <2>1, Moving DEF Compare
  <2>4. Minded(t)'
    BY <1>2, <2>3 DEF Minded, Moved
  <2>5. Fresh(p)'
    BY <1>2, <1>3, <2>1, <2>2, <2>3 DEF Fresh, Moved, At
  <2> QED
    BY <1>4, <2>1, <2>2, <2>4, <2>5
<1>6. CASE At(p, "reviewed")
  <2>1. Verdict(p)
    BY <1>3, <1>6 DEF Compare, Settle, HandleTask, At
  <2>2. task[t] \in {"waiting_review", "waiting_rereview"}
    BY <1>2, <1>6 DEF Place, At, Wanted, ReviewRole
  <2>3. ASSUME NEW pc \in {"approve", "refuse"}, UNCHANGED task,
               Moved(p, pc, runner[p].role), pc = "approve" => opinion[t] = "approve"
        PROVE  UpheldInv'
    <3>1. Minded(t)'
      BY <1>2, <2>3 DEF Minded, Moved
    <3>2. Fresh(p)'
      BY <1>2, <1>3, <1>6, <2>2, <2>3 DEF Fresh, Moved, At
    <3> QED
      BY <1>4, <2>2, <2>3, <3>1, <3>2
  <2>4. ASSUME opinion[t] # "approve", UNCHANGED task, NEW pc \in {"reject", "pause_read"},
               Moved(p, pc, runner[p].role)
        PROVE  UpheldInv'
    <3>1. Fresh(p)'
      BY <2>4 DEF Fresh, Moved, At
    <3> QED
      BY <1>4, <2>2, <2>4, <3>1
  <2>5. CASE opinion[t] # "approve" /\ TaskStep(p, "revising", "ingate")
    <3>1. \/ task' = [task EXCEPT ![t] = "revising"] /\ Moved(p, "ingate", runner[p].role)
          \/ UNCHANGED task /\ Quiet(p) /\ runner'[p].pc # "violated"
      <4>1. CASE MoveTask(t, "revising") /\ Goto(p, "ingate")
        BY <1>2, <4>1, Moving DEF MoveTask
      <4>2. CASE CannotMove(p, "revising")
        BY <1>2, <4>2, Moving, Raising DEF CannotMove
      <4> QED
        BY <1>2, <2>5, <4>1, <4>2 DEF TaskStep
    <3>2. Fresh(p)'
      BY <1>5, <3>1 DEF Moved, Quiet, Busy
    <3>3. task'[t] # "approved" /\ \A u \in Task : u # t => task'[u] = task[u]
      BY <2>2, <3>1 DEF ControlTypeOK
    <3> QED
      BY <1>4, <2>5, <3>2, <3>3
  <2> QED
    BY <1>2, <2>1, <2>3, <2>4, <2>5, Moving DEF Verdict, Close, Approves
<1>7. CASE At(p, "approve")
  <2>1. TaskStep(p, "approved", "ingate")
    BY <1>3, <1>7 DEF Compare, Verdict, Settle, HandleTask, At
  <2>2. task' = [task EXCEPT ![t] = "approved"] /\ Moved(p, "ingate", runner[p].role)
    <3>1. "approved" \in TaskTransitions[task[t]]
      BY <1>2, <1>7, ReviewEnds DEF Place, At
    <3> QED
      BY <1>2, <2>1, <3>1, Moving DEF TaskStep, MoveTask, CannotMove
  <2>3. task'[t] = "approved" /\ \A u \in Task : u # t => task'[u] = task[u]
    BY <2>2 DEF ControlTypeOK
  <2>4. Fresh(p)'
    BY <2>2 DEF Moved, Fresh, At
  <2>5. content[t] = "shown" /\ opinion[t] = "approve"
    BY <1>2, <1>7 DEF Fresh
  <2> QED
    BY <1>4, <2>3, <2>4, <2>5
<1>8. CASE At(p, "refuse")
  <2>1. FailTask(p)
    BY <1>3, <1>8 DEF Compare, Verdict, Settle, HandleTask, At
  <2>2. task' = [task EXCEPT ![t] = "failed"] /\ Quiet(p) /\ runner'[p].pc # "violated"
    <3>1. "failed" \in TaskTransitions[task[t]]
      BY <1>2, <1>8, ReviewEnds DEF Place, At
    <3> QED
      BY <1>2, <2>1, <3>1, Moving, Raising DEF FailTask, MoveTask, CannotMove
  <2>3. task'[t] = "failed" /\ \A u \in Task : u # t => task'[u] = task[u]
    BY <2>2 DEF ControlTypeOK
  <2> QED
    BY <1>4, <1>5, <2>2, <2>3
<1>9. CASE At(p, "violated")
  <2>1. \/ MoveTask(t, "failed") /\ FinalizeAs(p, "failed")
        \/ CannotMove(p, "failed")
    BY <1>2, <1>3, <1>9 DEF Compare, Verdict, Settle, HandleTask, At
  <2>2. Quiet(p) /\ runner'[p].pc # "violated"
    BY <1>2, <2>1, Moving, Raising DEF CannotMove
  <2>3. CASE task' = [task EXCEPT ![t] = "failed"]
    <3>1. task'[t] = "failed" /\ \A u \in Task : u # t => task'[u] = task[u]
      BY <2>3 DEF ControlTypeOK
    <3> QED
      BY <1>4, <1>5, <2>2, <3>1
  <2>4. CASE UNCHANGED task /\ "failed" \notin TaskTransitions[task[t]]
    <3>1. opinion[t] = "approve" => task[t] \in {"approved", "failed"}
      BY <1>2, <1>9, <2>4, ReviewEnds DEF Fresh
    <3>2. task[t] = "approved" => content[t] # "unseen" /\ opinion[t] = "approve"
      BY <1>2 DEF Acted
    <3> QED
      BY <1>4, <1>5, <2>2, <2>4, <3>1, <3>2
  <2> QED
    BY <1>2, <2>1, <2>3, <2>4 DEF MoveTask, CannotMove
<1> QED
  BY <1>6, <1>7, <1>8, <1>9, <1>10 DEF At

(* A write of the reviewer falls in the call its process waits for, before *)
(* the worktree is looked at.                                              *)
LEMMA UpheldWritten ==
  ASSUME Sole, ControlTypeOK, BooksInv, UpheldInv, Held, ReviewerWrites
  PROVE  UpheldInv'
<1>1. UNCHANGED <<task, opinion, call, runner>>
  BY DEF ReviewerWrites, attemptVars, callVars
<1>2. PICK k \in Calls("started") : content' = [content EXCEPT ![k[1]] = Touched(k[1])]
  BY DEF ReviewerWrites
<1>3. PICK p \in Runner : At(p, "calling") /\ CallOf(p) = k
  BY <1>2 DEF Held
<1>4. /\ k[1] = runner[p].task /\ k[1] \in Task /\ runner[p].role \in Role /\ Place(p)
      /\ \A q \in Runner : q = p
  BY <1>3 DEF CallOf, ControlTypeOK, Process, BooksInv, Sole
<1>5. task[k[1]] # "approved"
  BY <1>3, <1>4 DEF Place, At, Wanted, Role, WriteRole, ReviewRole
<1>6. \A u \in Task : u # k[1] => content'[u] = content[u]
  BY <1>2 DEF ControlTypeOK
<1>7. \A u \in Task : Acted(u)'
  BY <1>1, <1>5, <1>6 DEF UpheldInv, Acted, Minded
<1>8. Fresh(p)'
  BY <1>1, <1>3 DEF Fresh, At
<1> QED
  BY <1>4, <1>7, <1>8 DEF UpheldInv

(* An approval in hand is acted on by every step.                          *)
LEMMA UpheldStep ==
  ASSUME Sole, ~Crashes, "resolve" \notin Commands, ControlTypeOK, ControlTypeOK', BooksInv,
         Held, UpheldInv, [Next]_vars
  PROVE  UpheldInv'
<1>1. ASSUME NEW p \in Runner, Launch(p) \/ ResumeStep(p) \/ ExecuteStep(p) \/ Crash(p)
      PROVE  UpheldInv'
  <2>1. CASE runner[p].pc \in {"answered", "reviewed", "approve", "refuse", "violated"}
    <3>1. ExecuteStep(p)
      BY <1>1, <2>1 DEF Launch, ResumeStep, CheckCalls, RestoreResolved, FindTakeoverChanges,
         Invalidate, Renew, ToRunning, Crash, At
    <3> QED
      BY <2>1, <3>1, UpheldHand
  <2>2. CASE runner[p].pc \in {"takeover", "invalidate", "renew"}
    <3>1. FindTakeoverChanges(p) \/ Invalidate(p) \/ Renew(p)
      BY <1>1, <2>2 DEF Launch, ResumeStep, CheckCalls, RestoreResolved, ToRunning, Crash,
         ExecuteStep, PauseIfRequested, SafePauseRead, SafePauseWrite, Step, Promote,
         Prevented, BeginCall, Answer, Driven, Test, Compare, Verdict, Settle, HandleTask, GenericHandler,
         After, Finish, FinalizeRun, At
    <3> QED
      BY <3>1, UpheldTakeover
  <2>3. CASE runner[p].pc \notin {"answered", "reviewed", "approve", "refuse", "violated",
                                  "takeover", "invalidate", "renew"}
    <3>1. Stride(p) /\ Idle(p)
      BY <1>1, <2>3, Strides DEF Idle
    <3> QED
      BY <3>1, UpheldStride
  <2> QED
    BY <2>1, <2>2, <2>3
<1>2. ASSUME UNCHANGED <<task, opinion, content, runner>> PROVE UpheldInv'
  <2>1. \A u \in Task : Acted(u)'
    BY <1>2 DEF UpheldInv, Acted, Minded
  <2>2. \A p \in Runner : Fresh(p)'
    BY <1>2 DEF UpheldInv, Fresh, At
  <2> QED
    BY <2>1, <2>2 DEF UpheldInv
<1>3. CASE RequestPause \/ Takeover \/ Freeze \/ Cancel \/ ResolveCall \/ MarkActive \/ CommandCrash
  BY <1>2, <1>3 DEF RequestPause, Takeover, Freeze, Cancel, ResolveCall, MarkActive, CommandCrash,
     Command, taskVars, attemptVars
<1>4. CASE UNCHANGED vars
  BY <1>2, <1>4 DEF vars
<1> QED
  BY <1>1, <1>3, <1>4, UpheldWritten DEF Next

(* Where nobody dies and no call is resolved, every approval is acted on.  *)
LEMMA UpheldInvariant ==
  ASSUME Sole, ~Crashes, "resolve" \notin Commands
  PROVE  Spec => []UpheldInv
<1>1. Init => UpheldInv
  <2> SUFFICES ASSUME Init PROVE UpheldInv
    OBVIOUS
  <2>1. \A p \in Runner : runner[p].pc \in {"gate", "off"}
    BY DEF Init, Off
  <2>2. \A t \in Task : task[t] = "draft" /\ opinion[t] = "none"
    BY DEF Init
  <2> QED
    BY <2>1, <2>2 DEF UpheldInv, Acted, Fresh, At
<1>2. (RunInv /\ ControlTypeOK) /\ (RunInv /\ ControlTypeOK)' /\ BooksInv
        /\ Held /\ SettledInv /\ UpheldInv /\ [Next]_vars => UpheldInv'
  BY UpheldStep
<1> QED
  BY <1>1, <1>2, ControlInvariant, BooksInvariant, HeldInvariant, PTL DEF Spec

(* Approval rests on review: when one process at a time executes the run,  *)
(* what is approved is what the completed review of its latest attempt was *)
(* shown and approved of, whatever pauses, freezes, cancellations and      *)
(* resumes lie between.  If no process is killed and no call is resolved   *)
(* by hand this holds under every fault, a reviewer that writes included,  *)
(* and across takeovers; and if nobody takes over and every reviewer       *)
(* leaves the worktree alone it holds across crashes and resolutions, too. *)
THEOREM ApprovalRestsOnReview ==
  ASSUME Sole,
         \/ ~Crashes /\ "resolve" \notin Commands
         \/ "takeover" \notin Commands /\ "violation" \notin Faults
  PROVE  Spec => []ApprovedIsReviewed
\* An opinion comes from a completed review of the latest attempt.
<1>1. ASSUME ControlTypeOK, BooksInv, NEW t \in Task, opinion[t] = "approve"
      PROVE  \E role \in ReviewRole : call[<<t, attempt[t], role>>] = "completed"
  BY <1>1 DEF BooksInv, Row, Shape
<1>2. CASE Untouched /\ Honest
  <2>1. ControlTypeOK /\ BooksInv => ApprovedIsReviewed
    <3> SUFFICES ASSUME ControlTypeOK, BooksInv, NEW t \in Task, task[t] = "approved"
                 PROVE  /\ content[t] # "unseen" /\ opinion[t] = "approve"
                        /\ \E role \in ReviewRole : call[<<t, attempt[t], role>>] = "completed"
      BY DEF ApprovedIsReviewed
    <3>1. Trust(t) /\ Shape(t)
      BY <1>2 DEF BooksInv, Row
    <3>2. PICK role \in ReviewRole : call[<<t, attempt[t], role>>] = "completed"
      BY <1>1, <3>1 DEF Trust
    <3>3. Tried(t, role)
      BY <3>1, <3>2 DEF Trust, Shape, Tried
    <3> QED
      BY <1>2, <3>1, <3>2, <3>3 DEF Trust
  <2> QED
    BY <2>1, BooksInvariant, ControlInvariant, PTL
<1>3. CASE ~Crashes /\ "resolve" \notin Commands
  <2>1. ControlTypeOK /\ BooksInv /\ UpheldInv => ApprovedIsReviewed
    BY <1>1 DEF UpheldInv, Acted, ApprovedIsReviewed
  <2>2. Spec => []UpheldInv
    BY <1>3, UpheldInvariant
  <2> QED
    BY <2>1, <2>2, BooksInvariant, ControlInvariant, PTL
<1> QED
  BY <1>2, <1>3 DEF Untouched, Honest

-----------------------------------------------------------------------------
(* How often a task is implemented and revised.                            *)

(* The revisions of a task are few: finite, and as many as attempts after  *)
(* the first at most.                                                      *)
LEMMA FewRevisions ==
  ASSUME NEW t \in Task
  PROVE  /\ IsFiniteSet(Revisions(t)) /\ Cardinality(Revisions(t)) \in Nat
         /\ ControlTypeOK /\ Row(t) /\ Counts(t) /\ attempt[t] >= 1 =>
              Cardinality(Revisions(t)) + 1 <= attempt[t]
<1>1. IsFiniteSet(1..MaxAttempt)
  BY FS_Interval, ControlAssumption
<1>2. IsFiniteSet(Revisions(t)) /\ Cardinality(Revisions(t)) \in Nat
  BY <1>1, FS_Subset, FS_CardinalityType DEF Revisions
<1>3. ASSUME ControlTypeOK, Row(t), Counts(t), attempt[t] >= 1
      PROVE  Cardinality(Revisions(t)) + 1 <= attempt[t]
  <2>1. attempt[t] \in Nat /\ MaxAttempt \in Nat
    BY <1>3, ControlAssumption DEF ControlTypeOK
  <2>2. Revisions(t) \subseteq 2..attempt[t]
    <3> SUFFICES ASSUME NEW n \in Revisions(t) PROVE n \in 2..attempt[t]
      OBVIOUS
    <3>1. n \in 1..MaxAttempt /\ call[<<t, n, "revision">>] # "absent"
      BY DEF Revisions
    <3>2. ~(n > attempt[t])
      BY <1>3, <3>1 DEF Row, Shape, Role, WriteRole
    <3>3. n >= 2
      BY <1>3 DEF Counts
    <3> QED
      BY <2>1, <3>1, <3>2, <3>3
  <2>3. IsFiniteSet(2..attempt[t]) /\ Cardinality(2..attempt[t]) = IF 2 > attempt[t] THEN 0 ELSE attempt[t] - 2 + 1
    BY <2>1, FS_Interval
  <2>4. Cardinality(Revisions(t)) <= Cardinality(2..attempt[t])
    BY <2>2, <2>3, FS_Subset
  <2> QED
    BY <1>2, <1>3, <2>1, <2>3, <2>4
<1> QED
  BY <1>2, <1>3

\* A step begins no call of the task.
Unbegun(t) ==
  \A n \in 1..MaxAttempt, role \in Role : call'[<<t, n, role>>] = "absent" <=> call[<<t, n, role>>] = "absent"

(* Then its numbers stay the same.                                         *)
LEMMA SameNumbers ==
  ASSUME NEW t \in Task, Unbegun(t), attempt[t] \in 0..MaxAttempt, attempt'[t] = attempt[t]
  PROVE  /\ Revisions(t)' = Revisions(t)
         /\ \A n \in 1..MaxAttempt : Implemented(t, n)' = Implemented(t, n)
         /\ \A role \in Role : Tried(t, role)' = Tried(t, role)
<1>1. MaxAttempt \in Nat
  BY ControlAssumption
<1> QED
  BY <1>1 DEF Unbegun, Revisions, Implemented, Tried, Role, WriteRole

(* And if it is not moved either it stays as it is.                        *)
LEMMA TallyFrame ==
  ASSUME NEW t \in Task, Tally(t), Unbegun(t), attempt[t] \in 0..MaxAttempt,
         attempt'[t] = attempt[t], task'[t] = task[t], closed'[t] = closed[t]
  PROVE  Tally(t)'
<1>1. /\ Revisions(t)' = Revisions(t)
      /\ \A n \in 1..MaxAttempt : Implemented(t, n)' = Implemented(t, n)
      /\ Tried(t, "review")' = Tried(t, "review")
      /\ Tried(t, "rereview")' = Tried(t, "rereview")
      /\ Tried(t, "revision")' = Tried(t, "revision")
      /\ Tried(t, "implementation")' = Tried(t, "implementation")
  BY SameNumbers DEF Role, WriteRole, ReviewRole
<1> QED
  BY <1>1 DEF Tally, Counts, Orderly

\* What is known of a process and of every task.
Counted(p, t) ==
  /\ Known(p, t) /\ Turn(p)
  /\ \A u \in Task : Tally(u)

(* The counts of the process's task are known, as is the process.          *)
LEMMA CountedHere ==
  ASSUME Sole, ControlTypeOK, BooksInv, TallyInv, NEW p \in Runner, ~Closing(p)
  PROVE  /\ \E t \in Task : Counted(p, t)
         /\ \A q \in Runner : q = p
<1>1. \A q \in Runner : q = p
  BY KnownHere
<1>2. \A u \in Task : Tally(u)
  BY <1>1 DEF TallyInv, Tally, Refused
<1> QED
  BY <1>1, <1>2, KnownHere DEF TallyInv, Counted

(* A step that only moves the process, or ends a call.                     *)
LEMMA TallyIdle ==
  ASSUME Sole, ControlTypeOK, ControlTypeOK', BooksInv, TallyInv, NEW p \in Runner,
         ~Closing(p),
         Enters(p) \/ Answers(p) \/ (UNCHANGED books /\ Quiet(p))
  PROVE  TallyInv'
<1>1. PICK t \in Task : Counted(p, t)
  BY CountedHere
<1>2. \A q \in Runner : q = p
  BY CountedHere
<1>3. UNCHANGED <<task, attempt, closed>>
  BY DEF Enters, Answers, books
<1>4. \A u \in Task : Unbegun(u)
  <2>1. CASE Answers(p)
    <3>1. PICK state \in {"completed", "unknown", "failed"} : call' = [call EXCEPT ![CallOf(p)] = state]
      BY <2>1 DEF Answers, CallEnds
    <3>2. attempt[t] >= 1 /\ Tried(t, runner[p].role) /\ CallOf(p) = <<t, attempt[t], runner[p].role>>
      BY <1>1, <2>1 DEF Counted, Known, Place, Answers, At, CallOf
    <3>3. call[CallOf(p)] # "absent"
      BY <3>2 DEF Tried
    <3> QED
      BY <3>1, <3>3 DEF Unbegun, ControlTypeOK, Slot
  <2>2. CASE UNCHANGED call
    BY <2>2 DEF Unbegun
  <2> QED
    BY <2>1, <2>2 DEF Enters, books
<1>5. \A u \in Task : Tally(u)'
  BY <1>1, <1>3, <1>4, TallyFrame DEF Counted, Known
<1>6. Turn(p)'
  <2>1. CASE Quiet(p)
    BY <2>1 DEF Quiet, Busy, Turn, Closing, At
  <2>2. CASE Enters(p)
    BY <2>2 DEF Enters, Moved, Reused, Turn, Closing, At, WriteRole, ReviewRole
  <2>3. CASE Answers(p)
    BY <2>3 DEF Answers, Quiet, Busy, Moved, Answered, Turn, Closing, At
  <2> QED
    BY <2>1, <2>2, <2>3
<1> QED
  BY <1>2, <1>5, <1>6 DEF TallyInv, Tally

(* A new attempt is opened only if there is something left to do.          *)
LEMMA TallyOpen ==
  ASSUME Sole, ControlTypeOK, ControlTypeOK', BooksInv, TallyInv, NEW p \in Runner,
         ~Closing(p), Opens(p)
  PROVE  TallyInv'
<1>1. PICK t \in Task : Counted(p, t)
  BY CountedHere
<1>2. \A q \in Runner : q = p
  BY CountedHere
<1>3. PICK role \in WriteRole : /\ ~Continues(t, role) /\ task[t] = Wanted[role]
                                /\ Moved(p, "begin", role)
  BY <1>1 DEF Opens, Counted, Known, Turn, Closing, At
<1>4. /\ UNCHANGED <<task, content, call>> /\ attempt[t] \in Nat /\ MaxAttempt \in Nat
      /\ attempt' = [attempt EXCEPT ![t] = @ + 1] /\ closed' = [closed EXCEPT ![t] = FALSE]
  BY <1>1, ControlAssumption DEF Opens, NewAttempt, Counted, Known, ControlTypeOK
<1>5. \A u \in Task : u # t => Tally(u)'
  <2> SUFFICES ASSUME NEW u \in Task, u # t PROVE Tally(u)'
    OBVIOUS
  <2>1. Unbegun(u) /\ attempt'[u] = attempt[u] /\ closed'[u] = closed[u]
    BY <1>4 DEF Unbegun, ControlTypeOK
  <2> QED
    BY <1>1, <1>4, <2>1, TallyFrame DEF Counted, Known
<1>6. attempt'[t] = attempt[t] + 1 /\ closed'[t] = FALSE /\ attempt[t] + 1 \in 1..MaxAttempt
  BY <1>1, <1>4 DEF ControlTypeOK
<1>7. \A any \in Role : ~Tried(t, any)'
  <2>1. \A any \in Role : call[<<t, attempt[t] + 1, any>>] = "absent"
    BY <1>1, <1>4, <1>6 DEF Counted, Known, Row, Shape, Trust
  <2> QED
    BY <1>4, <1>6, <2>1 DEF Tried
<1>8. /\ Revisions(t)' = Revisions(t)
      /\ \A n \in 1..MaxAttempt : Implemented(t, n)' = Implemented(t, n)
  BY <1>4 DEF Revisions, Implemented
<1>9. CASE role = "implementation"
  <2>1. task[t] = "running" /\ Tally(t)
    BY <1>1, <1>3, <1>9 DEF Counted, Wanted
  <2>2. \A n \in 1..MaxAttempt : ~Implemented(t, n)
    BY <1>3, <1>4, <1>9, <2>1 DEF Tally, Counts, Orderly, Continues, ReviewOf, Tried, Implemented
  <2>3. Tally(t)'
    BY <1>4, <1>6, <1>7, <1>8, <2>1, <2>2 DEF Tally, Counts, Orderly, Role, WriteRole, ReviewRole
  <2>4. Turn(p)'
    BY <1>1, <1>3, <1>8, <1>9, <2>2 DEF Turn, Closing, At, Moved, Counted, Known
  <2> QED
    BY <1>2, <1>5, <2>3, <2>4 DEF TallyInv, Tally
<1>10. CASE role = "revision"
  <2>1. task[t] = "revising" /\ Tally(t)
    BY <1>1, <1>3, <1>10 DEF Counted, Wanted
  <2>2. Cardinality(Revisions(t)) + 1 <= MaxRetry /\ attempt[t] >= 1
    BY <1>3, <1>4, <1>10, <2>1 DEF Tally, Counts, Orderly, Continues, ReviewOf, Tried
  <2>3. Tally(t)'
    BY <1>4, <1>6, <1>7, <1>8, <2>1, <2>2 DEF Tally, Counts, Orderly, Role, WriteRole, ReviewRole
  <2>4. Turn(p)'
    BY <1>1, <1>3, <1>4, <1>6, <1>8, <1>10, <2>2 DEF Turn, Closing, At, Moved, Counted, Known
  <2> QED
    BY <1>2, <1>5, <2>3, <2>4 DEF TallyInv, Tally
<1> QED
  BY <1>9, <1>10 DEF WriteRole

(* A call is begun where there is none: an implementation once, a revision *)
(* within the limit.                                                       *)
LEMMA TallyBegin ==
  ASSUME Sole, ControlTypeOK, ControlTypeOK', BooksInv, TallyInv, NEW p \in Runner,
         ~Closing(p), Begins(p)
  PROVE  TallyInv'
<1>1. PICK t \in Task : Counted(p, t)
  BY CountedHere
<1>2. \A q \in Runner : q = p
  BY CountedHere
<1>3. PICK role \in Role : role = runner[p].role
  BY <1>1 DEF Counted, Known
<1>4. /\ attempt[t] \in 1..MaxAttempt /\ task[t] = Wanted[role]
      /\ role \in WriteRole => \A any \in Role : ~Tried(t, any)
  BY <1>1, <1>3 DEF Begins, At, Counted, Known, Place
<1> DEFINE k == <<t, attempt[t], role>>
<1>5. /\ UNCHANGED <<task, attempt, closed>> /\ call[k] = "absent"
      /\ call' = [call EXCEPT ![k] = "started"] /\ Moved(p, "calling", role)
  BY <1>1, <1>3 DEF Begins, CallOf, Counted, Known
<1>6. \A j \in Slot : call'[j] = IF j = k THEN "started" ELSE call[j]
  BY <1>4, <1>5 DEF ControlTypeOK
<1>7. \A u \in Task : u # t => Tally(u)'
  <2> SUFFICES ASSUME NEW u \in Task, u # t PROVE Tally(u)'
    OBVIOUS
  <2>1. Unbegun(u)
    BY <1>6 DEF Slot, Unbegun
  <2> QED
    BY <1>1, <1>5, <2>1, TallyFrame DEF Counted, Known
<1>8. \A r \in Role : Tried(t, r)' <=> Tried(t, r) \/ r = role
  BY <1>4, <1>5, <1>6 DEF Tried, Slot
<1>9. Tally(t) /\ Row(t) /\ Turn(p) /\ t = runner[p].task
  BY <1>1 DEF Counted, Known
<1>10. \A n \in 1..MaxAttempt : Implemented(t, n)' <=> Implemented(t, n) \/ (role = "implementation" /\ n = attempt[t])
  BY <1>4, <1>6 DEF Implemented, Slot, Role, WriteRole
<1>11. Revisions(t)' = IF role = "revision" THEN Revisions(t) \cup {attempt[t]} ELSE Revisions(t)
  BY <1>4, <1>6 DEF Revisions, Slot, Role, WriteRole
<1>12. Tally(t)'
  <2>1. CASE role = "implementation"
    <3>1. \A n \in 1..MaxAttempt : ~Implemented(t, n)
      BY <1>3, <1>9, <2>1 DEF Begins, Turn, Closing
    <3>2. ~Tried(t, "review")' /\ task[t] = "running"
      BY <1>4, <1>8, <2>1 DEF Wanted, Role, WriteRole, ReviewRole
    <3> QED
      BY <1>5, <1>9, <1>10, <1>11, <2>1, <3>1, <3>2 DEF Tally, Counts, Orderly
  <2>2. CASE role = "revision"
    <3>1. attempt[t] >= 2 /\ ~closed[t] /\ Cardinality(Revisions(t)) + 1 <= MaxRetry
      BY <1>3, <1>9, <2>2 DEF Begins, Turn, Closing
    <3>2. task[t] = "revising" /\ Tried(t, "revision")' /\ ~Tried(t, "rereview")'
      BY <1>4, <1>8, <2>2 DEF Wanted, Role, WriteRole, ReviewRole
    <3>3. Cardinality(Revisions(t)') <= MaxRetry
      <4>1. Revisions(t)' = Revisions(t) \cup {attempt[t]}
        BY <1>11, <2>2
      <4>2. IsFiniteSet(Revisions(t)) /\ Cardinality(Revisions(t)) \in Nat /\ MaxRetry \in Nat
        BY FewRevisions, ControlAssumption
      <4>3. \/ Cardinality(Revisions(t) \cup {attempt[t]}) = Cardinality(Revisions(t))
            \/ Cardinality(Revisions(t) \cup {attempt[t]}) = Cardinality(Revisions(t)) + 1
        BY <4>2, FS_AddElement
      <4> QED
        BY <3>1, <4>1, <4>2, <4>3
    <3>4. \A n \in Revisions(t)' : n >= 2
      BY <1>9, <1>11, <3>1 DEF Tally, Counts, Orderly
    <3> QED
      BY <1>5, <1>9, <1>10, <2>2, <3>1, <3>2, <3>3, <3>4 DEF Tally, Counts, Orderly
  <2>3. CASE role = "review"
    <3>1. task[t] = "waiting_review" /\ Tried(t, "review")'
      BY <1>4, <1>8, <2>3 DEF Wanted
    <3> QED
      BY <1>5, <1>9, <1>10, <1>11, <2>3, <3>1 DEF Tally, Counts, Orderly
  <2>4. CASE role = "rereview"
    <3>1. task[t] = "waiting_rereview"
      BY <1>4, <2>4 DEF Wanted
    <3> QED
      BY <1>5, <1>9, <1>10, <1>11, <2>4, <3>1 DEF Tally, Counts, Orderly
  <2> QED
    BY <1>3, <2>1, <2>2, <2>3, <2>4 DEF Role, WriteRole, ReviewRole
<1>13. Turn(p)'
  BY <1>5 DEF Turn, Closing, At, Moved
<1> QED
  BY <1>2, <1>7, <1>12, <1>13 DEF TallyInv, Tally

(* A task is moved: to be revised only if a revision is left, to run again *)
(* only with the implementation it has.                                    *)
LEMMA TallyMove ==
  ASSUME Sole, ControlTypeOK, ControlTypeOK', BooksInv, TallyInv, NEW p \in Runner,
         ~Closing(p), Advances(p) \/ Promotes(p) \/ Reopens(p)
  PROVE  TallyInv'
<1>1. PICK t \in Task : Counted(p, t)
  BY CountedHere
<1>2. \A q \in Runner : q = p
  BY CountedHere
<1>3. UNCHANGED <<attempt, closed, call>>
  BY DEF Advances, Promotes, Reopens
<1>4. ASSUME NEW u \in Task
      PROVE  /\ Unbegun(u) /\ Tally(u) /\ Row(u) /\ attempt[u] \in 0..MaxAttempt
             /\ Revisions(u)' = Revisions(u)
             /\ \A n \in 1..MaxAttempt : Implemented(u, n)' = Implemented(u, n)
             /\ \A role \in Role : Tried(u, role)' = Tried(u, role)
  <2>1. Unbegun(u) /\ Tally(u) /\ Row(u) /\ attempt[u] \in 0..MaxAttempt
    BY <1>1, <1>3 DEF Unbegun, Counted, Known
  <2> QED
    BY <1>3, <2>1, SameNumbers
<1>5. ASSUME NEW u \in Task, task'[u] = task[u] PROVE Tally(u)'
  BY <1>3, <1>4, <1>5, TallyFrame
<1>6. Turn(p)'
  BY DEF Advances, Promotes, Reopens, Quiet, Busy, Moved, Turn, Closing, At
<1>7. CASE Advances(p)
  <2>1. PICK target :
          /\ task' = [task EXCEPT ![t] = target]
          /\ \/ At(p, "driven") /\ runner[p].role = "implementation" /\ target = "self_testing"
             \/ At(p, "driven") /\ runner[p].role = "revision" /\ target = "waiting_rereview"
             \/ At(p, "testing") /\ target = "waiting_review"
             \/ (At(p, "testing") \/ At(p, "reviewed")) /\ RetryLeft(t) /\ target = "revising"
             \/ target \in {"failed", "authorization_required", "approved", task[t]}
             \/ target = "waiting_input" /\ task[t] \in {"running", "waiting_review", "waiting_rereview"}
    BY <1>1, <1>7 DEF Advances, Counted, Known
  <2>2. task'[t] = target /\ \A u \in Task : u # t => task'[u] = task[u]
    BY <2>1 DEF ControlTypeOK
  <2>3. Place(p) /\ t = runner[p].task /\ runner[p].role \in Role
    BY <1>1 DEF Counted, Known
  <2>4. ASSUME target \in {"failed", "authorization_required", "approved", "waiting_rereview"}
        PROVE  Tally(t)'
    BY <1>3, <1>4, <2>2, <2>4 DEF Tally, Counts, Orderly, Role, WriteRole, ReviewRole
  <2>5. ASSUME target = "self_testing" /\ At(p, "driven") /\ runner[p].role = "implementation"
        PROVE  Tally(t)'
    <3>1. task[t] = "running"
      BY <2>3, <2>5 DEF Place, At, Wanted
    <3> QED
      BY <1>3, <1>4, <2>2, <2>5, <3>1 DEF Tally, Counts, Orderly, Role, WriteRole, ReviewRole
  <2>6. ASSUME target = "waiting_review" /\ At(p, "testing")
        PROVE  Tally(t)'
    <3>1. task[t] = "self_testing"
      BY <2>3, <2>6 DEF Place, At
    <3> QED
      BY <1>3, <1>4, <2>2, <2>6, <3>1 DEF Tally, Counts, Orderly, Role, WriteRole, ReviewRole
  <2>7. ASSUME target = "revising" /\ (At(p, "testing") \/ At(p, "reviewed")) /\ RetryLeft(t)
        PROVE  Tally(t)'
    <3>1. attempt[t] >= 1 /\ attempt[t] <= MaxRetry
      BY <1>4, <2>3, <2>7 DEF Place, At, RetryLeft, Row, Shape
    <3>2. Cardinality(Revisions(t)) + 1 <= attempt[t]
      BY <1>4, <3>1, FewRevisions DEF Tally
    <3>3. Cardinality(Revisions(t)) + 1 <= MaxRetry
      BY <1>4, <3>1, <3>2, FewRevisions, ControlAssumption
    <3> QED
      BY <1>3, <1>4, <2>2, <2>7, <3>1, <3>3 DEF Tally, Counts, Orderly, Role, WriteRole, ReviewRole
  <2>8. ASSUME target = "waiting_input" /\ task[t] \in {"running", "waiting_review", "waiting_rereview"}
        PROVE  Tally(t)'
    <3>1. task[t] = "waiting_rereview" => ~Tried(t, "implementation")
      BY <1>4 DEF Row, Shape, Trust
    <3> QED
      BY <1>3, <1>4, <2>2, <2>8, <3>1 DEF Tally, Counts, Orderly, Role, WriteRole, ReviewRole
  <2> QED
    BY <1>2, <1>5, <1>6, <2>1, <2>2, <2>4, <2>5, <2>6, <2>7, <2>8 DEF TallyInv, Tally
<1>8. CASE Promotes(p)
  <2>1. PICK target \in {"waiting_authorization", "queued", "running"} :
          task' = [task EXCEPT ![t] = target]
    BY <1>1, <1>8 DEF Promotes, Counted, Known
  <2>2. task'[t] = target /\ \A u \in Task : u # t => task'[u] = task[u]
    BY <2>1 DEF ControlTypeOK
  <2>3. task[t] \in {"draft", "waiting_authorization", "queued"}
    BY <1>1, <1>8 DEF Counted, Known, Place, Promotes, At
  <2>4. /\ ~closed[t] /\ \A n \in 1..MaxAttempt : ~Implemented(t, n)
        /\ ~Tried(t, "implementation") /\ ~Tried(t, "review")
    <3>1. ~closed[t] /\ attempt[t] = 0
      BY <1>4, <2>3 DEF Tally, Orderly, Row, Shape
    <3>2. \A n \in 1..MaxAttempt : ~Implemented(t, n)
      BY <1>4, <3>1, ControlAssumption DEF Implemented, Row, Shape, Role, WriteRole
    <3> QED
      BY <3>1, <3>2 DEF Tried
  <2>5. Tally(t)'
    BY <1>3, <1>4, <2>2, <2>4 DEF Tally, Counts, Orderly, Role, WriteRole, ReviewRole
  <2> QED
    BY <1>2, <1>5, <1>6, <2>2, <2>5 DEF TallyInv, Tally
<1>9. CASE Reopens(p)
  <2>1. PICK u \in Task : Resolved(u) /\ task' = [task EXCEPT ![u] = "running"]
    BY <1>9 DEF Reopens
  <2>2. task'[u] = "running" /\ \A v \in Task : v # u => task'[v] = task[v]
    BY <2>1 DEF ControlTypeOK
  <2>3. /\ task[u] = "waiting_input" /\ attempt[u] \in 1..MaxAttempt
        /\ Implemented(u, attempt[u]) /\ Tried(u, "implementation") /\ ~Tried(u, "review")
    BY <1>4, <2>1, ControlAssumption DEF Resolved, Implemented, Tried
  <2>4. ~closed[u] /\ \A n \in 1..MaxAttempt : Implemented(u, n) => n = attempt[u]
    BY <1>4, <2>3 DEF Tally, Counts, Orderly
  <2>5. Tally(u)'
    BY <1>3, <1>4, <2>2, <2>3, <2>4 DEF Tally, Counts, Orderly, Role, WriteRole, ReviewRole
  <2> QED
    BY <1>2, <1>5, <1>6, <2>2, <2>5 DEF TallyInv, Tally
<1> QED
  BY <1>7, <1>8, <1>9

(* An attempt is closed after its review, or it is refused.                *)
LEMMA TallyClose ==
  ASSUME Sole, ControlTypeOK, ControlTypeOK', BooksInv, TallyInv, NEW p \in Runner,
         ~Closing(p), Closes(p)
  PROVE  TallyInv'
<1>1. PICK t \in Task : Counted(p, t)
  BY CountedHere
<1>2. \A q \in Runner : q = p
  BY CountedHere
<1>3. closed' = [closed EXCEPT ![t] = TRUE] /\ UNCHANGED <<task, attempt, call>>
  BY <1>1 DEF Closes, Counted, Known
<1>4. \A u \in Task : Unbegun(u) /\ Tally(u) /\ attempt[u] \in 0..MaxAttempt
  BY <1>1, <1>3 DEF Unbegun, Counted, Known
<1>5. \A u \in Task : u # t => Tally(u)'
  <2> SUFFICES ASSUME NEW u \in Task, u # t PROVE Tally(u)'
    OBVIOUS
  <2>1. closed'[u] = closed[u]
    BY <1>3 DEF ControlTypeOK
  <2> QED
    BY <1>3, <1>4, <2>1, TallyFrame
<1>6. /\ Revisions(t)' = Revisions(t)
      /\ \A n \in 1..MaxAttempt : Implemented(t, n)' = Implemented(t, n)
      /\ \A role \in Role : Tried(t, role)' = Tried(t, role)
  BY <1>3, <1>4, SameNumbers
<1>7. Counts(t)'
  BY <1>4, <1>6 DEF Tally, Counts
<1>8. CASE At(p, "reviewed") /\ (Quiet(p) \/ Moved(p, "approve", runner[p].role))
  <2>1. \/ task[t] = "waiting_review" /\ Tried(t, "review")
        \/ task[t] = "waiting_rereview"
    BY <1>1, <1>8 DEF Counted, Known, Place, At, Wanted, ReviewRole
  <2>2. Orderly(t)'
    BY <1>3, <1>4, <1>6, <2>1 DEF Tally, Orderly, Role, WriteRole, ReviewRole
  <2>3. Turn(p)'
    BY <1>8 DEF Quiet, Busy, Moved, Turn, Closing, At
  <2> QED
    BY <1>2, <1>5, <1>7, <2>2, <2>3 DEF TallyInv, Tally
<1>9. CASE /\ ~Steady
           /\ \/ Moved(p, "refuse", runner[p].role)
              \/ attempt[t] <= MaxRetry /\ Moved(p, "retry", "revision") /\ runner[p].role = "revision"
  <2>1. runner'[p].task = t /\ runner'[p].pc \in {"refuse", "retry"}
    BY <1>1, <1>9 DEF Moved, Counted, Known
  <2>2. Refused(t)'
    BY <2>1 DEF Refused, Closing, At
  <2>3. Turn(p)'
    BY <1>3, <1>9, <2>1 DEF Turn, Closing, At, Moved
  <2> QED
    BY <1>2, <1>5, <1>7, <2>2, <2>3 DEF TallyInv, Tally
<1> QED
  BY <1>1, <1>8, <1>9 DEF Closes, Counted, Known

(* Nobody dies between closing an attempt without a review and acting on   *)
(* that: the task fails, or has a revision left and another attempt.       *)
LEMMA TallyRefuse ==
  ASSUME Sole, Steady \/ ~Crashes, ControlTypeOK, ControlTypeOK', BooksInv, TallyInv,
         NEW p \in Runner, Closing(p),
         Launch(p) \/ ResumeStep(p) \/ ExecuteStep(p) \/ Crash(p)
  PROVE  TallyInv'
<1>1. PICK t \in Task : Known(p, t)
  BY KnownHere
<1>2. \A q \in Runner : q = p
  BY KnownHere
<1>3. Turn(p) /\ ~Steady /\ ~Crashes
  BY DEF TallyInv, Turn
<1>4. Settle(p)
  BY <1>3 DEF Launch, ResumeStep, CheckCalls, RestoreResolved, FindTakeoverChanges, Invalidate,
         Renew, ToRunning, ExecuteStep, PauseIfRequested, SafePauseRead, SafePauseWrite, Step,
         Promote, Prevented, BeginCall, Answer, Driven, Test, Compare, Verdict, HandleTask,
         GenericHandler, After, Finish, FinalizeRun, Crash, Closing, At
<1>5. \A u \in Task : Unbegun(u) /\ attempt[u] \in 0..MaxAttempt /\ Counts(u) /\ Row(u)
  BY <1>1, <1>4 DEF Settle, callVars, Unbegun, Known, TallyInv
<1>6. \A u \in Task : u # t => Tally(u)
  BY <1>1, <1>2 DEF TallyInv, Tally, Refused, Known
<1>7. CASE At(p, "refuse")
  <2>1. UNCHANGED <<attempt, closed>> /\ FailTask(p)
    BY <1>4, <1>7 DEF Settle, attemptVars, At
  <2>2. "failed" \in TaskTransitions[task[t]]
    BY <1>1, <1>7 DEF Known, Place, At, TaskTransitions, TaskStates
  <2>3. task' = [task EXCEPT ![t] = "failed"] /\ Quiet(p)
    BY <1>1, <2>1, <2>2, TaskMoving DEF FailTask, MoveTask, CannotMove, Known
  <2>4. task'[t] = "failed" /\ \A u \in Task : u # t => task'[u] = task[u]
    BY <2>3 DEF ControlTypeOK
  <2>5. \A u \in Task : u # t => Tally(u)'
    BY <1>5, <1>6, <2>1, <2>4, TallyFrame
  <2>6. Tally(t)'
    <3>1. /\ Revisions(t)' = Revisions(t)
          /\ \A n \in 1..MaxAttempt : Implemented(t, n)' = Implemented(t, n)
      BY <1>5, <2>1, SameNumbers
    <3> QED
      BY <1>5, <2>4, <3>1 DEF Tally, Counts, Orderly
  <2>7. Turn(p)'
    BY <2>3 DEF Quiet, Busy, Turn, Closing, At
  <2> QED
    BY <1>2, <2>5, <2>6, <2>7 DEF TallyInv, Tally
<1>8. CASE At(p, "retry")
  <2>1. NewAttempt(t) /\ Goto(p, "begin") /\ UNCHANGED <<task, call>>
    BY <1>1, <1>4, <1>8 DEF Settle, At, Known, callVars
  <2>2. /\ attempt'[t] = attempt[t] + 1 /\ closed'[t] = FALSE
        /\ \A u \in Task : u # t => attempt'[u] = attempt[u] /\ closed'[u] = closed[u]
    BY <2>1 DEF NewAttempt, ControlTypeOK
  <2>3. /\ task[t] = "revising" /\ runner[p].role = "revision" /\ t = runner[p].task
        /\ attempt[t] >= 1 /\ attempt[t] <= MaxRetry
    BY <1>1, <1>3, <1>8 DEF Known, Place, At, Turn
  <2>4. /\ Cardinality(Revisions(t)) + 1 <= attempt[t]
        /\ Cardinality(Revisions(t)) \in Nat /\ attempt[t] \in Nat /\ MaxRetry \in Nat
    BY <1>1, <1>5, <2>3, FewRevisions, ControlAssumption DEF Known
  <2>5. /\ Revisions(t)' = Revisions(t)
        /\ \A n \in 1..MaxAttempt : Implemented(t, n)' = Implemented(t, n)
    BY <2>1 DEF Revisions, Implemented
  <2>6. Tally(t)'
    <3>1. Cardinality(Revisions(t)) + 1 <= MaxRetry /\ attempt'[t] >= 1
      BY <2>2, <2>3, <2>4
    <3> QED
      BY <1>5, <2>1, <2>2, <2>3, <2>5, <3>1 DEF Tally, Counts, Orderly
  <2>7. \A u \in Task : u # t => Tally(u)'
    BY <1>5, <1>6, <2>1, <2>2, TallyFrame
  <2>8. Turn(p)'
    <3>1. Moved(p, "begin", "revision")
      BY <2>1, <2>3, Moving
    <3>2. Cardinality(Revisions(t)) + 1 <= MaxRetry /\ attempt'[t] >= 2
      BY <2>2, <2>3, <2>4
    <3> QED
      BY <2>2, <2>3, <2>5, <3>1, <3>2 DEF Turn, Closing, At, Moved
  <2> QED
    BY <1>2, <2>6, <2>7, <2>8 DEF TallyInv, Tally
<1> QED
  BY <1>7, <1>8 DEF Closing

(* A resume after a takeover: what it invalidates has been reviewed.       *)
LEMMA TallyTakeover ==
  ASSUME Sole, ControlTypeOK, ControlTypeOK', BooksInv, TallyInv, NEW p \in Runner,
         ~Closing(p), FindTakeoverChanges(p) \/ Invalidate(p) \/ Renew(p)
  PROVE  TallyInv'
<1>1. PICK t \in Task : Counted(p, t)
  BY CountedHere
<1>2. \A q \in Runner : q = p
  BY CountedHere
<1>3. \A u \in Task : Unbegun(u) /\ Tally(u) /\ attempt[u] \in 0..MaxAttempt /\ Row(u)
  BY <1>1 DEF FindTakeoverChanges, Invalidate, Renew, callVars, Unbegun, Counted, Known
<1>4. Turn(p)'
  <2>1. runner[p] \in Process /\ p \in DOMAIN runner
    BY DEF ControlTypeOK
  <2>2. CASE FindTakeoverChanges(p)
    <3>1. PICK hit : runner' = [runner EXCEPT ![p].pc = "invalidate", ![p].todo = hit]
      BY <2>2 DEF FindTakeoverChanges
    <3>2. runner'[p].pc = "invalidate"
      BY <2>1, <3>1 DEF Process
    <3> QED
      BY <3>2 DEF Turn, Closing, At
  <2>3. CASE Invalidate(p)
    <3>1. CASE Goto(p, "resuming") \/ Exit(p)
      <4>1. Quiet(p)
        BY <3>1, Moving DEF Quiet, Moved, Busy
      <4> QED
        BY <4>1 DEF Quiet, Busy, Turn, Closing, At
    <3>2. ASSUME NEW u \in Task, InvalidateTask(p, u) PROVE Turn(p)'
      <4>1. CASE runner' = [runner EXCEPT ![p].pc = "renew", ![p].task = u]
        <5>1. runner'[p].pc = "renew"
          BY <2>1, <4>1 DEF Process
        <5> QED
          BY <5>1 DEF Turn, Closing, At
      <4>2. CASE runner' = [runner EXCEPT ![p].todo = @ \ {u}]
        <5>1. runner'[p].pc = "invalidate"
          BY <2>1, <2>3, <4>2 DEF Process, At, Invalidate
        <5> QED
          BY <5>1 DEF Turn, Closing, At
      <4> QED
        BY <3>2, <4>1, <4>2 DEF InvalidateTask
    <3> QED
      BY <2>3, <3>1, <3>2 DEF Invalidate
  <2>4. CASE Renew(p)
    <3>1. runner'[p].pc = "invalidate"
      BY <2>1, <2>4 DEF Renew, Process
    <3> QED
      BY <3>1 DEF Turn, Closing, At
  <2> QED
    BY <2>2, <2>3, <2>4
<1>5. CASE FindTakeoverChanges(p)
  <2>1. UNCHANGED <<task, attempt, closed>>
    BY <1>5 DEF FindTakeoverChanges, attemptVars
  <2>2. \A u \in Task : Tally(u)'
    BY <1>3, <2>1, TallyFrame
  <2> QED
    BY <1>2, <1>4, <2>2 DEF TallyInv, Tally
<1>6. CASE Invalidate(p)
  <2>1. UNCHANGED <<attempt, closed>>
    BY <1>6 DEF Invalidate, attemptVars
  <2>2. ASSUME NEW u \in Task,
               \/ task'[u] = task[u]
               \/ task[u] = "approved" /\ task'[u] \in {"self_testing", "failed"}
        PROVE  Tally(u)'
    <3>1. CASE task'[u] = task[u]
      BY <1>3, <2>1, <3>1, TallyFrame
    <3>2. CASE task[u] = "approved" /\ task'[u] \in {"self_testing", "failed"}
      <4>1. /\ Revisions(u)' = Revisions(u)
            /\ \A n \in 1..MaxAttempt : Implemented(u, n)' = Implemented(u, n)
            /\ Tried(u, "implementation")' = Tried(u, "implementation")
            /\ Tried(u, "review")' = Tried(u, "review")
        BY <1>3, <2>1, SameNumbers DEF Role, WriteRole, ReviewRole
      <4>2. Tried(u, "review") \/ Tried(u, "rereview")
        BY <1>3, <3>2 DEF Row, Shape, Tried, ReviewRole
      <4>3. Tried(u, "implementation") => Tried(u, "review")
        BY <1>3, <4>2 DEF Row, Shape
      <4> QED
        BY <1>3, <3>2, <4>1, <4>3 DEF Tally, Counts, Orderly
    <3> QED
      BY <2>2, <3>1, <3>2
  <2>3. \A u \in Task : \/ task'[u] = task[u]
                        \/ task[u] = "approved" /\ task'[u] \in {"self_testing", "failed"}
    BY <1>6 DEF Invalidate, InvalidateTask, ControlTypeOK
  <2> QED
    BY <1>2, <1>4, <2>2, <2>3 DEF TallyInv, Tally
<1>7. CASE Renew(p)
  <2>1. NewAttempt(t) /\ UNCHANGED <<task, call>> /\ task[t] = "self_testing"
    BY <1>1, <1>7 DEF Renew, callVars, Counted, Known, Place, At
  <2>2. /\ attempt'[t] = attempt[t] + 1 /\ closed'[t] = FALSE
        /\ \A u \in Task : u # t => attempt'[u] = attempt[u] /\ closed'[u] = closed[u]
    BY <2>1 DEF NewAttempt, ControlTypeOK
  <2>3. /\ Revisions(t)' = Revisions(t)
        /\ \A n \in 1..MaxAttempt : Implemented(t, n)' = Implemented(t, n)
    BY <2>1 DEF Revisions, Implemented
  <2>4. Tally(t)'
    BY <1>3, <2>1, <2>2, <2>3 DEF Tally, Counts, Orderly
  <2>5. \A u \in Task : u # t => Tally(u)'
    BY <1>3, <2>1, <2>2, TallyFrame
  <2> QED
    BY <1>2, <1>4, <2>4, <2>5 DEF TallyInv, Tally
<1> QED
  BY <1>5, <1>6, <1>7

(* Commands leave the counts as they are.                                  *)
LEMMA TallyCommand ==
  ASSUME Sole, ControlTypeOK, ControlTypeOK', BooksInv, TallyInv,
         \/ RequestPause \/ Takeover \/ Freeze \/ Cancel \/ ResolveCall \/ MarkActive \/ CommandCrash
         \/ ReviewerWrites \/ UNCHANGED vars
  PROVE  TallyInv'
<1>1. UNCHANGED <<task, attempt, closed, runner>>
  BY BooksCommand, BooksWritten DEF vars
<1>2. \A u \in Task : Unbegun(u)
  <2>1. CASE UNCHANGED vars
    BY <2>1 DEF vars, Unbegun
  <2>2. CASE ~UNCHANGED vars
    <3>1. \A k \in Slot : call'[k] = "absent" <=> call[k] = "absent"
      BY <2>2, CommandCalls
    <3> QED
      BY <3>1 DEF Unbegun, Slot
  <2> QED
    BY <2>1, <2>2
<1>3. \A u \in Task : /\ Counts(u) /\ attempt[u] \in 0..MaxAttempt
                      /\ Orderly(u) \/ Refused(u)
  BY DEF TallyInv, ControlTypeOK
<1>4. ASSUME NEW u \in Task
      PROVE  /\ Counts(u)' /\ (Orderly(u)' \/ Refused(u)')
             /\ Revisions(u)' = Revisions(u)
             /\ \A n \in 1..MaxAttempt : Implemented(u, n)' = Implemented(u, n)
  <2>1. /\ Revisions(u)' = Revisions(u)
        /\ \A n \in 1..MaxAttempt : Implemented(u, n)' = Implemented(u, n)
    BY <1>1, <1>2, <1>3, SameNumbers
  <2>2. Counts(u)'
    BY <1>3, <2>1 DEF Counts
  <2>3. Orderly(u) => Orderly(u)'
    BY <1>1, <1>2, <1>3, TallyFrame DEF Tally
  <2>4. Refused(u)' = Refused(u)
    BY <1>1 DEF Refused, Closing, At
  <2> QED
    BY <1>3, <2>1, <2>2, <2>3, <2>4
<1>5. ASSUME NEW p \in Runner PROVE Turn(p)'
  <2>1. PICK t \in Task : t = runner[p].task
    BY DEF ControlTypeOK, Process
  <2>2. Turn(p)
    BY DEF TallyInv, Tally
  <2> QED
    BY <1>1, <1>4, <2>1, <2>2 DEF Turn, Closing, At
<1> QED
  BY <1>4, <1>5 DEF TallyInv, Tally

(* The counts are kept by every step.                                      *)
LEMMA TallyStep ==
  ASSUME Sole, Steady \/ ~Crashes, ControlTypeOK, ControlTypeOK', BooksInv, TallyInv, [Next]_vars
  PROVE  TallyInv'
<1>1. ASSUME NEW p \in Runner, Launch(p) \/ ResumeStep(p) \/ ExecuteStep(p) \/ Crash(p)
      PROVE  TallyInv'
  <2>1. CASE Closing(p)
    BY <1>1, <2>1, TallyRefuse
  <2>2. CASE ~Closing(p) /\ runner[p].pc \in {"takeover", "invalidate", "renew"}
    BY <1>1, <2>2, TakeoverStrides, TallyTakeover, TallyIdle
  <2>3. CASE ~Closing(p) /\ runner[p].pc \notin {"takeover", "invalidate", "renew"}
    <3>1. Stride(p)
      BY <1>1, <2>3, Strides
    <3> QED
      BY <2>3, <3>1, TallyIdle, TallyOpen, TallyBegin, TallyMove, TallyClose DEF Stride
  <2> QED
    BY <2>1, <2>2, <2>3
<1> QED
  BY <1>1, TallyCommand DEF Next

(* If only a review closes an attempt, or nobody dies, the counts hold     *)
(* always.                                                                 *)
LEMMA TallyInvariant ==
  ASSUME Sole, Steady \/ ~Crashes
  PROVE  Spec => []TallyInv
<1>1. Init => TallyInv
  <2> SUFFICES ASSUME Init PROVE TallyInv
    OBVIOUS
  <2>1. \A p \in Runner : runner[p].pc \in {"gate", "off"}
    BY DEF Init, Off
  <2>2. \A t \in Task : task[t] = "draft" /\ attempt[t] = 0 /\ closed[t] = FALSE
    BY DEF Init
  <2>3. \A t \in Task, n \in 1..MaxAttempt, r \in Role : call[<<t, n, r>>] = "absent"
    BY DEF Init, Slot
  <2>4. ASSUME NEW t \in Task PROVE Tally(t)
    <3>1. Revisions(t) = {} /\ \A n \in 1..MaxAttempt : ~Implemented(t, n)
      BY <2>3 DEF Revisions, Implemented, Role, WriteRole
    <3>2. Cardinality(Revisions(t)) <= MaxRetry
      BY <3>1, FS_EmptySet, ControlAssumption
    <3> QED
      BY <2>2, <3>1, <3>2 DEF Tally, Counts, Orderly
  <2> QED
    BY <2>1, <2>4 DEF TallyInv, Tally, Turn, Closing, At
<1>2. (RunInv /\ ControlTypeOK) /\ (RunInv /\ ControlTypeOK)' /\ BooksInv
        /\ TallyInv /\ [Next]_vars => TallyInv'
  BY TallyStep
<1> QED
  BY <1>1, <1>2, ControlInvariant, BooksInvariant, PTL DEF Spec

(* A set without two different members has one at most.                    *)
LEMMA OneAtMost ==
  ASSUME NEW S, \A m, n \in S : m = n
  PROVE  Cardinality(S) <= 1
<1>1. CASE S = {}
  BY <1>1, FS_EmptySet
<1>2. CASE S # {}
  <2>1. PICK n : S = {n}
    BY <1>2
  <2>2. Cardinality({n}) = 1
    BY FS_Singleton
  <2> QED
    BY <2>1, <2>2
<1> QED
  BY <1>1, <1>2

(* Finished work is not repeated: when one process at a time executes the  *)
(* run, a task is implemented by one completed call at most, whatever      *)
(* faults, pauses, freezes, takeovers, resumes and resolutions lie between *)
(* - if only a review closes an attempt, processes may be killed besides.  *)
THEOREM WorkIsNotRepeated ==
  ASSUME Sole, Steady \/ ~Crashes
  PROVE  Spec => []ImplementedOnce
<1>1. TallyInv => ImplementedOnce
  <2> SUFFICES ASSUME TallyInv, NEW t \in Task
               PROVE  Cardinality({n \in 1..MaxAttempt : call[<<t, n, "implementation">>] = "completed"}) <= 1
    BY DEF ImplementedOnce
  <2> DEFINE Ends == {n \in 1..MaxAttempt : call[<<t, n, "implementation">>] = "completed"}
  <2>1. \A m, n \in Ends : m = n
    BY DEF TallyInv, Counts, Implemented
  <2> QED
    BY <2>1, OneAtMost
<1> QED
  BY <1>1, TallyInvariant, PTL

(* The retry limit holds across restarts: under the same conditions the    *)
(* completed revisions of a task stay within its retry limit.              *)
THEOREM RetryLimitHolds ==
  ASSUME Sole, Steady \/ ~Crashes
  PROVE  Spec => []RevisionsBounded
<1>1. TallyInv => RevisionsBounded
  <2> SUFFICES ASSUME TallyInv, NEW t \in Task
               PROVE  Cardinality({n \in 1..MaxAttempt : call[<<t, n, "revision">>] = "completed"}) <= MaxRetry
    BY DEF RevisionsBounded
  <2> DEFINE Ends == {n \in 1..MaxAttempt : call[<<t, n, "revision">>] = "completed"}
  <2>1. Ends \subseteq Revisions(t)
    BY DEF Revisions
  <2>2. IsFiniteSet(Revisions(t)) /\ Cardinality(Revisions(t)) \in Nat
    BY FewRevisions
  <2>3. IsFiniteSet(Ends) /\ Cardinality(Ends) <= Cardinality(Revisions(t))
    BY <2>1, <2>2, FS_Subset
  <2>4. Cardinality(Ends) \in Nat
    BY <2>3, FS_CardinalityType
  <2>5. Cardinality(Revisions(t)) <= MaxRetry /\ MaxRetry \in Nat
    BY ControlAssumption DEF TallyInv, Counts
  <2> QED
    BY <2>2, <2>3, <2>4, <2>5
<1> QED
  BY <1>1, TallyInvariant, PTL
=============================================================================
