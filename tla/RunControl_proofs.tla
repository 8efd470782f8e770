-------------------------- MODULE RunControl_proofs --------------------------
(***************************************************************************)
(* Runners and commands change the run's row by the store's transactions   *)
(* only, so what RunRow promises holds of every execution: any number of   *)
(* processes, tasks, commands and crashes.                                 *)
(***************************************************************************)
EXTENDS RunControl, RunRow_proofs

ControlTypeOK ==
  /\ task \in [Task -> TaskStates]
  /\ attempt \in [Task -> 0..MaxAttempt] /\ closed \in [Task -> BOOLEAN]
  /\ content \in [Task -> Content] /\ opinion \in [Task -> Opinion \cup {"none"}]
  /\ call \in [Slot -> CallStates]
  /\ noRetry \in BOOLEAN
  /\ runner \in [Runner -> Process]
  /\ marking \in BOOLEAN
  /\ launches \in 0..MaxLaunches /\ commands \in 0..MaxCommands

\* A process that does not run has the type of a process.
LEMMA OffTyped == Off \in Process
  BY ControlAssumption DEF Off, Process, PC, Task, Role, WriteRole, ReviewRole, ControlStates

\* The initial state has its type.
LEMMA ControlInitTyped == Init => ControlTypeOK
<1> SUFFICES ASSUME Init PROVE ControlTypeOK
  OBVIOUS
<1>1. [Off EXCEPT !.pc = "gate"] \in Process
  BY OffTyped DEF Process, PC
<1>2. runner \in [Runner -> Process]
  BY OffTyped, <1>1 DEF Init
<1>3. task \in [Task -> TaskStates] /\ call \in [Slot -> CallStates]
  BY DEF Init, TaskStates, CallStates
<1>4. /\ attempt \in [Task -> 0..MaxAttempt] /\ closed \in [Task -> BOOLEAN]
      /\ content \in [Task -> Content] /\ opinion \in [Task -> Opinion \cup {"none"}]
  BY ControlAssumption DEF Init, Content
<1>5. launches \in 0..MaxLaunches /\ commands \in 0..MaxCommands
  BY ControlAssumption DEF Init
<1>6. QED
  BY <1>2, <1>3, <1>4, <1>5 DEF Init, ControlTypeOK

-----------------------------------------------------------------------------
(***************************************************************************)
(* The moves of a process.                                                 *)
(***************************************************************************)
RunnersTyped == runner \in [Runner -> Process]

\* The moves of a process keep the type of the processes.
LEMMA Moves ==
  ASSUME RunnersTyped, NEW p \in Runner
  PROVE  /\ \A pc \in PC : Goto(p, pc) \/ Handle(p, pc) => RunnersTyped'
         /\ Exit(p) \/ Raise(p) \/ Leave(p) \/ NextTask(p) => RunnersTyped'
         /\ \A s \in {"completed", "failed"} : FinalizeAs(p, s) => RunnersTyped'
<1>1. runner[p] \in Process
  BY DEF RunnersTyped
<1>2. ASSUME NEW pc \in PC, Goto(p, pc) PROVE RunnersTyped'
  <2>1. [runner[p] EXCEPT !.pc = pc] \in Process
    BY <1>1 DEF Process
  <2>2. QED
    BY <1>2, <2>1 DEF Goto, RunnersTyped
<1>3. ASSUME NEW pc \in PC, Handle(p, pc) PROVE RunnersTyped'
  <2>1. [[runner[p] EXCEPT !.pc = pc] EXCEPT !.inTry = FALSE] \in Process
    BY <1>1 DEF Process
  <2>2. QED
    BY <1>3, <2>1 DEF Handle, RunnersTyped
<1>4. ASSUME Exit(p) PROVE RunnersTyped'
  BY <1>4, OffTyped DEF Exit, RunnersTyped
<1>5. ASSUME Raise(p) \/ Leave(p) PROVE RunnersTyped'
  <2>1. "generic" \in PC /\ "after" \in PC
    BY DEF PC
  <2>2. QED
    BY <1>3, <1>4, <1>5, <2>1 DEF Raise, Leave
<1>6. ASSUME NextTask(p) PROVE RunnersTyped'
  <2>1. "gate" \in PC /\ "finish" \in PC
    BY DEF PC
  <2>2. [runner[p] EXCEPT !.pc = "finish"] \in Process
    BY <1>1, <2>1 DEF Process
  <2>3. \A t \in Task : [runner[p] EXCEPT !.pc = "gate", !.task = t] \in Process
    BY <1>1, <2>1 DEF Process
  <2>4. QED
    BY <1>6, <2>2, <2>3 DEF NextTask, RunnersTyped
<1>7. ASSUME NEW s \in {"completed", "failed"}, FinalizeAs(p, s) PROVE RunnersTyped'
  <2>1. "finalize" \in PC
    BY DEF PC
  <2>2. [runner[p] EXCEPT !.pc = "finalize", !.verdict = s, !.inTry = FALSE] \in Process
    BY <1>1, <2>1 DEF Process
  <2>3. QED
    BY <1>7, <2>2 DEF FinalizeAs, RunnersTyped
<1>8. QED
  BY <1>2, <1>3, <1>4, <1>5, <1>6, <1>7

\* So does the choice of a role.
LEMMA RoleMove ==
  ASSUME RunnersTyped, NEW p \in Runner, NEW pc \in PC, NEW role \in Role,
         runner' = [runner EXCEPT ![p].pc = pc, ![p].role = role]
  PROVE  RunnersTyped'
<1>1. [[runner[p] EXCEPT !.pc = pc] EXCEPT !.role = role] \in Process
  BY DEF RunnersTyped, Process
<1>2. QED
  BY <1>1 DEF RunnersTyped

\* transition_task, with its refusal.
LEMMA TaskMoves ==
  ASSUME RunnersTyped, task \in [Task -> TaskStates], NEW p \in Runner
  PROVE  /\ \A t \in Task, target \in TaskStates :
              MoveTask(t, target) => task' \in [Task -> TaskStates]
         /\ \A target : CannotMove(p, target) =>
              task' \in [Task -> TaskStates] /\ RunnersTyped'
         /\ \A target \in TaskStates, pc \in PC : TaskStep(p, target, pc) =>
              task' \in [Task -> TaskStates] /\ RunnersTyped'
         /\ FailTask(p) => task' \in [Task -> TaskStates] /\ RunnersTyped'
<1>1. runner[p].task \in Task
  BY DEF RunnersTyped, Process
<1>2. \A t \in Task, target \in TaskStates :
        MoveTask(t, target) => task' \in [Task -> TaskStates]
  BY DEF MoveTask
<1>3. \A target : CannotMove(p, target) => task' \in [Task -> TaskStates] /\ RunnersTyped'
  BY Moves DEF CannotMove
<1>4. \A target \in TaskStates, pc \in PC : TaskStep(p, target, pc) =>
        task' \in [Task -> TaskStates] /\ RunnersTyped'
  BY <1>1, <1>2, <1>3, Moves DEF TaskStep
<1>5. FailTask(p) => task' \in [Task -> TaskStates] /\ RunnersTyped'
  BY <1>1, <1>2, <1>3, Moves DEF FailTask, TaskStates
<1>6. QED
  BY <1>2, <1>3, <1>4, <1>5

AttemptsTyped ==
  /\ attempt \in [Task -> 0..MaxAttempt] /\ closed \in [Task -> BOOLEAN]
  /\ opinion \in [Task -> Opinion \cup {"none"}]

\* A new attempt has a number within the bound.
LEMMA AttemptMoves ==
  ASSUME AttemptsTyped, NEW t \in Task, NewAttempt(t)
  PROVE  AttemptsTyped'
<1>1. attempt[t] + 1 \in 0..MaxAttempt
  BY ControlAssumption DEF NewAttempt, AttemptsTyped
<1>2. QED
  BY <1>1 DEF NewAttempt, AttemptsTyped

\* complete_attempt moves the process and nothing else but the attempt.
LEMMA CloseMoves ==
  ASSUME RunnersTyped, closed \in [Task -> BOOLEAN], NEW p \in Runner, NEW pc \in PC,
         Close(p, pc)
  PROVE  RunnersTyped' /\ closed' \in [Task -> BOOLEAN] /\ UNCHANGED task
  BY Moves DEF Close

\* The text of a review has one of the opinions.
LEMMA SaidTyped ==
  ASSUME opinion \in [Task -> Opinion \cup {"none"}], NEW k, k[1] \in Task, Said(k)
  PROVE  opinion' \in [Task -> Opinion \cup {"none"}]
  BY DEF Said, Opinion

-----------------------------------------------------------------------------
(***************************************************************************)
(* The steps of a process keep the types.                                  *)
(***************************************************************************)
LEMMA ResumeTyped ==
  ASSUME RunTypeOK, ControlTypeOK, NEW p \in Runner, Launch(p) \/ ResumeStep(p)
  PROVE  ControlTypeOK'
<1> USE DEF ControlTypeOK
<1>1. RunnersTyped /\ runner[p] \in Process
  BY DEF RunnersTyped
<1>2. CASE Launch(p)
  <2>1. [Off EXCEPT !.pc = "check", !.seen = control] \in Process
    BY OffTyped DEF Process, PC, RunTypeOK
  <2>2. launches' \in 0..MaxLaunches
    BY <1>2, ControlAssumption DEF Launch
  <2>3. QED
    BY <1>2, <2>1, <2>2 DEF Launch, taskVars, attemptVars, callVars
<1>3. CASE CheckCalls(p)
  BY <1>1, <1>3, Moves DEF CheckCalls, PC, taskVars, attemptVars, callVars, bounds, RunnersTyped
<1>4. CASE RestoreResolved(p)
  <2> DEFINE todo == {t \in Task : Resolved(t)}
  <2>1. CASE todo # {} /\ UNCHANGED runner /\
             MoveTask(CHOOSE t \in todo : \A u \in todo : t <= u, "running")
    <3> DEFINE first == CHOOSE t \in todo : \A u \in todo : t <= u
    <3>1. task' = [task EXCEPT ![first] = "running"]
      BY <2>1 DEF MoveTask
    <3> HIDE DEF first
    <3>2. task' \in [Task -> TaskStates]
      BY <3>1 DEF TaskStates
    <3>3. QED
      BY <1>4, <2>1, <3>2 DEF RestoreResolved, attemptVars, callVars, bounds
  <2>2. CASE UNCHANGED task /\ (Goto(p, "takeover") \/ Goto(p, "resuming"))
    <3>1. RunnersTyped'
      BY <1>1, <2>2, Moves DEF PC
    <3>2. QED
      BY <1>4, <2>2, <3>1 DEF RestoreResolved, attemptVars, callVars, bounds, RunnersTyped
  <2>3. QED
    BY <1>4, <2>1, <2>2 DEF RestoreResolved
<1>5. CASE FindTakeoverChanges(p)
  <2>1. content' \in [Task -> Content]
    BY <1>5 DEF FindTakeoverChanges, Touched, Content
  <2>2. ASSUME NEW todo, todo \subseteq Task,
               runner' = [runner EXCEPT ![p].pc = "invalidate", ![p].todo = todo]
        PROVE  runner' \in [Runner -> Process]
    <3>1. [[runner[p] EXCEPT !.pc = "invalidate"] EXCEPT !.todo = todo] \in Process
      BY <1>1, <2>2 DEF Process, PC
    <3>2. QED
      BY <2>2, <3>1
  <2>3. \A edited : Affected(edited) \subseteq Task
    BY DEF Affected
  <2>4. runner' \in [Runner -> Process]
    BY <1>5, <2>2, <2>3 DEF FindTakeoverChanges
  <2>5. QED
    BY <1>5, <2>1, <2>4 DEF FindTakeoverChanges, attemptVars, callVars, bounds
<1>6. CASE Invalidate(p)
  <2>1. CASE (Goto(p, "resuming") \/ Exit(p)) /\ UNCHANGED <<task, content>>
    <3>1. RunnersTyped'
      BY <1>1, <2>1, Moves DEF PC
    <3>2. QED
      BY <1>6, <2>1, <3>1 DEF Invalidate, attemptVars, callVars, bounds, RunnersTyped
  <2>2. ASSUME NEW t \in Task, InvalidateTask(p, t) PROVE ControlTypeOK'
    <3>1. [[runner[p] EXCEPT !.pc = "renew"] EXCEPT !.task = t] \in Process
      BY <1>1 DEF Process, PC
    <3>2. [runner[p] EXCEPT !.todo = runner[p].todo \ {t}] \in Process
      BY <1>1 DEF Process
    <3>3. runner' \in [Runner -> Process]
      BY <2>2, <3>1, <3>2 DEF InvalidateTask
    <3>4. task' \in [Task -> TaskStates] /\ content' \in [Task -> Content]
      BY <2>2 DEF InvalidateTask, TaskStates, Content
    <3>5. QED
      BY <1>6, <3>3, <3>4 DEF Invalidate, attemptVars, callVars, bounds
  <2>3. QED
    BY <1>6, <2>1, <2>2 DEF Invalidate
<1>9. CASE Renew(p)
  <2>1. 1 \in Task
    BY ControlAssumption DEF Task
  <2>2. [[[runner[p] EXCEPT !.pc = "invalidate"] EXCEPT !.task = 1]
           EXCEPT !.todo = runner[p].todo \ {runner[p].task}] \in Process
    BY <1>1, <2>1 DEF Process, PC
  <2>3. runner' \in [Runner -> Process]
    BY <1>9, <2>2 DEF Renew
  <2>4. AttemptsTyped'
    BY <1>1, <1>9, AttemptMoves DEF Renew, AttemptsTyped, Process
  <2>5. QED
    BY <1>9, <2>3, <2>4 DEF Renew, callVars, bounds, AttemptsTyped
<1>7. CASE ToRunning(p)
  <2>1. RunnersTyped'
    BY <1>1, <1>7, Moves DEF ToRunning, ControlStep, PC
  <2>2. QED
    BY <1>7, <2>1 DEF ToRunning, taskVars, attemptVars, callVars, bounds, RunnersTyped
<1>8. QED
  BY <1>2, <1>3, <1>4, <1>5, <1>6, <1>7, <1>9 DEF ResumeStep

\* The steps of execute keep the types.
LEMMA ExecuteTyped ==
  ASSUME ControlTypeOK, NEW p \in Runner, ExecuteStep(p)
  PROVE  ControlTypeOK'
<1> USE DEF ControlTypeOK
<1>1. /\ RunnersTyped /\ AttemptsTyped
      /\ runner[p] \in Process /\ runner[p].task \in Task /\ runner[p].role \in Role
  BY DEF RunnersTyped, AttemptsTyped, Process
<1>2. CASE PauseIfRequested(p)
  <2>1. [[runner[p] EXCEPT !.pc = "step"] EXCEPT !.inTry = TRUE] \in Process
    BY <1>1 DEF Process, PC
  <2>2. RunnersTyped'
    BY <1>1, <1>2, <2>1, Moves DEF PauseIfRequested, PC, RunnersTyped
  <2>3. QED
    BY <1>2, <2>2 DEF PauseIfRequested, taskVars, attemptVars, callVars, bounds, RunnersTyped
<1>3. CASE SafePauseRead(p) \/ SafePauseWrite(p)
  <2>1. RunnersTyped'
    BY <1>1, <1>3, Moves DEF SafePauseRead, SafePauseWrite, ControlStep, PC
  <2>2. QED
    BY <1>3, <2>1 DEF SafePauseRead, SafePauseWrite, taskVars, attemptVars, callVars, bounds, RunnersTyped
<1>4. CASE Step(p)
  <2> DEFINE t == runner[p].task
  <2>1. ASSUME NEW role \in WriteRole, Drive(p, role)
        PROVE  RunnersTyped' /\ AttemptsTyped'
    <3>1. CASE NewAttempt(t) /\ runner' = [runner EXCEPT ![p].pc = "begin", ![p].role = role]
      BY <1>1, <3>1, RoleMove, AttemptMoves DEF PC, Role
    <3>2. CASE UNCHANGED attemptVars /\ \/ runner' = [runner EXCEPT ![p].pc = "driven", ![p].role = role]
                                        \/ Handle(p, "pause_read") \/ Goto(p, "pause_read")
      BY <1>1, <3>2, RoleMove, Moves DEF PC, Role, attemptVars, AttemptsTyped
    <3>3. QED
      BY <2>1, <3>1, <3>2 DEF Drive
  <2>2. ASSUME NEW role \in ReviewRole,
               runner' = [runner EXCEPT ![p].pc = "begin", ![p].role = role]
        PROVE  RunnersTyped'
    BY <1>1, <2>2, RoleMove DEF PC, Role
  <2>3. Leave(p) \/ Raise(p) \/ Goto(p, "promote") \/ Goto(p, "testing") => RunnersTyped'
    BY <1>1, Moves DEF PC
  <2>4. UNCHANGED attemptVars => AttemptsTyped'
    BY <1>1 DEF attemptVars, AttemptsTyped
  <2>5. RunnersTyped' /\ AttemptsTyped'
    BY <1>4, <2>1, <2>2, <2>3, <2>4 DEF Step, WriteRole, ReviewRole
  <2>6. QED
    BY <1>4, <2>5 DEF Step, callVars, bounds, RunnersTyped, AttemptsTyped
<1>5. CASE Promote(p)
  <2>1. task' \in [Task -> TaskStates] /\ RunnersTyped'
    BY <1>1, <1>5, TaskMoves DEF Promote, TaskStates, PC
  <2>2. QED
    BY <1>5, <2>1 DEF Promote, attemptVars, callVars, bounds, RunnersTyped
<1>6. CASE Prevented(p)
  <2>1. RunnersTyped'
    BY <1>1, <1>6, Moves DEF Prevented, PC
  <2>2. QED
    BY <1>6, <2>1 DEF Prevented, taskVars, attemptVars, callVars, bounds, RunnersTyped
<1>7. CASE BeginCall(p)
  <2>1. RunnersTyped'
    BY <1>1, <1>7, Moves DEF BeginCall, Reused, PC
  <2>2. call' \in [Slot -> CallStates] /\ content' \in [Task -> Content]
    BY <1>7 DEF BeginCall, CallStates, InvocationStates, Content
  <2>3. QED
    BY <1>7, <2>1, <2>2 DEF BeginCall, attemptVars, bounds, RunnersTyped
<1>8. CASE Answer(p)
  <2>1. RunnersTyped'
    BY <1>1, <1>8, Moves DEF Answer, Answered, PC
  <2>2. ASSUME NEW state \in {"completed", "failed", "unknown"}, CallEnds(p, state)
        PROVE  call' \in [Slot -> CallStates]
    BY <2>2 DEF CallEnds, CallStates, InvocationStates
  <2>3. call' \in [Slot -> CallStates] /\ noRetry' \in BOOLEAN
    BY <1>8, <2>2 DEF Answer, callVars
  <2>4. opinion' \in [Task -> Opinion \cup {"none"}]
    BY <1>1, <1>8, SaidTyped DEF Answer, CallOf
  <2>5. QED
    BY <1>8, <2>1, <2>3, <2>4 DEF Answer, bounds, RunnersTyped
<1>9. CASE Driven(p)
  <2>1. RunnersTyped' /\ task' \in [Task -> TaskStates] /\ closed' \in [Task -> BOOLEAN]
    BY <1>1, <1>9, Moves, TaskMoves, CloseMoves DEF Driven, TaskStates, PC
  <2>2. QED
    BY <1>9, <2>1 DEF Driven, callVars, bounds, RunnersTyped
<1>10. CASE Test(p)
  <2>1. RunnersTyped' /\ task' \in [Task -> TaskStates] /\ closed' \in [Task -> BOOLEAN]
    BY <1>1, <1>10, Moves, TaskMoves, CloseMoves DEF Test, TaskStates, PC
  <2>2. QED
    BY <1>10, <2>1 DEF Test, callVars, bounds, RunnersTyped
<1>11. CASE Verdict(p)
  <2>1. RunnersTyped' /\ task' \in [Task -> TaskStates] /\ closed' \in [Task -> BOOLEAN]
    BY <1>1, <1>11, Moves, TaskMoves, CloseMoves DEF Verdict, TaskStates, PC
  <2>2. QED
    BY <1>11, <2>1 DEF Verdict, callVars, bounds, RunnersTyped
<1>17. CASE Compare(p)
  <2>1. RunnersTyped'
    BY <1>1, <1>17, Moves DEF Compare, PC
  <2>2. QED
    BY <1>17, <2>1 DEF Compare, taskVars, attemptVars, callVars, bounds, RunnersTyped
<1>16. CASE Settle(p)
  <2>1. RunnersTyped' /\ task' \in [Task -> TaskStates] /\ AttemptsTyped'
    BY <1>1, <1>16, Moves, TaskMoves, AttemptMoves
       DEF Settle, TaskStates, PC, attemptVars, AttemptsTyped
  <2>2. QED
    BY <1>16, <2>1 DEF Settle, callVars, bounds, RunnersTyped, AttemptsTyped
<1>12. CASE HandleTask(p)
  <2>1. HandlerTarget(p) \in TaskStates
    BY <1>1 DEF HandlerTarget, TaskStates
  <2>2. [task EXCEPT ![runner[p].task] = HandlerTarget(p)] \in [Task -> TaskStates]
    BY <2>1
  <2>3. RunnersTyped' /\ task' \in [Task -> TaskStates]
    BY <1>1, <1>12, <2>2, Moves, TaskMoves DEF HandleTask, PC, TaskStates
  <2>4. QED
    BY <1>12, <2>3 DEF HandleTask, attemptVars, callVars, bounds, RunnersTyped
<1>13. CASE GenericHandler(p)
  <2>1. RunnersTyped' /\ task' \in [Task -> TaskStates]
    BY <1>1, <1>13, Moves, TaskMoves DEF GenericHandler, TaskStates, PC
  <2>2. QED
    BY <1>13, <2>1 DEF GenericHandler, attemptVars, callVars, bounds, RunnersTyped
<1>14. CASE After(p) \/ Finish(p) \/ FinalizeRun(p)
  <2>1. RunnersTyped'
    BY <1>1, <1>14, Moves DEF After, Finish, FinalizeRun
  <2>2. QED
    BY <1>14, <2>1 DEF After, Finish, FinalizeRun, taskVars, attemptVars, callVars, bounds, RunnersTyped
<1>15. QED
  BY <1>2, <1>3, <1>4, <1>5, <1>6, <1>7, <1>8, <1>9, <1>10, <1>11, <1>12, <1>13, <1>14, <1>16, <1>17
     DEF ExecuteStep

\* The commands of the user, crashes and a reviewer that writes keep the types.
LEMMA CommandTyped ==
  ASSUME ControlTypeOK,
         \/ RequestPause \/ Takeover \/ Freeze \/ Cancel \/ ResolveCall \/ MarkActive
         \/ CommandCrash \/ ReviewerWrites \/ \E p \in Runner : Crash(p)
  PROVE  ControlTypeOK'
<1> USE DEF ControlTypeOK
<1>1. ASSUME NEW kind, Command(kind)
      PROVE  /\ commands' \in 0..MaxCommands
             /\ UNCHANGED <<task, attempt, closed, content, noRetry, runner, launches>>
  BY <1>1, ControlAssumption DEF Command
<1>2. CASE RequestPause \/ Takeover \/ Freeze \/ Cancel
  BY <1>1, <1>2 DEF RequestPause, Takeover, Freeze, Cancel
<1>3. CASE ResolveCall
  <2>1. call' \in [Slot -> CallStates] /\ opinion' \in [Task -> Opinion \cup {"none"}]
    BY <1>3, SaidTyped DEF ResolveCall, Calls, Slot, CallStates, InvocationStates
  <2>2. QED
    BY <1>1, <1>3, <2>1 DEF ResolveCall
<1>4. CASE MarkActive
  <2>1. call' \in [Slot -> CallStates]
    BY <1>4 DEF MarkActive, CallStates, InvocationStates
  <2>2. QED
    BY <1>4, <2>1 DEF MarkActive, attemptVars, bounds
<1>5. ASSUME NEW p \in Runner, Crash(p) PROVE ControlTypeOK'
  <2>1. RunnersTyped'
    BY <1>5, Moves DEF Crash, RunnersTyped
  <2>2. QED
    BY <1>5, <2>1 DEF Crash, taskVars, attemptVars, callVars, bounds, RunnersTyped
<1>6. CASE CommandCrash
  BY <1>6 DEF CommandCrash, taskVars, attemptVars, callVars, bounds
<1>8. CASE ReviewerWrites
  BY <1>8 DEF ReviewerWrites, Touched, Content, attemptVars, callVars, bounds
<1>7. QED
  BY <1>2, <1>3, <1>4, <1>5, <1>6, <1>8

-----------------------------------------------------------------------------
(***************************************************************************)
(* The row of the run.                                                     *)
(***************************************************************************)
LEMMA ControlRowStep == ControlTypeOK /\ [Next]_vars => [RunNext]_runVars
<1> SUFFICES ASSUME ControlTypeOK, Next PROVE [RunNext]_runVars
  BY DEF vars, runVars
<1>1. ASSUME NEW p, NEW target \in ControlStates, NEW next, ControlStep(p, target, next)
      PROVE  [RunNext]_runVars
  BY <1>1 DEF ControlStep, RunNext
<1>2. ASSUME NEW p \in Runner, ToRunning(p) \/ SafePauseWrite(p) PROVE [RunNext]_runVars
  <2>1. {"RESUMING", "RUNNING", "PAUSE_REQUESTED", "QUIESCING", "PAUSED"} \subseteq ControlStates
    BY DEF ControlStates
  <2>2. QED
    BY <1>1, <1>2, <2>1 DEF ToRunning, SafePauseWrite, RunNext
<1>3. ASSUME NEW p \in Runner, FinalizeRun(p) PROVE [RunNext]_runVars
  <2>1. runner[p].verdict \in TerminalRunStates
    BY DEF ControlTypeOK, Process, TerminalRunStates
  <2>2. QED
    BY <1>3, <2>1 DEF FinalizeRun, RunNext
<1>4. ASSUME RequestPause \/ Takeover \/ Freeze \/ Cancel PROVE RunNext
  BY <1>4 DEF RequestPause, Takeover, Freeze, Cancel, RunNext, ControlStates,
              TerminalRunStates
<1>5. ASSUME NEW p \in Runner, Launch(p) \/ ResumeStep(p) \/ ExecuteStep(p) \/ Crash(p)
      PROVE  [RunNext]_runVars
  BY <1>2, <1>3, <1>5
     DEF Launch, ResumeStep, CheckCalls, RestoreResolved, FindTakeoverChanges, Invalidate, InvalidateTask,
         Renew, ExecuteStep, PauseIfRequested, SafePauseRead, Step, Promote, Prevented, BeginCall,
         Answer, Driven, Test, Compare, Verdict, Settle, HandleTask, GenericHandler, After, Finish, Crash
<1>6. ASSUME ResolveCall \/ MarkActive \/ CommandCrash \/ ReviewerWrites PROVE [RunNext]_runVars
  BY <1>6 DEF ResolveCall, MarkActive, CommandCrash, ReviewerWrites
<1>7. QED
  BY <1>4, <1>5, <1>6 DEF Next

\* Types and the consistency of the verdict hold of every reachable state.
LEMMA ControlInvariant == Spec => [](RunInv /\ ControlTypeOK)
<1>1. Init => RunInv /\ ControlTypeOK
  BY RunInvInit, ControlInitTyped DEF Init
<1>2. (RunInv /\ ControlTypeOK) /\ [Next]_vars => (RunInv /\ ControlTypeOK)'
  <2> SUFFICES ASSUME RunInv, ControlTypeOK, [Next]_vars PROVE (RunInv /\ ControlTypeOK)'
    OBVIOUS
  <2>1. RunInv'
    BY ControlRowStep, RunInvStep
  <2>2. RunTypeOK
    BY DEF RunInv
  <2>3. CASE Next
    BY <2>1, <2>2, <2>3, ResumeTyped, ExecuteTyped, CommandTyped DEF Next
  <2>4. CASE UNCHANGED vars
    BY <2>1, <2>4 DEF vars, ControlTypeOK
  <2>5. QED
    BY <2>3, <2>4
<1>3. QED
  BY <1>1, <1>2, PTL DEF Spec

(* Runners, commands and crashes keep every variable in its type: no path  *)
(* through the handlers leaves a task in a state that does not exist or    *)
(* counts an attempt beyond the bound.                                     *)
THEOREM ControlTypeCorrect == Spec => []TypeOK
<1>1. RunInv /\ ControlTypeOK => TypeOK
  BY DEF RunInv, ControlTypeOK, TypeOK
<1>2. QED
  BY <1>1, ControlInvariant, PTL

(* A controlled run behaves as the store promises: whatever processes and  *)
(* commands do to its row is a sequence of the store's transactions.       *)
THEOREM ControlKeepsRun == Spec => RunSpec
<1>1. RunInv /\ ControlTypeOK /\ [Next]_vars => [RunNext]_runVars
  BY ControlRowStep
<1>2. Init => RunInit
  BY DEF Init
<1>3. QED
  BY <1>1, <1>2, ControlInvariant, PTL DEF Spec, RunSpec

(* Once a run is completed, failed or cancelled, no late handler, resume,  *)
(* pause, freeze or second verdict changes its row.                        *)
THEOREM ControlKeepsVerdict == Spec => VerdictFinal
  BY ControlKeepsRun, VerdictIsFinal, PTL

(* finished_at, run_state and the terminal checkpoint agree, whichever     *)
(* process writes them last.                                               *)
THEOREM ControlConsistent == Spec => []VerdictConsistent
<1>1. RunTypeOK /\ VerdictConsistent => VerdictConsistent
  OBVIOUS
<1>2. QED
  BY <1>1, ControlKeepsRun, RunConsistency, PTL
=============================================================================
