-------------------------- MODULE StagingSync_proofs --------------------------
(* Proofs about StagingSync, for any files, contents, bounds and origins.  *)
EXTENDS StagingSync, TLAPS

(* What reading and writing a file tree preserves.                         *)
LEMMA TreeFacts ==
  /\ Empty \in Tree /\ Missing \notin Tree
  /\ \A t \in Tree, f \in File, v \in Version : [t EXCEPT ![f] = v] \in Tree
  /\ \A t \in Tree, f \in File : t[f] \in Version
  /\ Off \in Process /\ NoBox \in Sandbox /\ NoRow \in SyncRow
<1>1. Absent \in Version
  BY DEF Version
<1>2. Empty \in Tree
  BY <1>1 DEF Empty, Tree
<1>3. Missing \notin Tree
  BY StagingAssumption
<1>4. Off \in Process
  BY <1>2 DEF Off, Process, PC
<1>5. NoBox \in Sandbox /\ NoRow \in SyncRow
  BY <1>2 DEF NoBox, NoRow, Sandbox, SyncRow
<1> QED
  BY <1>2, <1>3, <1>4, <1>5 DEF Tree

(* The initial states have their types.                                    *)
LEMMA TypeInit == Init => TypeOK
<1> SUFFICES ASSUME Init PROVE TypeOK
  OBVIOUS
<1>1. PICK kind \in Origins : OriginState(kind, worktree)
  BY DEF Init
<1>2. kind \in {"fresh", "planned", "legacy"}
  BY <1>1, StagingAssumption DEF OriginKinds
<1>3. worktree \in Tree
  BY DEF Init
<1>4. box \in Sandbox
  BY <1>1, <1>3, TreeFacts DEF OriginState, Sandbox, NoBox
<1>5. row \in SyncRow
  BY <1>1, TreeFacts DEF OriginState, SyncRow, NoRow
<1>6. call \in {"absent", "planned", "completed"}
  BY <1>1, <1>2 DEF OriginState
<1>7. attempt \in [number : 0..MaxAttempts, outcome : {"open", "sync_failed", "input_mismatch"}]
  BY <1>1, StagingAssumption DEF OriginState
<1>8. runner \in Process
  BY TreeFacts DEF Init, Off, Process, PC
<1>9. ghost \in Ghost
  BY <1>3 DEF Init, Ghost
<1> QED
  BY <1>3, <1>4, <1>5, <1>6, <1>7, <1>8, <1>9, StagingAssumption DEF Init, TypeOK

(* Setting a field of the process to a value of its type keeps the type.   *)
LEMMA ProcessUpdates ==
  ASSUME NEW r \in Process
  PROVE  /\ \A pc \in PC : [r EXCEPT !.pc = pc] \in Process
         /\ \A f \in File : [r EXCEPT !.file = f] \in Process
         /\ \A n \in 1..2 : [r EXCEPT !.candidate = n] \in Process
         /\ [r EXCEPT !.recovering = TRUE] \in Process
         /\ \A S \in SUBSET File : /\ [r EXCEPT !.todo = S] \in Process
                                   /\ [r EXCEPT !.held = S] \in Process
                                   /\ [r EXCEPT !.lost = S] \in Process
         /\ \A t \in Tree : /\ [r EXCEPT !.baseline = t] \in Process
                            /\ [r EXCEPT !.saved = t] \in Process
                            /\ [r EXCEPT !.manifest = t] \in Process
  BY DEF Process

(* Every step leaves the runner with its type.                             *)
LEMMA RunnerType == TypeOK /\ [Next]_vars => runner' \in Process
<1> SUFFICES ASSUME TypeOK, [Next]_vars PROVE runner' \in Process
  OBVIOUS
<1> USE TreeFacts
<1>0. /\ runner \in Process /\ worktree \in Tree /\ box.tree \in Tree
      /\ runner.todo \in SUBSET File /\ runner.held \in SUBSET File
      /\ runner.lost \in SUBSET File /\ runner.saved \in Tree
      /\ runner.baseline \in Tree /\ runner.candidate \in 1..2
  BY DEF TypeOK, Process, Sandbox
<1>01. Produced \in SUBSET File /\ File \in SUBSET File /\ {} \in SUBSET File
  BY DEF Produced
<1>a. \A pc \in PC : Goto(pc) => runner' \in Process
  BY <1>0, ProcessUpdates DEF Goto
<1>b. Leave => runner' \in Process
  BY DEF Leave
<1>c. {"off", "drive", "build", "capture", "copy", "invoke", "calling",
       "verify", "check", "commit", "replace", "rollback", "record",
       "advance", "report", "close", "fail"} \subseteq PC
  BY DEF PC
<1>1. CASE NewAttempt \/ StartRow \/ Copy \/ Invoke \/ WriteFails \/ RolledBack
           \/ Replace \/ RecordDone \/ Report \/ CloseAttempt \/ Resume
  BY <1>1, <1>a, <1>c DEF NewAttempt, StartRow, Copy, Invoke, WriteFails, RolledBack,
     Replace, RecordDone, Report, CloseAttempt, Resume
<1>2. CASE DriveCall \/ Advance \/ FailTask \/ Crash
  BY <1>2, <1>a, <1>b, <1>c DEF DriveCall, Advance, FailTask, Crash
<1>3. CASE Recover
  <2>1. CASE Recoverable
    <3>1. row.baseline \in Tree
      BY <2>1 DEF Recoverable, TypeOK, SyncRow
    <3> QED
      BY <1>3, <2>1, <3>1, <1>0, <1>c DEF Recover, Process
  <2> QED
    BY <1>3, <2>1, <1>a, <1>b, <1>c DEF Recover
<1>4. CASE Build
  BY <1>4, <1>0, <1>01, <1>a, <1>c DEF Build, Process
<1>5. ASSUME NEW f \in File, Capture(f) PROVE runner' \in Process
  <2>1. runner.todo \ {f} \in SUBSET File
    BY <1>0
  <2>2. [runner.baseline EXCEPT ![f] = worktree[f]] \in Tree
    BY <1>0
  <2> QED
    BY <1>5, <2>1, <2>2, <1>0, <1>c DEF Capture, Process
<1>6. CASE NotInvoked \/ Answer
  <2>1. NextCandidate => runner' \in Process
    <3>1. runner.candidate < Candidates => runner.candidate + 1 \in 1..2
      BY <1>0, StagingAssumption
    <3> QED
      BY <3>1, <1>0, <1>b, <1>c DEF NextCandidate, Process
  <2> QED
    BY <1>6, <2>1, <1>a, <1>b, <1>c DEF NotInvoked, Answer
<1>7. CASE Verify \/ Checked
  BY <1>7, <1>0, <1>01, <1>a, <1>c DEF Verify, Checked, Process
<1>8. ASSUME NEW f \in File, Check(f) \/ Save(f) \/ Restore(f) \/ RestoreFails(f)
      PROVE  runner' \in Process
  <2>1. /\ runner.todo \ {f} \in SUBSET File /\ runner.held \ {f} \in SUBSET File
        /\ runner.held \cup {f} \in SUBSET File /\ runner.lost \cup {f} \in SUBSET File
    BY <1>0
  <2>2. [runner.saved EXCEPT ![f] = worktree[f]] \in Tree
    BY <1>0
  <2>3. CASE Check(f)
    BY <2>3, <2>1, <1>0, <1>a, <1>c DEF Check, Process
  <2>4. CASE Save(f)
    BY <2>4, <2>1, <2>2, <1>0, <1>c DEF Save, Process
  <2>5. CASE Restore(f)
    BY <2>5, <2>1, <1>0 DEF Restore, Process
  <2>6. CASE RestoreFails(f)
    BY <2>6, <2>1, <1>0 DEF RestoreFails, Process
  <2> QED
    BY <1>8, <2>3, <2>4, <2>5, <2>6
<1>9. CASE Manifest
  <2>1. [f \in File |-> IF f \in Produced THEN worktree[f] ELSE Absent] \in Tree
    BY <1>0 DEF Tree, Version
  <2> QED
    BY <1>9, <2>1, <1>0, <1>a, <1>c DEF Manifest, Process
<1>10. CASE Work \/ Edit \/ RemoveSandbox \/ ResolveCall \/ UNCHANGED vars
  BY <1>10, <1>0 DEF Work, Edit, RemoveSandbox, ResolveCall, vars
<1> QED
  BY <1>1, <1>2, <1>3, <1>4, <1>5, <1>6, <1>7, <1>8, <1>9, <1>10 DEF Next, RunnerStep

(* Every step keeps the other types.                                       *)
LEMMA TypeStep == TypeOK /\ [Next]_vars => TypeOK'
<1> SUFFICES ASSUME TypeOK, [Next]_vars PROVE TypeOK'
  OBVIOUS
<1> USE TreeFacts, StagingAssumption
<1>0. runner' \in Process
  BY RunnerType
<1>1. CASE NewAttempt
  <2>1. attempt.number + 1 \in 0..MaxAttempts
    BY <1>1 DEF NewAttempt, TypeOK
  <2>2. ghost' \in Ghost
    BY <1>1 DEF NewAttempt, TypeOK, Ghost
  <2> QED
    BY <1>0, <1>1, <2>1, <2>2 DEF NewAttempt, TypeOK
<1>2. CASE DriveCall \/ Recover \/ NotInvoked \/ Invoke \/ Answer \/ Verify \/ Checked
           \/ RolledBack \/ Manifest \/ Advance \/ FailTask \/ ResolveCall \/ Resume
  BY <1>0, <1>2 DEF DriveCall, Recover, NotInvoked, Invoke, Answer, Verify, Checked,
     RolledBack, Manifest, Advance, FailTask, ResolveCall, Resume, TypeOK
<1>3. CASE Build \/ Copy \/ Work \/ RemoveSandbox
  <2>1. box' \in Sandbox
    <3>1. [NoBox EXCEPT !.there = TRUE] \in Sandbox
      BY DEF Sandbox
    <3>2. \A f, v : v \in Version => [box EXCEPT !.tree[f] = v] \in Sandbox
      <4> SUFFICES ASSUME NEW f, NEW v \in Version
                   PROVE  [box EXCEPT !.tree[f] = v] \in Sandbox
        OBVIOUS
      <4>1. [box.tree EXCEPT ![f] = v] \in Tree
        BY DEF TypeOK, Sandbox, Tree
      <4> QED
        BY <4>1 DEF TypeOK, Sandbox
    <3>3. Copy => worktree[runner.file] \in Version \/ runner.file \notin File
      BY DEF Copy, TypeOK
    <3>4. runner.file \notin File => \A v : [box EXCEPT !.tree[runner.file] = v] \in Sandbox
      <4>1. runner.file \notin File => \A v : [box.tree EXCEPT ![runner.file] = v] = box.tree
        BY DEF TypeOK, Sandbox, Tree
      <4> QED
        BY <4>1 DEF TypeOK, Sandbox
    <3>5. CASE Copy
      BY <3>2, <3>3, <3>4, <3>5 DEF Copy
    <3>6. CASE Work
      BY <3>2, <3>6 DEF Work, TypeOK, Sandbox
    <3> QED
      BY <1>3, <3>1, <3>5, <3>6 DEF Build, RemoveSandbox, TypeOK, Sandbox
  <2> QED
    BY <1>0, <1>3, <2>1 DEF Build, Copy, Work, RemoveSandbox, TypeOK
<1>4. ASSUME NEW f \in File, Capture(f) PROVE TypeOK'
  <2>1. ghost' \in Ghost
    BY <1>4 DEF Capture, TypeOK, Ghost
  <2> QED
    BY <1>0, <1>4, <2>1 DEF Capture, TypeOK
<1>5. CASE StartRow \/ RecordDone
  <2>1. row' \in SyncRow
    <3>1. runner.baseline \in Tree /\ runner.manifest \in Tree /\ row \in SyncRow
      BY DEF TypeOK, Process
    <3> QED
      BY <1>5, <3>1 DEF StartRow, RecordDone, SyncRow
  <2>2. ghost' \in Ghost
    BY <1>5 DEF StartRow, RecordDone, TypeOK, Ghost
  <2> QED
    BY <1>0, <1>5, <2>1, <2>2 DEF StartRow, RecordDone, TypeOK
<1>6. CASE Replace
  <2>1. runner.file \in File => worktree' \in Tree
    BY <1>6 DEF Replace, TypeOK, Sandbox
  <2>2. runner.file \notin File => worktree' = worktree
    BY <1>6 DEF Replace, TypeOK, Tree
  <2> QED
    BY <1>0, <1>6, <2>1, <2>2 DEF Replace, TypeOK
<1>7. CASE WriteFails
  BY <1>0, <1>7 DEF WriteFails, TypeOK, Ghost
<1>8. ASSUME NEW f \in File, Check(f) \/ Save(f) \/ Restore(f) \/ RestoreFails(f)
      PROVE  TypeOK'
  <2>1. worktree' \in Tree
    BY <1>8 DEF Check, Save, Restore, RestoreFails, TypeOK, Process
  <2> QED
    BY <1>0, <1>8, <2>1 DEF Check, Save, Restore, RestoreFails, TypeOK
<1>9. CASE Report
  BY <1>0, <1>9 DEF Report, TypeOK, Process
<1>10. CASE CloseAttempt
  BY <1>0, <1>10 DEF CloseAttempt, TypeOK
<1>11. CASE Edit
  <2>1. worktree' \in Tree /\ ghost' \in Ghost
    <3>1. PICK f \in File, v \in Version :
            /\ worktree' = [worktree EXCEPT ![f] = v]
            /\ ghost' = [ghost EXCEPT !.own[f] = v, !.drifted = @ \cup {f},
                                      !.raced = IF Syncing THEN @ \cup {f} ELSE @]
      BY <1>11 DEF Edit
    <3>2. worktree' \in Tree /\ [ghost.own EXCEPT ![f] = v] \in Tree
      BY <3>1 DEF TypeOK, Ghost
    <3> QED
      BY <3>1, <3>2 DEF TypeOK, Ghost
  <2> QED
    BY <1>0, <1>11, <2>1 DEF Edit, TypeOK
<1>12. CASE Crash
  <2>1. ghost' \in Ghost
    <3> DEFINE torn == ghost.torn \/ runner.held \cup runner.lost # {}
    <3>1. torn \in BOOLEAN /\ ghost' = [ghost EXCEPT !.torn = torn]
      BY <1>12 DEF Crash
    <3> HIDE DEF torn
    <3> QED
      BY <3>1 DEF TypeOK, Ghost
  <2> QED
    BY <1>0, <1>12, <2>1 DEF Crash, TypeOK
<1>13. CASE UNCHANGED vars
  BY <1>13 DEF vars, TypeOK
<1> QED
  BY <1>1, <1>2, <1>3, <1>4, <1>5, <1>6, <1>7, <1>8, <1>9, <1>10, <1>11, <1>12, <1>13
  DEF Next, RunnerStep

(* The state of a staging sync keeps its type, for any files, contents,    *)
(* attempts, edits and crashes.                                            *)
THEOREM SyncTypeCorrect == Spec => []TypeOK
BY TypeInit, TypeStep, PTL DEF Spec

-----------------------------------------------------------------------------
(* The inductive invariant, in parts.                                      *)

Placing == {"build", "capture", "copy", "invoke", "calling"}
Writing == {"commit", "replace"}
Returning == {"verify", "check", "commit", "replace", "rollback", "record"}
InCommit == Writing \cup {"rollback", "record"}

\* Where the runner may be, by the state of the call, the attempt and the row.
Phases ==
  /\ runner.pc \in Placing => call # "completed" /\ attempt.outcome = "open"
  /\ runner.pc \in Returning => call = "completed" /\ attempt.outcome = "open"
  /\ row.state = "synced" => /\ call = "completed" /\ attempt.outcome = "open"
                             /\ runner.pc \in {"off", "drive", "advance"}
  /\ runner.pc = "calling" => call = "started"
  /\ runner.pc = "report" => attempt.outcome = "open"

\* The files in each phase of a commit.
Books ==
  /\ runner.pc \in {"off", "drive", "verify", "check"} \cup Placing =>
       runner.held = {} /\ runner.lost = {}
  /\ runner.pc \in {"check"} \cup Writing => runner.todo \subseteq Produced
  /\ runner.pc \in Writing => runner.lost = {} /\ runner.todo \cap runner.held = {}
  /\ runner.pc = "replace" => runner.file \in (Produced \cap runner.held) \ runner.todo
  /\ runner.pc \in {"rollback", "report"} => ghost.faulty

\* What has been written is the output, unless the owner wrote meanwhile.
Outputs ==
  /\ runner.pc \in Writing => \A f \in Produced \ runner.todo :
       \/ runner.pc = "replace" /\ f = runner.file
       \/ worktree[f] = box.tree[f]
       \/ f \in ghost.raced \cap ghost.drifted
  /\ runner.pc = "record" => \A f \in File \ ghost.raced :
       runner.manifest[f] = box.tree[f]
  /\ SyncedIsComplete

\* Before the call is completed and after the sync nothing is outstanding.
NothingOwed == call # "completed" \/ row.state = "synced" => ghost.own = worktree

InHand == IF runner.pc \in InCommit THEN runner.held \cup runner.lost
          ELSE IF runner.pc = "report" THEN runner.lost ELSE {}

\* A file that is not as the owner had it can still be restored, or reported.
Undoable ==
  ~ghost.torn /\ ghost.raced = {} =>
    /\ \A f \in File \ reported : worktree[f] # ghost.own[f] => f \in InHand
    /\ runner.pc \in Writing \cup {"rollback"} =>
         \A f \in runner.held \ reported : runner.saved[f] = ghost.own[f]

\* The baseline a sync compares with was captured for this sandbox.
Baselines ==
  /\ runner.pc \in {"capture", "copy"} =>
       \A f \in File \ runner.todo : runner.baseline[f] = ghost.captured[f]
  /\ runner.pc \in {"invoke", "calling"} => runner.baseline = ghost.captured
  /\ runner.pc \in Returning => runner.baseline \in {ghost.captured, row.baseline}

\* What may be overwritten was there when the sandbox was built.
Overwritable ==
  BaselineCurrent =>
    /\ OverwritesOnlyCaptured
    /\ runner.pc \in {"check"} \cup Writing =>
         \A f \in Produced \ ghost.raced :
           \/ runner.pc = "check" /\ f \in runner.todo
           \/ ghost.own[f] \in {ghost.captured[f], box.tree[f]}
    /\ runner.pc \in Writing \cup {"rollback"} =>
         \A f \in runner.held \ ghost.raced :
           \/ runner.saved[f] = ghost.own[f]
           \/ runner.saved[f] = box.tree[f] /\ ghost.own[f] = ghost.captured[f]

\* A file the owner has left alone holds what was captured, or the output.
Undrifted ==
  /\ call # "completed" => \A f \in File \ ghost.drifted :
       \/ worktree[f] = ghost.captured[f]
       \/ /\ call = "absent" /\ runner.pc # "invoke"
          /\ runner.pc \in {"capture", "copy"} => f \in runner.todo
  /\ call = "completed" /\ row.state # "synced" => \A f \in File \ ghost.drifted :
       worktree[f] \in {ghost.captured[f], box.tree[f]}
  /\ runner.pc \in Writing \cup {"rollback"} => \A f \in runner.held \ ghost.drifted :
       runner.saved[f] \in {ghost.captured[f], box.tree[f]}

\* Why a finished call's sync is given up.
Reasons ==
  /\ attempt.outcome = "sync_failed" \/ (runner.pc = "close" /\ call = "completed")
  /\ BaselineCurrent
  => box.tainted \/ ghost.faulty \/ ghost.drifted # {}

(* Every step leaves the runner where the call and the attempt allow it.   *)
LEMMA PhasesStep == TypeOK /\ Phases /\ [Next]_vars => Phases'
<1> SUFFICES ASSUME TypeOK, Phases, [Next]_vars PROVE Phases'
  OBVIOUS
<1>0. runner \in Process /\ row \in SyncRow
  BY DEF TypeOK
<1> USE <1>0 DEF Phases, Placing, Returning, At, Goto, Leave, Off, Process
<1>1. CASE NewAttempt \/ DriveCall \/ Recover
  <2>1. CASE NewAttempt
    BY <2>1 DEF NewAttempt, Continues, NoRow
  <2>2. CASE DriveCall
    BY <2>2 DEF DriveCall, Continues
  <2>3. CASE Recover
    <3>1. CASE Recoverable
      BY <2>3, <3>1 DEF Recover, Recoverable, Continues
    <3>2. CASE ~Recoverable
      BY <2>3, <3>2 DEF Recover, Continues
    <3> QED
      BY <3>1, <3>2
  <2> QED
    BY <1>1, <2>1, <2>2, <2>3
<1>2. CASE Build \/ Copy
  BY <1>2 DEF Build, Copy
<1>3. CASE StartRow
  BY <1>3 DEF StartRow, SyncRow
<1>4. ASSUME NEW f \in File, Capture(f) PROVE Phases'
  BY <1>4 DEF Capture
<1>5. CASE NotInvoked \/ Invoke \/ Answer
  <2>1. NextCandidate => runner'.pc \in {"build", "off"}
    <3>1. CASE runner.candidate < Candidates
      BY <3>1 DEF NextCandidate
    <3> QED
      BY <3>1 DEF NextCandidate
  <2>2. CASE NotInvoked
    BY <2>1, <2>2 DEF NotInvoked
  <2>3. CASE Invoke
    BY <2>3 DEF Invoke
  <2>4. CASE Answer
    BY <2>1, <2>4 DEF Answer
  <2> QED
    BY <1>5, <2>2, <2>3, <2>4
<1>6. CASE Verify \/ Checked \/ Replace \/ WriteFails \/ RolledBack \/ Manifest
  BY <1>6 DEF Verify, Checked, Replace, WriteFails, RolledBack, Manifest
<1>7. ASSUME NEW f \in File, Check(f) \/ Save(f) \/ Restore(f) \/ RestoreFails(f)
      PROVE  Phases'
  BY <1>7 DEF Check, Save, Restore, RestoreFails
<1>8. CASE RecordDone
  BY <1>8 DEF RecordDone, SyncRow
<1>9. CASE Advance \/ Report \/ CloseAttempt \/ FailTask
  BY <1>9 DEF Advance, Report, CloseAttempt, FailTask
<1>10. CASE Work \/ Edit \/ RemoveSandbox
  BY <1>10 DEF Work, Edit, RemoveSandbox
<1>12. CASE ResolveCall \/ Resume
  BY <1>12 DEF ResolveCall, Resume
<1>13. CASE Crash
  BY <1>13 DEF Crash
<1>11. CASE UNCHANGED vars
  BY <1>11 DEF vars
<1> QED
  BY <1>1, <1>2, <1>3, <1>4, <1>5, <1>6, <1>7, <1>8, <1>9, <1>10, <1>11, <1>12, <1>13
  DEF Next, RunnerStep

(* The initial states of the invariant's parts.                            *)
LEMMA PartsInit ==
  Init => /\ Phases /\ Books /\ Outputs /\ NothingOwed /\ Undoable
          /\ Baselines /\ Overwritable /\ Undrifted /\ Reasons
<1> SUFFICES ASSUME Init
             PROVE  /\ Phases /\ Books /\ Outputs /\ NothingOwed /\ Undoable
                    /\ Baselines /\ Overwritable /\ Undrifted /\ Reasons
  OBVIOUS
<1>1. PICK kind \in Origins : OriginState(kind, worktree)
  BY DEF Init
<1>2. kind \in {"fresh", "planned", "legacy"}
  BY <1>1, StagingAssumption DEF OriginKinds
<1>3. /\ call \in {"absent", "planned", "completed"} /\ attempt.outcome = "open"
      /\ row.state = "synced" => call = "completed"
      /\ row.manifest = Missing
  BY <1>1, <1>2 DEF OriginState, NoRow
<1>4. /\ runner.pc = "drive" /\ runner.held = {} /\ runner.lost = {}
      /\ ghost.own = worktree /\ ghost.captured = worktree
  BY DEF Init, Off
<1>5. Phases /\ Books /\ Outputs /\ NothingOwed
  BY <1>3, <1>4 DEF Phases, Placing, Returning, Books, Writing, Outputs,
     SyncedIsComplete, NothingOwed
<1>6. Undoable /\ Baselines /\ Overwritable /\ Undrifted /\ Reasons
  BY <1>3, <1>4 DEF Undoable, Baselines, Overwritable, Undrifted, Reasons, Writing,
     Returning, OverwritesOnlyCaptured
<1> QED
  BY <1>5, <1>6

(* A synced row and what was synced are left alone.                        *)
LEMMA KeptStep ==
  TypeOK /\ Phases /\ [Next]_vars =>
    (row.state = "synced" => /\ row' = row
                             /\ worktree' # worktree => edits' # edits)
<1> SUFFICES ASSUME TypeOK, Phases, [Next]_vars, row.state = "synced"
             PROVE  row' = row /\ (worktree' # worktree => edits' # edits)
  OBVIOUS
<1>1. runner.pc \in {"off", "drive", "advance"} /\ Continues
  BY DEF Phases, Continues
<1>2. ASSUME NEW f \in File, Capture(f) \/ Check(f) \/ Save(f) \/ Restore(f) \/ RestoreFails(f)
      PROVE  FALSE
  BY <1>1, <1>2 DEF Capture, Check, Save, Restore, RestoreFails, At
<1>3. CASE NewAttempt \/ StartRow \/ Replace \/ RecordDone
  BY <1>1, <1>3 DEF NewAttempt, StartRow, Replace, RecordDone, At
<1>4. CASE DriveCall \/ Recover \/ Build \/ Copy \/ NotInvoked \/ Invoke \/ Answer \/ Verify
           \/ Checked \/ WriteFails \/ RolledBack \/ Manifest \/ Advance \/ Report
           \/ CloseAttempt \/ FailTask
  BY <1>4 DEF DriveCall, Recover, Build, Copy, NotInvoked, Invoke, Answer, Verify, Checked,
     WriteFails, RolledBack, Manifest, Advance, Report, CloseAttempt, FailTask
<1>5. CASE Edit
  BY <1>5 DEF Edit, TypeOK
<1>6. CASE Work \/ RemoveSandbox \/ ResolveCall \/ Resume \/ Crash \/ UNCHANGED vars
  BY <1>6 DEF Work, RemoveSandbox, ResolveCall, Resume, Crash, vars
<1> QED
  BY <1>2, <1>3, <1>4, <1>5, <1>6 DEF Next, RunnerStep

(* Every step keeps the books of the files to write, held and lost.        *)
LEMMA BooksStep == TypeOK /\ Phases /\ Books /\ [Next]_vars => Books'
<1> SUFFICES ASSUME TypeOK, Phases, Books, [Next]_vars PROVE Books'
  OBVIOUS
<1>0. /\ runner \in Process /\ ghost \in Ghost /\ box \in Sandbox
      /\ box.tree' = box.tree => Produced' = Produced
  BY DEF TypeOK, Produced
<1> USE <1>0 DEF Books, Placing, Writing, At, Goto, Leave, Off, Process
<1>1. CASE NewAttempt \/ DriveCall \/ Build \/ StartRow \/ Copy
  <2>1. CASE NewAttempt \/ StartRow
    BY <2>1 DEF NewAttempt, StartRow
  <2>2. CASE DriveCall
    BY <2>2 DEF DriveCall
  <2>3. CASE Build
    BY <2>3 DEF Build
  <2>4. CASE Copy
    BY <2>4 DEF Copy
  <2> QED
    BY <1>1, <2>1, <2>2, <2>3, <2>4
<1>2. CASE Recover
  <2>1. CASE Recoverable
    BY <1>2, <2>1 DEF Recover
  <2> QED
    BY <1>2, <2>1 DEF Recover
<1>3. ASSUME NEW f \in File, Capture(f) PROVE Books'
  BY <1>3 DEF Capture
<1>4. CASE NotInvoked \/ Invoke \/ Answer
  <2>1. NextCandidate => /\ runner'.pc \in {"build", "off"}
                         /\ runner'.held \in {{}, runner.held} /\ runner'.lost \in {{}, runner.lost}
    <3>1. CASE runner.candidate < Candidates
      BY <3>1 DEF NextCandidate
    <3> QED
      BY <3>1 DEF NextCandidate
  <2>2. CASE NotInvoked
    BY <2>1, <2>2 DEF NotInvoked
  <2>3. CASE Invoke
    BY <2>3 DEF Invoke
  <2>4. CASE Answer
    BY <2>1, <2>4 DEF Answer
  <2> QED
    BY <1>4, <2>2, <2>3, <2>4
<1>5. CASE Verify
  <2>1. CASE box.tainted
    BY <1>5, <2>1 DEF Verify
  <2>2. CASE ~box.tainted
    <3>1. /\ runner' = [runner EXCEPT !.pc = "check", !.todo = Produced]
          /\ Produced' = Produced /\ ghost' = ghost
      BY <1>5, <2>2, <1>0 DEF Verify
    <3>2. /\ runner'.pc = "check" /\ runner'.todo = Produced
          /\ runner'.held = runner.held /\ runner'.lost = runner.lost
      BY <3>1
    <3> QED
      BY <1>5, <3>1, <3>2 DEF Verify
  <2> QED
    BY <2>1, <2>2
<1>6. CASE Checked \/ Replace
  BY <1>6 DEF Checked, Replace
<1>7. CASE WriteFails
  BY <1>7 DEF WriteFails, Ghost
<1>8. CASE RolledBack \/ Manifest
  <2>1. CASE RolledBack
    BY <2>1 DEF RolledBack
  <2>2. CASE Manifest
    <3>1. /\ runner'.pc \in {"record", "fail", "close"}
          /\ runner.pc = "commit" /\ UNCHANGED <<box, ghost>>
      <4> DEFINE files == [f \in File |-> IF f \in Produced THEN worktree[f] ELSE Absent]
      <4>1. runner' = [runner EXCEPT !.pc = "record", !.manifest = files] => runner'.pc = "record"
        <5> HIDE DEF files
        <5> QED
          OBVIOUS
      <4>2. \/ runner' = [runner EXCEPT !.pc = "record", !.manifest = files]
            \/ runner' = [runner EXCEPT !.pc = "fail"]
            \/ runner' = [runner EXCEPT !.pc = "close"]
        BY <2>2 DEF Manifest
      <4>3. runner.pc = "commit" /\ UNCHANGED <<box, ghost>>
        BY <2>2 DEF Manifest
      <4> HIDE DEF files
      <4> QED
        BY <4>1, <4>2, <4>3
    <3> QED
      BY <3>1
  <2> QED
    BY <1>8, <2>1, <2>2
<1>9. ASSUME NEW f \in File, Check(f) PROVE Books'
  BY <1>9 DEF Check
<1>10. ASSUME NEW f \in File, Save(f) PROVE Books'
  BY <1>10 DEF Save
<1>11. ASSUME NEW f \in File, Restore(f) \/ RestoreFails(f) PROVE Books'
  BY <1>11 DEF Restore, RestoreFails
<1>12. CASE RecordDone
  BY <1>12 DEF RecordDone, Ghost
<1>13. CASE Advance \/ Report \/ CloseAttempt \/ FailTask
  BY <1>13 DEF Advance, Report, CloseAttempt, FailTask
<1>14. CASE Work
  BY <1>14 DEF Work, Phases, Returning
<1>15. CASE Edit
  BY <1>15 DEF Edit, Ghost
<1>16. CASE RemoveSandbox
  BY <1>16 DEF RemoveSandbox, Sandbox
<1>17. CASE ResolveCall \/ Resume
  BY <1>17 DEF ResolveCall, Resume
<1>18. CASE Crash
  BY <1>18 DEF Crash
<1>19. CASE UNCHANGED vars
  BY <1>19 DEF vars
<1> QED
  BY <1>1, <1>2, <1>3, <1>4, <1>5, <1>6, <1>7, <1>8, <1>9, <1>10, <1>11, <1>12, <1>13,
     <1>14, <1>15, <1>16, <1>17, <1>18, <1>19
  DEF Next, RunnerStep

(* What a few actions do, in terms of the fields of the process.           *)
LEMMA NextCandidateEffect ==
  ASSUME TypeOK, NextCandidate
  PROVE  runner'.pc \in {"build", "off"}
<1>1. CASE runner.candidate < Candidates
  BY <1>1 DEF NextCandidate, TypeOK, Process
<1> QED
  BY <1>1 DEF NextCandidate, Leave, Off

(* A recovery goes on to the check, or gives the attempt up.               *)
LEMMA RecoverEffect ==
  ASSUME TypeOK, Recover
  PROVE  /\ runner.pc = "drive" /\ call = "completed"
         /\ \/ /\ runner'.pc = "verify" /\ runner'.baseline = row.baseline
               /\ row.state = "created"
            \/ runner'.pc \in {"advance", "off"}
<1>1. CASE Recoverable
  BY <1>1 DEF Recover, Recoverable, At, TypeOK, Process
<1> QED
  BY <1>1 DEF Recover, At, Goto, Leave, Off, TypeOK, Process

(* Verification goes on to the check, or gives the attempt up.             *)
LEMMA VerifyEffect ==
  ASSUME TypeOK, Verify
  PROVE  /\ runner.pc = "verify" /\ runner'.baseline = runner.baseline
         /\ \/ runner'.pc = "close" /\ box.tainted
            \/ runner'.pc = "check" /\ runner'.todo = Produced
<1>1. CASE box.tainted
  BY <1>1 DEF Verify, At, Goto, TypeOK, Process
<1>2. CASE ~box.tainted
  BY <1>2 DEF Verify, At, Goto, TypeOK, Process
<1> QED
  BY <1>1, <1>2

(* Taking the manifest reads the worktree.                                 *)
LEMMA ManifestEffect ==
  ASSUME TypeOK, Manifest
  PROVE  /\ runner.pc = "commit" /\ runner.todo = {}
         /\ runner'.baseline = runner.baseline
         /\ runner'.held = runner.held /\ runner'.lost = runner.lost
         /\ \/ /\ runner'.pc = "record"
               /\ \A f \in File :
                    runner'.manifest[f] = IF f \in Produced THEN worktree[f] ELSE Absent
            \/ /\ runner'.pc \in {"fail", "close"}
               /\ \E f \in Produced : worktree[f] = Absent
<1> DEFINE files == [f \in File |-> IF f \in Produced THEN worktree[f] ELSE Absent]
<1>1. runner.pc = "commit" /\ runner.todo = {}
  BY DEF Manifest, At
<1>2. \/ runner' = [runner EXCEPT !.pc = "record", !.manifest = files]
      \/ /\ \/ runner' = [runner EXCEPT !.pc = "fail"]
            \/ runner' = [runner EXCEPT !.pc = "close"]
         /\ \E f \in Produced : worktree[f] = Absent
  BY DEF Manifest, Goto
<1>3. \A f \in File : files[f] = IF f \in Produced THEN worktree[f] ELSE Absent
  OBVIOUS
<1> HIDE DEF files
<1> QED
  BY <1>1, <1>2, <1>3 DEF TypeOK, Process

(* Writing one file of a tree.                                             *)
LEMMA TreeUpdate ==
  ASSUME NEW t \in Tree, NEW f \in File, NEW v
  PROVE  /\ [t EXCEPT ![f] = v][f] = v
         /\ \A g \in File : g # f => [t EXCEPT ![f] = v][g] = t[g]
  BY DEF Tree

(* Replacing a file writes the worker's content into the worktree.         *)
LEMMA ReplaceEffect ==
  ASSUME TypeOK, Books, Replace
  PROVE  /\ runner.pc = "replace" /\ runner'.pc = "commit"
         /\ runner'.todo = runner.todo /\ runner'.held = runner.held
         /\ runner'.lost = runner.lost /\ runner'.saved = runner.saved
         /\ runner'.baseline = runner.baseline
         /\ runner.file \in Produced \cap runner.held /\ runner.file \in File
         /\ worktree'[runner.file] = box.tree[runner.file]
         /\ \A g \in File : g # runner.file => worktree'[g] = worktree[g]
<1>1. runner.pc = "replace" /\ runner' = [runner EXCEPT !.pc = "commit"]
  BY DEF Replace, At, Goto
<1>2. runner.file \in Produced \cap runner.held /\ runner.file \in File
  BY <1>1 DEF Books, Produced
<1>3. worktree \in Tree /\ runner \in Process
  BY DEF TypeOK
<1>4. worktree' = [worktree EXCEPT ![runner.file] = box.tree[runner.file]]
  BY DEF Replace
<1>5. /\ worktree'[runner.file] = box.tree[runner.file]
      /\ \A g \in File : g # runner.file => worktree'[g] = worktree[g]
  BY <1>2, <1>3, <1>4, TreeUpdate
<1> QED
  BY <1>1, <1>2, <1>3, <1>5 DEF Process

(* Every step keeps what was written equal to the output.                  *)
LEMMA OutputsStep == TypeOK /\ Phases /\ Books /\ Outputs /\ [Next]_vars => Outputs'
<1> SUFFICES ASSUME TypeOK, Phases, Books, Outputs, [Next]_vars PROVE Outputs'
  OBVIOUS
<1>0. /\ runner \in Process /\ ghost \in Ghost /\ box \in Sandbox /\ row \in SyncRow
      /\ worktree \in Tree /\ box.tree' = box.tree => Produced' = Produced
      /\ box' = box => Produced' = Produced
      /\ Produced \subseteq File
  BY DEF TypeOK, Produced
<1>01. row.state = "synced" => runner.pc \notin Placing \cup Returning \/ runner.pc = "record"
  BY DEF Phases, Placing, Returning
<1> USE <1>0 DEF Writing, At, Goto, Leave, Off, Process
<1>1. CASE NewAttempt
  BY <1>1 DEF NewAttempt, NoRow, Outputs, SyncedIsComplete
<1>2. CASE DriveCall \/ Invoke \/ Resume \/ ResolveCall
  BY <1>2 DEF DriveCall, Invoke, Resume, ResolveCall, Outputs, SyncedIsComplete
<1>3. CASE Recover
  BY <1>3, RecoverEffect DEF Recover, Outputs, SyncedIsComplete
<1>4. CASE Build \/ Copy
  <2>1. row.state # "synced" /\ runner'.pc \notin Writing \cup {"record"} /\ row' = row
    BY <1>4 DEF Build, Copy, Phases, Placing
  <2> QED
    BY <2>1 DEF Outputs, SyncedIsComplete
<1>5. CASE StartRow
  <2>1. row.state # "synced" /\ row'.state # "synced" /\ runner'.pc = "invoke"
    BY <1>5 DEF StartRow, Phases, SyncRow
  <2> QED
    BY <2>1 DEF Outputs, SyncedIsComplete
<1>6. ASSUME NEW f \in File, Capture(f) PROVE Outputs'
  <2>1. row.state # "synced" /\ row' = row /\ runner'.pc \in {"capture", "copy"}
    BY <1>6 DEF Capture, Phases
  <2> QED
    BY <2>1 DEF Outputs, SyncedIsComplete
<1>7. CASE NotInvoked \/ Answer
  BY <1>7, NextCandidateEffect DEF NotInvoked, Answer, Outputs, SyncedIsComplete
<1>8. CASE Verify
  BY <1>8, VerifyEffect DEF Verify, Outputs, SyncedIsComplete
<1>9. CASE Checked
  <2>1. /\ runner'.pc = "commit" /\ runner'.todo = Produced
        /\ Produced' = Produced /\ UNCHANGED <<box, row, ghost, worktree>>
    BY <1>9 DEF Checked
  <2> QED
    BY <2>1 DEF Outputs, SyncedIsComplete
<1>10. CASE Replace
  <2>1. row.state # "synced"
    BY <1>10 DEF Replace, Phases
  <2>5. Produced' = Produced /\ UNCHANGED <<box, row, ghost>>
    BY <1>10 DEF Replace
  <2>6. ASSUME NEW f \in Produced \ runner.todo
        PROVE  worktree'[f] = box.tree[f] \/ f \in ghost.raced \cap ghost.drifted
    BY <1>10, <2>6, ReplaceEffect DEF Outputs
  <2> QED
    BY <1>10, <2>1, <2>5, <2>6, ReplaceEffect DEF Outputs, SyncedIsComplete
<1>11. CASE WriteFails
  BY <1>11, <1>01 DEF WriteFails, Ghost, Phases, Outputs, SyncedIsComplete
<1>12. CASE RolledBack
  BY <1>12 DEF RolledBack, Outputs, SyncedIsComplete
<1>13. CASE Manifest
  <2>1. row.state # "synced"
    BY <1>13, ManifestEffect DEF Phases
  <2>2. ASSUME runner'.pc = "record", NEW f \in File \ ghost.raced
        PROVE  runner'.manifest[f] = box.tree[f]
    <3>1. CASE f \in Produced
      <4>1. runner'.manifest[f] = worktree[f]
        BY <1>13, ManifestEffect, <2>2, <3>1
      <4>2. worktree[f] = box.tree[f]
        BY <1>13, ManifestEffect, <3>1, <2>2 DEF Outputs
      <4> QED
        BY <4>1, <4>2
    <3>2. CASE f \notin Produced
      BY <1>13, ManifestEffect, <2>2, <3>2 DEF Produced
    <3> QED
      BY <3>1, <3>2
  <2> QED
    BY <1>13, <2>1, <2>2, ManifestEffect DEF Manifest, Outputs, SyncedIsComplete
<1>14. ASSUME NEW f \in File, Check(f) PROVE Outputs'
  BY <1>14 DEF Check, Outputs, SyncedIsComplete
<1>15. ASSUME NEW f \in File, Save(f) PROVE Outputs'
  <2>1. /\ runner.pc = "commit" /\ runner'.pc = "replace" /\ runner'.file = f
        /\ runner'.todo = runner.todo \ {f}
        /\ Produced' = Produced /\ UNCHANGED <<box, row, ghost, worktree>>
    BY <1>15 DEF Save
  <2> QED
    BY <2>1 DEF Outputs, SyncedIsComplete
<1>16. ASSUME NEW f \in File, Restore(f) \/ RestoreFails(f) PROVE Outputs'
  BY <1>16 DEF Restore, RestoreFails, Phases, Outputs, SyncedIsComplete
<1>17. CASE RecordDone
  BY <1>17 DEF RecordDone, SyncRow, Ghost, Outputs, SyncedIsComplete
<1>18. CASE Advance \/ Report \/ CloseAttempt \/ FailTask
  BY <1>18 DEF Advance, Report, CloseAttempt, FailTask, Outputs, SyncedIsComplete
<1>19. CASE Work
  BY <1>19 DEF Work, Phases, Returning, Outputs, SyncedIsComplete
<1>20. CASE Edit
  <2>1. PICK f \in File, v \in Version :
          /\ worktree' = [worktree EXCEPT ![f] = v]
          /\ ghost' = [ghost EXCEPT !.own[f] = v, !.drifted = @ \cup {f},
                                    !.raced = IF Syncing THEN @ \cup {f} ELSE @]
    BY <1>20 DEF Edit
  <2>2. /\ ghost.raced \subseteq ghost'.raced /\ ghost'.drifted = ghost.drifted \cup {f}
        /\ runner.pc \in Writing => f \in ghost'.raced
    BY <2>1 DEF Ghost, Syncing
  <2>3. \A g \in File : g # f => worktree'[g] = worktree[g]
    BY <2>1 DEF Tree
  <2>4. UNCHANGED <<runner, box, row>> /\ Produced' = Produced
    BY <1>20 DEF Edit
  <2>5. ASSUME runner.pc \in Writing, NEW g \in Produced \ runner.todo
        PROVE  \/ runner.pc = "replace" /\ g = runner.file
               \/ worktree'[g] = box.tree[g]
               \/ g \in ghost'.raced \cap ghost'.drifted
    BY <2>2, <2>3, <2>5 DEF Outputs
  <2>6. ASSUME NEW g \in File \ ghost'.raced PROVE g \in File \ ghost.raced
    BY <2>2
  <2> QED
    BY <2>4, <2>5, <2>6 DEF Outputs, SyncedIsComplete
<1>21. CASE RemoveSandbox
  BY <1>21 DEF RemoveSandbox, Sandbox, Outputs, SyncedIsComplete
<1>22. CASE Crash
  BY <1>22 DEF Crash, Ghost, Outputs, SyncedIsComplete
<1>23. CASE UNCHANGED vars
  <2>1. UNCHANGED <<runner, box, row, ghost, worktree>> /\ Produced' = Produced
    BY <1>23 DEF vars
  <2> QED
    BY <2>1 DEF Outputs, SyncedIsComplete
<1> QED
  BY <1>1, <1>2, <1>3, <1>4, <1>5, <1>6, <1>7, <1>8, <1>9, <1>10, <1>11, <1>12, <1>13,
     <1>14, <1>15, <1>16, <1>17, <1>18, <1>19, <1>20, <1>21, <1>22, <1>23
  DEF Next, RunnerStep

(* Every step outside a commit leaves the owner's files as they are.       *)
LEMMA OwedStep == TypeOK /\ Phases /\ NothingOwed /\ [Next]_vars => NothingOwed'
<1> SUFFICES ASSUME TypeOK, Phases, NothingOwed, [Next]_vars PROVE NothingOwed'
  OBVIOUS
<1>0. runner \in Process /\ ghost \in Ghost /\ row \in SyncRow /\ worktree \in Tree
  BY DEF TypeOK
<1> USE <1>0 DEF NothingOwed
<1>1. CASE NewAttempt
  BY <1>1 DEF NewAttempt, Ghost
<1>2. CASE DriveCall \/ Recover \/ Build \/ Copy \/ NotInvoked \/ Invoke \/ Verify \/ Checked
           \/ RolledBack \/ Manifest \/ Advance \/ Report \/ CloseAttempt \/ FailTask
           \/ Work \/ RemoveSandbox \/ Resume
  BY <1>2 DEF DriveCall, Recover, Build, Copy, NotInvoked, Invoke, Verify, Checked, At,
     RolledBack, Manifest, Advance, Report, CloseAttempt, FailTask, Work, RemoveSandbox,
     Resume, Phases, Placing
<1>3. CASE StartRow
  BY <1>3 DEF StartRow, SyncRow, At, Phases, Placing
<1>4. ASSUME NEW f \in File, Capture(f) PROVE NothingOwed'
  BY <1>4 DEF Capture, Ghost
<1>5. CASE Answer
  BY <1>5 DEF Answer, At, Phases, Placing
<1>6. CASE Replace \/ WriteFails
  BY <1>6 DEF Replace, WriteFails, At, Phases, Returning
<1>7. ASSUME NEW f \in File, Check(f) \/ Save(f) \/ Restore(f) \/ RestoreFails(f)
      PROVE  NothingOwed'
  BY <1>7 DEF Check, Save, Restore, RestoreFails, At, Phases, Returning
<1>8. CASE RecordDone
  BY <1>8 DEF RecordDone, Ghost
<1>9. CASE Edit
  <2>1. PICK f \in File, v \in Version :
          /\ worktree' = [worktree EXCEPT ![f] = v]
          /\ ghost' = [ghost EXCEPT !.own[f] = v, !.drifted = @ \cup {f},
                                    !.raced = IF Syncing THEN @ \cup {f} ELSE @]
    BY <1>9 DEF Edit
  <2>2. ghost'.own = [ghost.own EXCEPT ![f] = v]
    BY <2>1 DEF Ghost
  <2> QED
    BY <1>9, <2>1, <2>2 DEF Edit
<1>10. CASE ResolveCall
  BY <1>10 DEF ResolveCall, Phases
<1>11. CASE Crash
  BY <1>11 DEF Crash, Ghost
<1>12. CASE UNCHANGED vars
  BY <1>12 DEF vars
<1> QED
  BY <1>1, <1>2, <1>3, <1>4, <1>5, <1>6, <1>7, <1>8, <1>9, <1>10, <1>11, <1>12
  DEF Next, RunnerStep

(* An edit writes one file, and is the owner's from then on.               *)
LEMMA EditEffect ==
  ASSUME TypeOK, Edit
  PROVE  /\ UNCHANGED <<box, row, call, attempt, task, reported, runner, crashes>>
         /\ ghost'.captured = ghost.captured
         /\ ghost'.torn = ghost.torn /\ ghost'.faulty = ghost.faulty
         /\ \E f \in File :
              /\ worktree'[f] = ghost'.own[f]
              /\ \A g \in File : g # f => /\ worktree'[g] = worktree[g]
                                          /\ ghost'.own[g] = ghost.own[g]
              /\ ghost'.drifted = ghost.drifted \cup {f}
              /\ ghost'.raced = IF Syncing THEN ghost.raced \cup {f} ELSE ghost.raced
<1>1. PICK f \in File, v \in Version :
        /\ worktree' = [worktree EXCEPT ![f] = v]
        /\ ghost' = [ghost EXCEPT !.own[f] = v, !.drifted = @ \cup {f},
                                  !.raced = IF Syncing THEN @ \cup {f} ELSE @]
  BY DEF Edit
<1>2. worktree \in Tree /\ ghost \in Ghost /\ ghost.own \in Tree
  BY DEF TypeOK, Ghost
<1>3. /\ ghost'.own = [ghost.own EXCEPT ![f] = v]
      /\ ghost'.captured = ghost.captured
      /\ ghost'.torn = ghost.torn /\ ghost'.faulty = ghost.faulty
      /\ ghost'.drifted = ghost.drifted \cup {f}
      /\ ghost'.raced = IF Syncing THEN ghost.raced \cup {f} ELSE ghost.raced
  BY <1>1, <1>2 DEF Ghost
<1>4. /\ worktree'[f] = ghost'.own[f]
      /\ \A g \in File : g # f => /\ worktree'[g] = worktree[g]
                                  /\ ghost'.own[g] = ghost.own[g]
  BY <1>1, <1>2, <1>3, TreeUpdate
<1>5. UNCHANGED <<box, row, call, attempt, task, reported, runner, crashes>>
  BY DEF Edit
<1> QED
  BY <1>3, <1>4, <1>5

(* Capturing a file reads it, and the sandbox gets it.                     *)
LEMMA CaptureEffect ==
  ASSUME TypeOK, NEW f \in File, Capture(f)
  PROVE  /\ runner.pc = "capture" /\ runner'.pc \in {"capture", "copy"}
         /\ runner'.todo = runner.todo \ {f}
         /\ ghost'.captured[f] = worktree[f] /\ runner'.baseline[f] = worktree[f]
         /\ \A g \in File : g # f => /\ ghost'.captured[g] = ghost.captured[g]
                                     /\ runner'.baseline[g] = runner.baseline[g]
         /\ ghost'.drifted = ghost.drifted \ {f}
         /\ ghost'.own = ghost.own /\ ghost'.raced = ghost.raced
         /\ ghost'.torn = ghost.torn /\ ghost'.faulty = ghost.faulty
<1>1. /\ ghost \in Ghost /\ ghost.captured \in Tree
      /\ runner \in Process /\ runner.baseline \in Tree
  BY DEF TypeOK, Ghost, Process
<1>2. /\ runner.pc = "capture"
      /\ runner' = [runner EXCEPT !.baseline[f] = worktree[f], !.todo = @ \ {f}, !.file = f,
                                  !.pc = IF worktree[f] = Absent THEN @ ELSE "copy"]
      /\ ghost' = [ghost EXCEPT !.captured[f] = worktree[f], !.drifted = @ \ {f}]
  BY DEF Capture, At
<1>3. /\ ghost'.captured = [ghost.captured EXCEPT ![f] = worktree[f]]
      /\ ghost'.drifted = ghost.drifted \ {f}
      /\ ghost'.own = ghost.own /\ ghost'.raced = ghost.raced
      /\ ghost'.torn = ghost.torn /\ ghost'.faulty = ghost.faulty
  BY <1>1, <1>2 DEF Ghost
<1>4. /\ runner'.baseline = [runner.baseline EXCEPT ![f] = worktree[f]]
      /\ runner'.todo = runner.todo \ {f} /\ runner'.pc \in {"capture", "copy"}
  BY <1>1, <1>2 DEF Process
<1> QED
  BY <1>1, <1>2, <1>3, <1>4, TreeUpdate

(* A checked file is as captured, or the sync is a conflict.               *)
LEMMA CheckEffect ==
  ASSUME TypeOK, NEW f \in File, Check(f)
  PROVE  /\ runner.pc = "check" /\ f \in runner.todo
         /\ runner'.baseline = runner.baseline
         /\ runner'.held = runner.held /\ runner'.lost = runner.lost
         /\ \/ Conflicts(f) /\ runner'.pc = "close"
            \/ ~Conflicts(f) /\ runner'.pc = "check" /\ runner'.todo = runner.todo \ {f}
<1>1. CASE Conflicts(f)
  BY <1>1 DEF Check, At, Goto, TypeOK, Process
<1>2. CASE ~Conflicts(f)
  BY <1>2 DEF Check, At, Goto, TypeOK, Process
<1> QED
  BY <1>1, <1>2

(* Saving a file reads it before it is overwritten.                        *)
LEMMA SaveEffect ==
  ASSUME TypeOK, NEW f \in File, Save(f)
  PROVE  /\ runner.pc = "commit" /\ runner'.pc = "replace" /\ f \in runner.todo
         /\ runner'.file = f /\ runner'.todo = runner.todo \ {f}
         /\ runner'.held = runner.held \cup {f} /\ runner'.lost = runner.lost
         /\ runner'.baseline = runner.baseline
         /\ runner'.saved[f] = worktree[f]
         /\ \A g \in File : g # f => runner'.saved[g] = runner.saved[g]
<1>1. runner \in Process /\ runner.saved \in Tree
  BY DEF TypeOK, Process
<1>2. /\ runner.pc = "commit" /\ f \in runner.todo
      /\ runner' = [runner EXCEPT !.pc = "replace", !.file = f, !.todo = @ \ {f},
                                  !.held = @ \cup {f}, !.saved[f] = worktree[f]]
  BY DEF Save, At
<1>3. /\ runner'.saved = [runner.saved EXCEPT ![f] = worktree[f]]
      /\ runner'.file = f /\ runner'.todo = runner.todo \ {f}
      /\ runner'.held = runner.held \cup {f} /\ runner'.lost = runner.lost
      /\ runner'.baseline = runner.baseline /\ runner'.pc = "replace"
  BY <1>1, <1>2 DEF Process
<1> QED
  BY <1>1, <1>2, <1>3, TreeUpdate

(* Restoring a file writes the saved content back.                         *)
LEMMA RestoreEffect ==
  ASSUME TypeOK, NEW f \in File, Restore(f)
  PROVE  /\ runner.pc = "rollback" /\ runner'.pc = "rollback" /\ f \in runner.held
         /\ runner'.held = runner.held \ {f} /\ runner'.lost = runner.lost
         /\ runner'.saved = runner.saved /\ runner'.baseline = runner.baseline
         /\ worktree'[f] = runner.saved[f]
         /\ \A g \in File : g # f => worktree'[g] = worktree[g]
<1>1. worktree \in Tree /\ runner \in Process
  BY DEF TypeOK
<1>2. /\ runner.pc = "rollback" /\ f \in runner.held
      /\ runner' = [runner EXCEPT !.held = @ \ {f}]
      /\ worktree' = [worktree EXCEPT ![f] = runner.saved[f]]
  BY DEF Restore, At
<1>3. /\ runner'.held = runner.held \ {f} /\ runner'.lost = runner.lost
      /\ runner'.saved = runner.saved /\ runner'.baseline = runner.baseline
      /\ runner'.pc = runner.pc
  BY <1>1, <1>2 DEF Process
<1> QED
  BY <1>1, <1>2, <1>3, TreeUpdate

(* A file that cannot be restored is reported.                             *)
LEMMA RestoreFailsEffect ==
  ASSUME TypeOK, NEW f \in File, RestoreFails(f)
  PROVE  /\ runner.pc = "rollback" /\ runner'.pc = "rollback" /\ f \in runner.held
         /\ runner'.held = runner.held \ {f} /\ runner'.lost = runner.lost \cup {f}
         /\ runner'.saved = runner.saved /\ runner'.baseline = runner.baseline
  BY DEF RestoreFails, At, TypeOK, Process

(* Every step keeps what was overwritten restorable.                       *)
LEMMA UndoableStep ==
  TypeOK /\ Phases /\ Books /\ Outputs /\ Undoable /\ [Next]_vars => Undoable'
<1> SUFFICES ASSUME TypeOK, Phases, Books, Outputs, Undoable, [Next]_vars PROVE Undoable'
  OBVIOUS
<1> DEFINE Quiet == {"off", "drive", "verify", "check", "advance", "close", "fail"} \cup Placing
<1>0. runner \in Process /\ ghost \in Ghost /\ worktree \in Tree
  BY DEF TypeOK
<1>a. ASSUME runner.pc \in Quiet, runner'.pc \in Quiet, UNCHANGED <<worktree, reported>>,
             ghost'.own = ghost.own, ghost'.raced = ghost.raced, ghost'.torn = ghost.torn
      PROVE  Undoable'
  BY <1>a DEF Undoable, InHand, InCommit, Writing, Placing
<1>b. ASSUME ghost'.own = worktree', runner'.pc \in Quiet
      PROVE  Undoable'
  BY <1>b DEF Undoable, Writing, Placing
<1>1. CASE NewAttempt
  BY <1>0, <1>1, <1>b DEF NewAttempt, Goto, Process, Ghost, Placing
<1>2. CASE DriveCall
  BY <1>0, <1>2, <1>a DEF DriveCall, At, Goto, Leave, Off, Process, Placing
<1>3. CASE Recover
  BY <1>3, <1>a, RecoverEffect DEF Recover
<1>4. CASE Build
  BY <1>0, <1>4, <1>a DEF Build, At, Goto, Process, Placing
<1>5. CASE Copy \/ StartRow
  BY <1>0, <1>5, <1>a DEF Copy, StartRow, At, Goto, Process, Placing
<1>6. ASSUME NEW f \in File, Capture(f) PROVE Undoable'
  <2>1. UNCHANGED <<worktree, reported>>
    BY <1>6 DEF Capture
  <2> QED
    BY <1>6, <2>1, <1>a, CaptureEffect DEF Placing
<1>7. CASE NotInvoked \/ Invoke \/ Answer
  <2>1. runner.pc \in {"invoke", "calling"} /\ UNCHANGED <<worktree, reported, ghost>>
    BY <1>7 DEF NotInvoked, Invoke, Answer, At
  <2>2. runner'.pc \in {"off", "build", "verify", "calling"}
    BY <1>0, <1>7, NextCandidateEffect
    DEF NotInvoked, Invoke, Answer, Goto, Leave, Off, Process
  <2> QED
    BY <2>1, <2>2, <1>a DEF Placing
<1>8. CASE Verify
  BY <1>8, <1>a, VerifyEffect DEF Verify
<1>9. CASE Checked
  <2>1. /\ runner.pc = "check" /\ runner'.pc = "commit"
        /\ runner'.held = runner.held /\ runner'.lost = runner.lost
        /\ UNCHANGED <<worktree, reported, ghost>>
    BY <1>0, <1>9 DEF Checked, At, Process
  <2> QED
    BY <2>1 DEF Undoable, Books, InHand, InCommit, Writing
<1>10. CASE Replace
  <2>1. UNCHANGED <<reported, ghost>>
    BY <1>10 DEF Replace
  <2> QED
    BY <1>10, <2>1, ReplaceEffect DEF Undoable, InHand, InCommit, Writing
<1>11. CASE WriteFails
  <2>1. /\ runner.pc = "replace" /\ runner'.pc = "rollback" /\ UNCHANGED <<worktree, reported>>
        /\ runner'.held = runner.held /\ runner'.lost = runner.lost /\ runner'.saved = runner.saved
        /\ ghost'.own = ghost.own /\ ghost'.raced = ghost.raced /\ ghost'.torn = ghost.torn
    BY <1>0, <1>11 DEF WriteFails, At, Goto, Process, Ghost
  <2> QED
    BY <2>1 DEF Undoable, InHand, InCommit, Writing
<1>12. CASE RolledBack
  <2>1. /\ runner.pc = "rollback" /\ runner.held = {} /\ UNCHANGED <<worktree, reported, ghost>>
        /\ runner'.lost = runner.lost
        /\ runner'.pc = IF runner.lost = {} THEN "close" ELSE "report"
    BY <1>0, <1>12 DEF RolledBack, At, Goto, Process
  <2> QED
    BY <2>1 DEF Undoable, InHand, InCommit, Writing
<1>13. CASE Manifest
  <2>1. UNCHANGED <<worktree, reported, ghost>>
    BY <1>13 DEF Manifest
  <2>2. CASE runner'.pc = "record"
    BY <1>13, <2>1, <2>2, ManifestEffect DEF Undoable, InHand, InCommit, Writing
  <2>3. CASE runner'.pc # "record"
    <3>1. PICK f \in Produced : worktree[f] = Absent
      BY <1>13, <2>3, ManifestEffect
    <3>2. f \in ghost.raced
      BY <1>13, <3>1, ManifestEffect DEF Outputs, Writing, Produced
    <3> QED
      BY <2>1, <3>2 DEF Undoable
  <2> QED
    BY <2>2, <2>3
<1>14. ASSUME NEW f \in File, Check(f) PROVE Undoable'
  <2>1. UNCHANGED <<worktree, reported, ghost>>
    BY <1>14 DEF Check
  <2> QED
    BY <1>14, <2>1, <1>a, CheckEffect
<1>15. ASSUME NEW f \in File, Save(f) PROVE Undoable'
  <2>1. UNCHANGED <<worktree, reported, ghost>>
    BY <1>15 DEF Save
  <2>2. runner.lost = {} /\ f \notin runner.held
    BY <1>15, SaveEffect DEF Books, Writing
  <2>3. /\ InHand = runner.held \cup runner.lost
        /\ InHand' = runner.held \cup {f} \cup runner.lost
    BY <1>15, SaveEffect DEF InHand, InCommit, Writing
  <2>4. SUFFICES ASSUME ~ghost.torn, ghost.raced = {}
                 PROVE  /\ \A g \in File \ reported : worktree[g] # ghost.own[g] => g \in InHand'
                        /\ \A g \in (runner.held \cup {f}) \ reported :
                             runner'.saved[g] = ghost.own[g]
    BY <1>15, <2>1, SaveEffect DEF Undoable
  <2>5. /\ \A g \in File \ reported : worktree[g] # ghost.own[g] => g \in InHand
        /\ \A g \in runner.held \ reported : runner.saved[g] = ghost.own[g]
    BY <1>15, <2>4, SaveEffect DEF Undoable, Writing
  <2>6. runner.held \subseteq File
    BY <1>0 DEF Process
  <2> QED
    BY <1>15, <2>2, <2>3, <2>5, <2>6, SaveEffect
<1>16. ASSUME NEW f \in File, Restore(f) PROVE Undoable'
  <2>1. UNCHANGED <<reported, ghost>>
    BY <1>16 DEF Restore
  <2> QED
    BY <1>16, <2>1, RestoreEffect DEF Undoable, InHand, InCommit, Writing
<1>17. ASSUME NEW f \in File, RestoreFails(f) PROVE Undoable'
  <2>1. UNCHANGED <<worktree, reported, ghost>>
    BY <1>17 DEF RestoreFails
  <2> QED
    BY <1>17, <2>1, RestoreFailsEffect DEF Undoable, InHand, InCommit, Writing
<1>18. CASE RecordDone
  BY <1>0, <1>18, <1>b DEF RecordDone, Goto, Process, Ghost
<1>19. CASE Advance \/ FailTask \/ CloseAttempt
  BY <1>0, <1>19, <1>a DEF Advance, FailTask, CloseAttempt, At, Goto, Leave, Off, Process
<1>20. CASE Report
  <2>1. /\ runner.pc = "report" /\ runner'.pc = "close" /\ UNCHANGED <<worktree, ghost>>
        /\ reported' = reported \cup runner.lost
    BY <1>0, <1>20 DEF Report, At, Goto, Process
  <2> QED
    BY <2>1 DEF Undoable, InHand, InCommit, Writing
<1>21. CASE Edit
  <2>1. PICK f \in File :
          /\ worktree'[f] = ghost'.own[f]
          /\ \A g \in File : g # f => /\ worktree'[g] = worktree[g]
                                      /\ ghost'.own[g] = ghost.own[g]
          /\ ghost'.raced = IF Syncing THEN ghost.raced \cup {f} ELSE ghost.raced
    BY <1>21, EditEffect
  <2>2. /\ UNCHANGED <<reported, runner>> /\ InHand' = InHand /\ ghost'.torn = ghost.torn
        /\ ghost'.raced = {} => ghost.raced = {} /\ ~Syncing
    BY <1>21, <2>1, EditEffect DEF InHand
  <2>3. ~Syncing => runner.pc \notin Writing \cup {"rollback"}
    BY DEF Syncing, Writing
  <2> QED
    BY <2>1, <2>2, <2>3 DEF Undoable
<1>22. CASE Work \/ RemoveSandbox \/ ResolveCall \/ UNCHANGED vars
  <2>1. UNCHANGED <<worktree, reported, ghost, runner>>
    BY <1>22 DEF Work, RemoveSandbox, ResolveCall, vars
  <2> QED
    BY <2>1 DEF Undoable, InHand
<1>23. CASE Resume
  BY <1>0, <1>23, <1>a DEF Resume, At, Goto, Process
<1>24. CASE Crash
  <2>1. /\ runner'.pc = "off" /\ UNCHANGED <<worktree, reported>>
        /\ ghost'.own = ghost.own /\ ghost'.raced = ghost.raced
        /\ ~ghost'.torn => ~ghost.torn /\ runner.held \cup runner.lost = {}
    BY <1>0, <1>24 DEF Crash, Leave, Off, Ghost
  <2> QED
    BY <2>1 DEF Undoable, InHand, InCommit, Writing
<1> QED
  BY <1>1, <1>2, <1>3, <1>4, <1>5, <1>6, <1>7, <1>8, <1>9, <1>10, <1>11, <1>12, <1>13,
     <1>14, <1>15, <1>16, <1>17, <1>18, <1>19, <1>20, <1>21, <1>22, <1>23, <1>24
  DEF Next, RunnerStep

(* Every step keeps the row's baseline that of its own sandbox.            *)
LEMMA BaselinesStep == TypeOK /\ Phases /\ Baselines /\ [Next]_vars => Baselines'
<1> SUFFICES ASSUME TypeOK, Phases, Baselines, [Next]_vars PROVE Baselines'
  OBVIOUS
<1>0. /\ runner \in Process /\ ghost \in Ghost /\ row \in SyncRow
      /\ ghost.captured \in Tree /\ runner.baseline \in Tree
  BY DEF TypeOK, Process, Ghost
<1> DEFINE Apart == {"off", "drive", "build", "advance", "report", "close", "fail"}
<1>a. ASSUME runner'.pc \in Apart PROVE Baselines'
  BY <1>a DEF Baselines, Returning
<1>b. ASSUME runner.pc \in Returning, runner'.pc \in Returning \cup Apart,
             runner'.baseline = runner.baseline, UNCHANGED row, ghost'.captured = ghost.captured
      PROVE  Baselines'
  BY <1>b DEF Baselines, Returning
<1>1. CASE NewAttempt \/ DriveCall \/ NotInvoked
  BY <1>0, <1>1, <1>a, NextCandidateEffect
  DEF NewAttempt, DriveCall, NotInvoked, Goto, Leave, Off, Process
<1>2. CASE Recover
  <2>1. UNCHANGED <<row, ghost>>
    BY <1>2 DEF Recover
  <2> QED
    BY <1>2, <2>1, <1>a, RecoverEffect DEF Baselines, Returning
<1>3. CASE Build
  <2>1. runner'.pc = "close" \/ (runner'.pc = "capture" /\ runner'.todo = File)
    BY <1>0, <1>3 DEF Build, Goto, Process
  <2> QED
    BY <2>1, <1>a DEF Baselines, Returning
<1>4. ASSUME NEW f \in File, Capture(f) PROVE Baselines'
  BY <1>4, CaptureEffect DEF Baselines, Returning
<1>5. CASE Copy
  <2>1. /\ runner.pc = "copy" /\ runner'.pc \in {"capture", "fail"} /\ ghost' = ghost
        /\ runner'.todo = runner.todo /\ runner'.baseline = runner.baseline
    BY <1>0, <1>5 DEF Copy, At, Goto, Process
  <2> QED
    BY <2>1 DEF Baselines, Returning
<1>6. CASE StartRow
  <2>1. /\ runner.pc = "capture" /\ runner.todo = {} /\ runner'.pc = "invoke" /\ ghost' = ghost
        /\ runner'.baseline = runner.baseline
    BY <1>0, <1>6 DEF StartRow, At, Goto, Process
  <2>2. \A f \in File : runner.baseline[f] = ghost.captured[f]
    BY <2>1 DEF Baselines
  <2>3. runner.baseline = ghost.captured
    BY <1>0, <2>2 DEF Tree
  <2> QED
    BY <2>1, <2>3 DEF Baselines, Returning
<1>7. CASE Invoke
  <2>1. /\ runner.pc = "invoke" /\ runner'.pc = "calling" /\ ghost' = ghost
        /\ runner'.baseline = runner.baseline
    BY <1>0, <1>7 DEF Invoke, At, Goto, Process
  <2> QED
    BY <2>1 DEF Baselines, Returning
<1>8. CASE Answer
  <2>1. \/ runner'.pc \in {"build", "off"}
        \/ runner'.pc = "verify" /\ runner'.baseline = runner.baseline
    BY <1>0, <1>8, NextCandidateEffect DEF Answer, Goto, Leave, Off, Process
  <2>2. runner.pc = "calling" /\ ghost' = ghost
    BY <1>8 DEF Answer, At
  <2> QED
    BY <2>1, <2>2, <1>a DEF Baselines, Returning
<1>9. CASE Verify
  <2>1. UNCHANGED <<row, ghost>>
    BY <1>9 DEF Verify
  <2> QED
    BY <1>9, <2>1, <1>b, VerifyEffect DEF Returning
<1>10. ASSUME NEW f \in File, Check(f) PROVE Baselines'
  <2>1. UNCHANGED <<row, ghost>>
    BY <1>10 DEF Check
  <2> QED
    BY <1>10, <2>1, <1>b, CheckEffect DEF Returning
<1>11. ASSUME NEW f \in File, Save(f) PROVE Baselines'
  <2>1. UNCHANGED <<row, ghost>>
    BY <1>11 DEF Save
  <2> QED
    BY <1>11, <2>1, <1>b, SaveEffect DEF Returning
<1>12. ASSUME NEW f \in File, Restore(f) \/ RestoreFails(f) PROVE Baselines'
  <2>1. UNCHANGED <<row, ghost>>
    BY <1>12 DEF Restore, RestoreFails
  <2> QED
    BY <1>12, <2>1, <1>b, RestoreEffect, RestoreFailsEffect DEF Returning
<1>13. CASE Checked \/ Replace \/ WriteFails \/ RolledBack
  <2>1. /\ runner.pc \in Returning /\ runner'.pc \in Returning \cup Apart
        /\ runner'.baseline = runner.baseline /\ row' = row
    BY <1>0, <1>13 DEF Checked, Replace, WriteFails, RolledBack, At, Goto, Process, Returning
  <2>2. ghost'.captured = ghost.captured
    BY <1>0, <1>13 DEF Checked, Replace, WriteFails, RolledBack, Ghost
  <2> QED
    BY <2>1, <2>2, <1>b
<1>14. CASE Manifest
  <2>1. UNCHANGED <<row, ghost>>
    BY <1>14 DEF Manifest
  <2> QED
    BY <1>14, <2>1, <1>b, ManifestEffect DEF Returning
<1>15. CASE RecordDone \/ Advance \/ Report \/ CloseAttempt \/ FailTask \/ Resume \/ Crash
  BY <1>0, <1>15, <1>a DEF RecordDone, Advance, Report, CloseAttempt, FailTask, Resume, Crash,
     Goto, Leave, Off, Process
<1>16. CASE Edit
  BY <1>16, EditEffect DEF Baselines
<1>17. CASE Work \/ RemoveSandbox \/ ResolveCall \/ UNCHANGED vars
  <2>1. UNCHANGED <<row, ghost, runner>>
    BY <1>17 DEF Work, RemoveSandbox, ResolveCall, vars
  <2> QED
    BY <2>1 DEF Baselines
<1> QED
  BY <1>1, <1>2, <1>3, <1>4, <1>5, <1>6, <1>7, <1>8, <1>9, <1>10, <1>11, <1>12, <1>13,
     <1>14, <1>15, <1>16, <1>17
  DEF Next, RunnerStep

(* Every step overwrites only what was captured.                           *)
LEMMA OverwritableStep ==
  TypeOK /\ Phases /\ Books /\ NothingOwed /\ Baselines /\ Overwritable /\ [Next]_vars
    => Overwritable'
<1> SUFFICES ASSUME TypeOK, Phases, Books, NothingOwed, Baselines, Overwritable, [Next]_vars
             PROVE  Overwritable'
  OBVIOUS
<1> DEFINE Compares == {"check", "rollback"} \cup Writing
<1>0. /\ runner \in Process /\ ghost \in Ghost /\ row \in SyncRow /\ worktree \in Tree
      /\ box \in Sandbox /\ Produced \subseteq File /\ runner.held \subseteq File
      /\ ghost.captured \in Tree /\ Missing \notin Tree
  BY TreeFacts DEF TypeOK, Process, Ghost, Produced
<1>01. box' = box => Produced' = Produced
  BY DEF Produced
<1>a. ASSUME runner'.pc \notin Compares, ghost'.own = worktree' PROVE Overwritable'
  BY <1>a DEF Overwritable, OverwritesOnlyCaptured, Writing
<1>b. ASSUME runner'.pc \notin Compares, UNCHANGED <<worktree, row>>, box'.tree = box.tree,
             ghost'.own = ghost.own, ghost'.captured = ghost.captured, ghost'.raced = ghost.raced
      PROVE  Overwritable'
  BY <1>b DEF Overwritable, OverwritesOnlyCaptured, BaselineCurrent, Writing
<1>1. CASE NewAttempt \/ RecordDone
  BY <1>0, <1>1, <1>a DEF NewAttempt, RecordDone, Goto, Process, Ghost, Writing
<1>2. CASE DriveCall \/ Copy
  BY <1>0, <1>2, <1>a DEF DriveCall, Copy, At, Goto, Leave, Off, Process, Writing,
     NothingOwed, Phases, Placing
<1>3. CASE Build \/ StartRow \/ Invoke
  BY <1>0, <1>3, <1>a DEF Build, StartRow, Invoke, At, Goto, Process, Writing,
     NothingOwed, Phases, Placing
<1>4. ASSUME NEW f \in File, Capture(f) PROVE Overwritable'
  <2>1. ghost.own = worktree /\ worktree' = worktree
    BY <1>4, CaptureEffect DEF NothingOwed, Phases, Placing, Capture
  <2> QED
    BY <1>4, <2>1, <1>a, CaptureEffect DEF Writing
<1>5. CASE NotInvoked \/ Answer
  <2>1. ghost.own = worktree /\ UNCHANGED <<worktree, ghost>>
    BY <1>5 DEF NotInvoked, Answer, At, NothingOwed, Phases, Placing
  <2>2. runner'.pc \in {"build", "off", "verify"}
    BY <1>0, <1>5, NextCandidateEffect DEF NotInvoked, Answer, Goto, Leave, Off, Process
  <2> QED
    BY <2>1, <2>2, <1>a DEF Writing
<1>6. CASE Recover
  BY <1>6, <1>b, RecoverEffect DEF Recover, Writing
<1>7. CASE Verify
  <2>1. UNCHANGED <<worktree, row, box, ghost>>
    BY <1>7 DEF Verify
  <2>2. CASE runner'.pc = "close"
    BY <2>1, <2>2, <1>b DEF Writing
  <2>3. CASE runner'.pc = "check" /\ runner'.todo = Produced
    BY <2>1, <2>3, <1>01 DEF Overwritable, OverwritesOnlyCaptured, BaselineCurrent, Writing
  <2> QED
    BY <1>7, <2>2, <2>3, VerifyEffect
<1>8. ASSUME NEW f \in File, Check(f) PROVE Overwritable'
  <2>1. UNCHANGED <<worktree, row, box, ghost>> /\ Produced' = Produced
    BY <1>8, <1>01 DEF Check
  <2>2. CASE Conflicts(f)
    BY <1>8, <2>1, <2>2, <1>b, CheckEffect DEF Writing
  <2>3. CASE ~Conflicts(f)
    <3>1. ASSUME BaselineCurrent, f \notin ghost.raced
          PROVE  ghost.own[f] \in {ghost.captured[f], box.tree[f]}
      <4>1. runner.baseline = ghost.captured
        BY <1>0, <1>8, <3>1, CheckEffect DEF Baselines, Returning, BaselineCurrent, TypeOK, Process
      <4>2. worktree[f] \in {ghost.captured[f], box.tree[f]}
        BY <2>3, <4>1 DEF Conflicts
      <4>3. worktree[f] = ghost.own[f] \/ ghost.own[f] = ghost.captured[f]
        BY <3>1 DEF Overwritable, OverwritesOnlyCaptured
      <4> QED
        BY <4>2, <4>3
    <3>2. runner.pc = "check" /\ runner'.pc = "check" /\ runner'.todo = runner.todo \ {f}
      BY <1>8, <2>3, CheckEffect
    <3> QED
      BY <2>1, <3>1, <3>2 DEF Overwritable, OverwritesOnlyCaptured, BaselineCurrent, Writing
  <2> QED
    BY <2>2, <2>3
<1>9. CASE Checked
  <2>1. /\ runner.pc = "check" /\ runner.todo = {} /\ runner.held = {}
        /\ runner'.pc = "commit" /\ runner'.held = {}
        /\ UNCHANGED <<worktree, row, box, ghost>> /\ Produced' = Produced
    BY <1>0, <1>9, <1>01 DEF Checked, At, Process, Books
  <2> QED
    BY <2>1 DEF Overwritable, OverwritesOnlyCaptured, BaselineCurrent, Writing
<1>10. ASSUME NEW f \in File, Save(f) PROVE Overwritable'
  <2>1. UNCHANGED <<worktree, row, box, ghost>> /\ Produced' = Produced
    BY <1>10, <1>01 DEF Save
  <2>2. /\ runner.pc = "commit" /\ runner'.pc = "replace"
        /\ runner'.held = runner.held \cup {f} /\ runner'.saved[f] = worktree[f]
        /\ \A g \in File : g # f => runner'.saved[g] = runner.saved[g]
    BY <1>10, SaveEffect
  <2>3. SUFFICES ASSUME BaselineCurrent PROVE Overwritable'
    BY <2>1 DEF Overwritable, BaselineCurrent
  <2>4. OverwritesOnlyCaptured' /\ \A g \in Produced \ ghost.raced :
                                     ghost.own[g] \in {ghost.captured[g], box.tree[g]}
    BY <2>1, <2>2, <2>3 DEF Overwritable, OverwritesOnlyCaptured, Writing
  <2>5. ASSUME NEW g \in runner'.held \ ghost.raced
        PROVE  \/ runner'.saved[g] = ghost.own[g]
               \/ runner'.saved[g] = box.tree[g] /\ ghost.own[g] = ghost.captured[g]
    <3>1. CASE g = f
      BY <2>2, <2>3, <2>5, <3>1 DEF Overwritable, OverwritesOnlyCaptured
    <3>2. CASE g # f
      <4>1. g \in runner.held /\ g \in File /\ g \notin ghost.raced
        BY <1>0, <2>2, <2>5, <3>2
      <4> QED
        BY <2>2, <2>3, <3>2, <4>1 DEF Overwritable, Writing
    <3> QED
      BY <3>1, <3>2
  <2> QED
    BY <2>1, <2>2, <2>4, <2>5 DEF Overwritable
<1>11. CASE Replace
  <2>1. UNCHANGED <<row, box, ghost>> /\ Produced' = Produced
    BY <1>11, <1>01 DEF Replace
  <2>2. SUFFICES ASSUME BaselineCurrent PROVE Overwritable'
    BY <2>1 DEF Overwritable, BaselineCurrent
  <2>3. /\ \A g \in Produced \ ghost.raced : ghost.own[g] \in {ghost.captured[g], box.tree[g]}
        /\ \A g \in runner.held \ ghost.raced :
             \/ runner.saved[g] = ghost.own[g]
             \/ runner.saved[g] = box.tree[g] /\ ghost.own[g] = ghost.captured[g]
    BY <1>11, <2>2, ReplaceEffect DEF Overwritable, Writing
  <2>4. OverwritesOnlyCaptured'
    BY <1>11, <2>1, <2>2, <2>3, ReplaceEffect DEF Overwritable, OverwritesOnlyCaptured
  <2> QED
    BY <1>11, <2>1, <2>3, <2>4, ReplaceEffect DEF Overwritable
<1>12. CASE WriteFails
  <2>1. /\ runner.pc = "replace" /\ runner'.pc = "rollback"
        /\ runner'.held = runner.held /\ runner'.saved = runner.saved
        /\ UNCHANGED <<worktree, row, box>>
        /\ ghost'.own = ghost.own /\ ghost'.captured = ghost.captured /\ ghost'.raced = ghost.raced
    BY <1>0, <1>12 DEF WriteFails, At, Goto, Process, Ghost
  <2> QED
    BY <2>1 DEF Overwritable, OverwritesOnlyCaptured, BaselineCurrent, Writing
<1>13. ASSUME NEW f \in File, Restore(f) PROVE Overwritable'
  <2>1. UNCHANGED <<row, box, ghost>>
    BY <1>13 DEF Restore
  <2> QED
    BY <1>0, <1>13, <2>1, RestoreEffect
    DEF Overwritable, OverwritesOnlyCaptured, BaselineCurrent, Writing
<1>14. ASSUME NEW f \in File, RestoreFails(f) PROVE Overwritable'
  <2>1. UNCHANGED <<worktree, row, box, ghost>>
    BY <1>14 DEF RestoreFails
  <2> QED
    BY <1>14, <2>1, RestoreFailsEffect
    DEF Overwritable, OverwritesOnlyCaptured, BaselineCurrent, Writing
<1>15. CASE RolledBack
  <2>1. runner'.pc \in {"close", "report"}
    BY <1>0, <1>15 DEF RolledBack, Goto, Process
  <2> QED
    BY <1>15, <2>1, <1>b DEF RolledBack, Writing
<1>16. CASE Manifest
  BY <1>16, <1>b, ManifestEffect DEF Manifest, Writing
<1>17. CASE Advance \/ Report \/ CloseAttempt \/ FailTask \/ Resume
  <2>1. runner'.pc \in {"off", "close", "fail", "drive"}
    BY <1>0, <1>17 DEF Advance, Report, CloseAttempt, FailTask, Resume, Goto, Leave, Off, Process
  <2> QED
    BY <1>17, <2>1, <1>b DEF Advance, Report, CloseAttempt, FailTask, Resume, Writing
<1>18. CASE Work
  <2>1. runner.pc \notin Compares /\ ghost.own = worktree
    BY <1>18 DEF Work, Phases, Returning, Writing, NothingOwed
  <2> QED
    BY <1>18, <2>1, <1>a DEF Work
<1>19. CASE Edit
  <2>1. PICK f \in File :
          /\ worktree'[f] = ghost'.own[f]
          /\ \A g \in File : g # f => /\ worktree'[g] = worktree[g]
                                      /\ ghost'.own[g] = ghost.own[g]
          /\ ghost'.raced = IF Syncing THEN ghost.raced \cup {f} ELSE ghost.raced
    BY <1>19, EditEffect
  <2>2. /\ UNCHANGED <<row, box, runner>> /\ Produced' = Produced
        /\ ghost'.captured = ghost.captured /\ ghost.raced \subseteq ghost'.raced
        /\ runner.pc \in Compares => f \in ghost'.raced
    BY <1>19, <1>01, <2>1, EditEffect DEF Syncing, Writing
  <2>3. SUFFICES ASSUME BaselineCurrent PROVE Overwritable'
    BY <2>2 DEF Overwritable, BaselineCurrent
  <2>4. OverwritesOnlyCaptured'
    BY <2>1, <2>2, <2>3 DEF Overwritable, OverwritesOnlyCaptured
  <2>5. ASSUME runner.pc \in {"check"} \cup Writing, NEW g \in Produced \ ghost'.raced
        PROVE  \/ runner.pc = "check" /\ g \in runner.todo
               \/ ghost'.own[g] \in {ghost.captured[g], box.tree[g]}
    <3>1. g # f /\ g \in File /\ g \notin ghost.raced
      BY <1>0, <2>2, <2>5
    <3> QED
      BY <2>1, <2>3, <2>5, <3>1 DEF Overwritable
  <2>6. ASSUME runner.pc \in Writing \cup {"rollback"}, NEW g \in runner.held \ ghost'.raced
        PROVE  \/ runner.saved[g] = ghost'.own[g]
               \/ runner.saved[g] = box.tree[g] /\ ghost'.own[g] = ghost.captured[g]
    <3>1. g # f /\ g \in File /\ g \notin ghost.raced
      BY <1>0, <2>2, <2>6
    <3> QED
      BY <2>1, <2>3, <2>6, <3>1 DEF Overwritable
  <2> QED
    BY <2>2, <2>4, <2>5, <2>6 DEF Overwritable
<1>20. CASE RemoveSandbox
  BY <1>0, <1>20, <1>b DEF RemoveSandbox, At, Sandbox, Writing
<1>21. CASE ResolveCall
  BY <1>21, <1>b DEF ResolveCall, At, Writing
<1>22. CASE Crash
  BY <1>0, <1>22, <1>b DEF Crash, Leave, Off, Ghost, Writing
<1>23. CASE UNCHANGED vars
  <2>1. UNCHANGED <<worktree, box, row, runner, ghost>> /\ Produced' = Produced
    BY <1>23, <1>01 DEF vars
  <2> QED
    BY <2>1 DEF Overwritable, OverwritesOnlyCaptured, BaselineCurrent
<1> QED
  BY <1>1, <1>2, <1>3, <1>4, <1>5, <1>6, <1>7, <1>8, <1>9, <1>10, <1>11, <1>12, <1>13,
     <1>14, <1>15, <1>16, <1>17, <1>18, <1>19, <1>20, <1>21, <1>22, <1>23
  DEF Next, RunnerStep

(* Every step keeps an undrifted file as it was captured.                  *)
LEMMA UndriftedStep == TypeOK /\ Phases /\ Books /\ NothingOwed /\ Undrifted /\ [Next]_vars => Undrifted'
<1> SUFFICES ASSUME TypeOK, Phases, Books, NothingOwed, Undrifted, [Next]_vars
             PROVE  Undrifted'
  OBVIOUS
<1> DEFINE Compares == {"rollback"} \cup Writing
<1>0. /\ runner \in Process /\ ghost \in Ghost /\ row \in SyncRow /\ worktree \in Tree
      /\ box \in Sandbox /\ runner.held \subseteq File
  BY DEF TypeOK, Process
<1>a. ASSUME call = "completed", call' = "completed", runner'.pc \notin Compares,
             UNCHANGED <<worktree, row>>, box'.tree = box.tree,
             ghost'.captured = ghost.captured, ghost'.drifted = ghost.drifted
      PROVE  Undrifted'
  BY <1>a DEF Undrifted, Writing
<1>b. ASSUME call' # "completed", runner'.pc \notin Compares,
             \A f \in File \ ghost'.drifted : worktree'[f] = ghost'.captured[f]
      PROVE  Undrifted'
  BY <1>b DEF Undrifted, Writing
<1>c. call \notin {"absent", "completed"} => \A f \in File \ ghost.drifted : worktree[f] = ghost.captured[f]
  BY DEF Undrifted
<1>d. runner.pc = "invoke" => \A f \in File \ ghost.drifted : worktree[f] = ghost.captured[f]
  BY DEF Undrifted, Phases, Placing
<1>1. CASE NewAttempt
  <2>1. call' = "absent" /\ runner'.pc = "build"
    BY <1>0, <1>1 DEF NewAttempt, Goto, Process
  <2> QED
    BY <2>1 DEF Undrifted, Writing
<1>2. CASE DriveCall
  <2>1. /\ call \notin {"absent", "completed"} /\ runner'.pc \in {"build", "off"}
        /\ UNCHANGED <<worktree, call, ghost>>
    BY <1>0, <1>2 DEF DriveCall, Continues, Goto, Leave, Off, Process
  <2> QED
    BY <2>1, <1>b, <1>c DEF Writing
<1>3. CASE Recover
  BY <1>3, <1>a, RecoverEffect DEF Recover, Writing
<1>4. CASE Build
  <2>1. /\ call # "completed" /\ UNCHANGED <<worktree, call, ghost>>
        /\ runner'.pc = "close" \/ (runner'.pc = "capture" /\ runner'.todo = File)
    BY <1>0, <1>4 DEF Build, At, Goto, Process, Phases, Placing
  <2> QED
    BY <2>1, <1>c DEF Undrifted, Writing
<1>5. ASSUME NEW f \in File, Capture(f) PROVE Undrifted'
  <2>1. call # "completed" /\ UNCHANGED <<worktree, call>>
    BY <1>5, CaptureEffect DEF Capture, Phases, Placing
  <2>2. ASSUME NEW g \in File \ ghost'.drifted
        PROVE  worktree[g] = ghost'.captured[g] \/ (call = "absent" /\ g \in runner'.todo)
    BY <1>5, <2>1, <2>2, CaptureEffect DEF Undrifted
  <2> QED
    BY <1>5, <2>1, <2>2, CaptureEffect DEF Undrifted, Writing
<1>6. CASE Copy
  <2>1. /\ runner.pc = "copy" /\ call # "completed" /\ runner'.pc \in {"capture", "fail"}
        /\ runner'.todo = runner.todo /\ UNCHANGED <<worktree, call, ghost>>
    BY <1>0, <1>6 DEF Copy, At, Goto, Process, Phases, Placing
  <2> QED
    BY <2>1 DEF Undrifted, Writing
<1>7. CASE StartRow
  <2>1. /\ runner.pc = "capture" /\ runner.todo = {} /\ call # "completed"
        /\ runner'.pc = "invoke" /\ UNCHANGED <<worktree, call, ghost>>
    BY <1>0, <1>7 DEF StartRow, At, Goto, Process, Phases, Placing
  <2> QED
    BY <2>1, <1>b DEF Undrifted, Writing
<1>8. CASE NotInvoked \/ Invoke
  <2>1. /\ runner.pc = "invoke" /\ call' # "completed" /\ UNCHANGED <<worktree, ghost>>
    BY <1>8 DEF NotInvoked, Invoke, At, Phases, Placing
  <2>2. runner'.pc \in {"build", "off", "calling"}
    BY <1>0, <1>8, NextCandidateEffect DEF NotInvoked, Invoke, Goto, Leave, Off, Process
  <2> QED
    BY <2>1, <2>2, <1>b, <1>d DEF Writing
<1>9. CASE Answer
  <2>1. call = "started" /\ UNCHANGED <<worktree, ghost>>
    BY <1>9 DEF Answer, At, Phases
  <2>2. runner'.pc \in {"build", "off", "verify"}
    BY <1>0, <1>9, NextCandidateEffect DEF Answer, Goto, Leave, Off, Process
  <2> QED
    BY <2>1, <2>2, <1>c DEF Undrifted, Writing
<1>10. CASE Verify
  BY <1>10, <1>a, VerifyEffect DEF Verify, Writing, Phases, Returning
<1>11. ASSUME NEW f \in File, Check(f) PROVE Undrifted'
  BY <1>11, <1>a, CheckEffect DEF Check, Writing, Phases, Returning
<1>12. CASE Checked
  <2>1. /\ runner.pc = "check" /\ runner'.held = {} /\ UNCHANGED <<worktree, box, row, call, ghost>>
    BY <1>0, <1>12 DEF Checked, At, Process, Books
  <2> QED
    BY <2>1 DEF Undrifted, Phases, Returning
<1>13. ASSUME NEW f \in File, Save(f) PROVE Undrifted'
  <2>1. UNCHANGED <<worktree, box, row, call, ghost>>
    BY <1>13 DEF Save
  <2>2. call = "completed" /\ row.state # "synced"
    BY <1>13, SaveEffect DEF Phases, Returning
  <2>3. ASSUME NEW g \in runner'.held \ ghost.drifted
        PROVE  runner'.saved[g] \in {ghost.captured[g], box.tree[g]}
    <3>1. CASE g = f
      BY <1>13, <2>2, <2>3, <3>1, SaveEffect DEF Undrifted
    <3>2. CASE g # f
      BY <1>0, <1>13, <2>3, <3>2, SaveEffect DEF Undrifted, Writing
    <3> QED
      BY <3>1, <3>2
  <2> QED
    BY <2>1, <2>2, <2>3 DEF Undrifted
<1>14. CASE Replace
  <2>1. UNCHANGED <<box, row, call, ghost>>
    BY <1>14 DEF Replace
  <2>2. call = "completed" /\ row.state # "synced"
    BY <1>14, ReplaceEffect DEF Phases, Returning
  <2>3. \A g \in File \ ghost.drifted : worktree'[g] \in {ghost.captured[g], box.tree[g]}
    BY <1>14, <2>2, ReplaceEffect DEF Undrifted
  <2>4. \A g \in runner.held \ ghost.drifted : runner.saved[g] \in {ghost.captured[g], box.tree[g]}
    BY <1>14, ReplaceEffect DEF Undrifted, Writing
  <2> QED
    BY <1>14, <2>1, <2>2, <2>3, <2>4, ReplaceEffect DEF Undrifted
<1>15. CASE WriteFails
  <2>1. /\ runner.pc = "replace" /\ runner'.pc = "rollback"
        /\ runner'.held = runner.held /\ runner'.saved = runner.saved
        /\ UNCHANGED <<worktree, row, box, call>>
        /\ ghost'.captured = ghost.captured /\ ghost'.drifted = ghost.drifted
    BY <1>0, <1>15 DEF WriteFails, At, Goto, Process, Ghost
  <2> QED
    BY <2>1 DEF Undrifted, Writing, Phases, Returning
<1>16. ASSUME NEW f \in File, Restore(f) PROVE Undrifted'
  <2>1. UNCHANGED <<box, row, call, ghost>>
    BY <1>16 DEF Restore
  <2>2. call = "completed" /\ row.state # "synced"
    BY <1>16, RestoreEffect DEF Phases, Returning
  <2>3. \A g \in runner.held \ ghost.drifted : runner.saved[g] \in {ghost.captured[g], box.tree[g]}
    BY <1>16, RestoreEffect DEF Undrifted
  <2>4. \A g \in File \ ghost.drifted : worktree'[g] \in {ghost.captured[g], box.tree[g]}
    BY <1>16, <2>2, <2>3, RestoreEffect DEF Undrifted
  <2> QED
    BY <1>16, <2>1, <2>2, <2>3, <2>4, RestoreEffect DEF Undrifted
<1>17. ASSUME NEW f \in File, RestoreFails(f) PROVE Undrifted'
  <2>1. UNCHANGED <<worktree, box, row, call, ghost>>
    BY <1>17 DEF RestoreFails
  <2> QED
    BY <1>17, <2>1, RestoreFailsEffect DEF Undrifted, Phases, Returning
<1>18. CASE RolledBack
  <2>1. runner.pc = "rollback" /\ runner'.pc \in {"close", "report"}
    BY <1>0, <1>18 DEF RolledBack, At, Goto, Process
  <2> QED
    BY <1>18, <2>1, <1>a DEF RolledBack, Writing, Phases, Returning
<1>19. CASE Manifest
  BY <1>19, <1>a, ManifestEffect DEF Manifest, Writing, Phases, Returning
<1>20. CASE RecordDone
  <2>1. /\ call' = "completed" /\ row'.state = "synced" /\ runner'.pc = "advance"
    BY <1>0, <1>20 DEF RecordDone, At, Goto, Process, SyncRow, Phases, Returning
  <2> QED
    BY <2>1 DEF Undrifted, Writing
<1>21. CASE Advance \/ Report \/ CloseAttempt \/ FailTask \/ Resume \/ Crash
  <2>1. /\ runner'.pc \in {"off", "close", "fail", "drive"}
        /\ UNCHANGED <<worktree, row, call, box>>
    BY <1>0, <1>21 DEF Advance, Report, CloseAttempt, FailTask, Resume, Crash,
       Goto, Leave, Off, Process
  <2>2. ghost'.captured = ghost.captured /\ ghost'.drifted = ghost.drifted
    BY <1>0, <1>21 DEF Advance, Report, CloseAttempt, FailTask, Resume, Crash, Ghost
  <2> QED
    BY <2>1, <2>2 DEF Undrifted, Writing
<1>22. CASE Work
  <2>1. call # "completed" /\ runner.pc \notin Compares /\ UNCHANGED <<worktree, call, runner, ghost>>
    BY <1>22 DEF Work, Phases, Returning, Writing
  <2> QED
    BY <2>1 DEF Undrifted
<1>23. CASE Edit
  <2>1. PICK f \in File :
          /\ \A g \in File : g # f => worktree'[g] = worktree[g]
          /\ ghost'.drifted = ghost.drifted \cup {f}
    BY <1>23, EditEffect
  <2>2. UNCHANGED <<box, row, call, runner>> /\ ghost'.captured = ghost.captured
    BY <1>23, EditEffect
  <2> QED
    BY <1>0, <2>1, <2>2 DEF Undrifted
<1>24. CASE RemoveSandbox
  <2>1. runner.pc = "off" /\ box'.tree = box.tree /\ UNCHANGED <<worktree, row, call, runner, ghost>>
    BY <1>0, <1>24 DEF RemoveSandbox, At, Sandbox
  <2> QED
    BY <2>1 DEF Undrifted
<1>25. CASE ResolveCall
  <2>1. /\ runner.pc = "off" /\ call \notin {"absent", "completed"}
        /\ UNCHANGED <<worktree, box, row, runner, ghost>>
    BY <1>25 DEF ResolveCall, At
  <2> QED
    BY <2>1, <1>c DEF Undrifted, Writing
<1>26. CASE UNCHANGED vars
  <2>1. UNCHANGED <<worktree, box, row, call, runner, ghost>>
    BY <1>26 DEF vars
  <2> QED
    BY <2>1 DEF Undrifted
<1> QED
  BY <1>1, <1>2, <1>3, <1>4, <1>5, <1>6, <1>7, <1>8, <1>9, <1>10, <1>11, <1>12, <1>13,
     <1>14, <1>15, <1>16, <1>17, <1>18, <1>19, <1>20, <1>21, <1>22, <1>23, <1>24, <1>25, <1>26
  DEF Next, RunnerStep

(* Every step gives a sync up for a reason only.                           *)
LEMMA ReasonsStep ==
  TypeOK /\ Phases /\ Books /\ Outputs /\ Baselines /\ Undrifted /\ Reasons /\ [Next]_vars
    => Reasons'
<1> SUFFICES ASSUME TypeOK, Phases, Books, Outputs, Baselines, Undrifted, Reasons, [Next]_vars
             PROVE  Reasons'
  OBVIOUS
<1>0. /\ runner \in Process /\ ghost \in Ghost /\ row \in SyncRow /\ box \in Sandbox
      /\ Produced \subseteq File /\ ghost.captured \in Tree /\ Missing \notin Tree
      /\ runner.baseline \in Tree /\ runner.todo \subseteq File
  BY TreeFacts DEF TypeOK, Produced, Ghost, Process
<1>a. ASSUME attempt'.outcome # "sync_failed", runner'.pc # "close" \/ call' # "completed"
      PROVE  Reasons'
  BY <1>a DEF Reasons
<1>b. ASSUME UNCHANGED <<attempt, row>>, box'.tainted = box.tainted, runner'.pc # "close",
             ghost'.captured = ghost.captured,
             ghost.faulty => ghost'.faulty, ghost.drifted \subseteq ghost'.drifted
      PROVE  Reasons'
  BY <1>b DEF Reasons, BaselineCurrent
<1>1. CASE NewAttempt
  BY <1>0, <1>1, <1>a DEF NewAttempt, Goto, Process
<1>2. CASE DriveCall
  <2>1. runner'.pc # "close" /\ attempt.outcome = "open" /\ attempt' = attempt
    BY <1>0, <1>2 DEF DriveCall, Continues, Goto, Leave, Off, Process
  <2> QED
    BY <2>1, <1>a
<1>3. CASE Recover
  BY <1>3, <1>a, RecoverEffect DEF Recover, Continues
<1>4. CASE Build \/ Copy \/ StartRow \/ NotInvoked \/ Invoke
  <2>1. attempt.outcome = "open" /\ call' # "completed" /\ attempt' = attempt
    BY <1>4 DEF Build, Copy, StartRow, NotInvoked, Invoke, At, Phases, Placing
  <2> QED
    BY <2>1, <1>a
<1>5. ASSUME NEW f \in File, Capture(f) PROVE Reasons'
  <2>1. attempt.outcome = "open" /\ call' # "completed" /\ attempt' = attempt
    BY <1>5 DEF Capture, At, Phases, Placing
  <2> QED
    BY <2>1, <1>a
<1>6. CASE Answer
  <2>1. attempt.outcome = "open" /\ attempt' = attempt
    BY <1>6 DEF Answer, At, Phases, Placing
  <2>2. runner'.pc # "close"
    BY <1>0, <1>6, NextCandidateEffect DEF Answer, Goto, Leave, Off, Process
  <2> QED
    BY <2>1, <2>2, <1>a
<1>7. CASE Verify
  <2>1. attempt.outcome = "open" /\ UNCHANGED <<attempt, box>>
    BY <1>7 DEF Verify, At, Phases, Returning
  <2> QED
    BY <1>7, <2>1, VerifyEffect DEF Reasons
<1>8. ASSUME NEW f \in File, Check(f) PROVE Reasons'
  <2>1. /\ attempt.outcome = "open" /\ call = "completed" /\ row.state # "synced"
        /\ UNCHANGED <<attempt, row, box, ghost>>
    BY <1>8 DEF Check, At, Phases, Returning
  <2>2. CASE ~Conflicts(f)
    BY <1>8, <2>1, <2>2, <1>a, CheckEffect
  <2>3. CASE Conflicts(f)
    <3>1. ASSUME BaselineCurrent PROVE f \in ghost.drifted
      <4>1. runner.baseline = ghost.captured
        BY <1>0, <1>8, <3>1, CheckEffect DEF Baselines, Returning, BaselineCurrent
      <4> QED
        BY <2>1, <2>3, <4>1 DEF Conflicts, Undrifted
    <3> QED
      BY <2>1, <3>1 DEF Reasons, BaselineCurrent
  <2> QED
    BY <2>2, <2>3
<1>9. ASSUME NEW f \in File, Save(f) \/ Restore(f) \/ RestoreFails(f) PROVE Reasons'
  <2>1. attempt.outcome = "open" /\ attempt' = attempt
    BY <1>9 DEF Save, Restore, RestoreFails, At, Phases, Returning
  <2> QED
    BY <1>9, <2>1, <1>a, SaveEffect, RestoreEffect, RestoreFailsEffect
<1>10. CASE Checked \/ Replace \/ WriteFails \/ RecordDone
  <2>1. attempt.outcome = "open" /\ attempt' = attempt
    BY <1>10 DEF Checked, Replace, WriteFails, RecordDone, At, Phases, Returning
  <2>2. runner'.pc \in {"commit", "rollback", "advance"}
    BY <1>0, <1>10 DEF Checked, Replace, WriteFails, RecordDone, Goto, Process
  <2> QED
    BY <2>1, <2>2, <1>a
<1>11. CASE RolledBack
  BY <1>11 DEF RolledBack, At, Books, Reasons
<1>12. CASE Manifest
  <2>1. attempt.outcome = "open" /\ UNCHANGED <<attempt, box, ghost>>
    BY <1>12 DEF Manifest, At, Phases, Returning
  <2>2. CASE runner'.pc = "record"
    BY <2>1, <2>2, <1>a
  <2>3. CASE runner'.pc # "record"
    <3>1. PICK f \in Produced : worktree[f] = Absent
      BY <1>12, <2>3, ManifestEffect
    <3>2. f \in ghost.drifted
      BY <1>12, <3>1, ManifestEffect DEF Outputs, Writing, Produced
    <3> QED
      BY <2>1, <3>2 DEF Reasons
  <2> QED
    BY <2>2, <2>3
<1>13. CASE Report
  BY <1>13 DEF Report, At, Books, Reasons
<1>14. CASE CloseAttempt
  <2>1. /\ runner.pc = "close" /\ runner'.pc = "fail" /\ UNCHANGED <<row, call, box, ghost>>
        /\ attempt'.outcome = "sync_failed" => call = "completed"
    BY <1>0, <1>14 DEF CloseAttempt, At, Goto, Process, TypeOK
  <2> QED
    BY <2>1 DEF Reasons, BaselineCurrent
<1>15. CASE Advance \/ FailTask \/ Resume
  <2>1. runner'.pc \in {"off", "drive"}
    BY <1>0, <1>15 DEF Advance, FailTask, Resume, Goto, Leave, Off, Process
  <2> QED
    BY <1>15, <2>1, <1>b DEF Advance, FailTask, Resume
<1>16. CASE Crash
  <2>1. /\ runner'.pc = "off" /\ ghost'.captured = ghost.captured
        /\ ghost'.faulty = ghost.faulty /\ ghost'.drifted = ghost.drifted
    BY <1>0, <1>16 DEF Crash, Leave, Off, Ghost
  <2> QED
    BY <1>16, <2>1, <1>b DEF Crash
<1>17. CASE Work
  <2>1. /\ call # "completed" /\ UNCHANGED <<row, call, attempt, runner, ghost>>
        /\ box.tainted => box'.tainted
    BY <1>0, <1>17 DEF Work, Sandbox
  <2> QED
    BY <2>1 DEF Reasons, BaselineCurrent
<1>18. CASE Edit
  BY <1>18, EditEffect DEF Reasons, BaselineCurrent
<1>19. CASE RemoveSandbox
  <2>1. runner.pc = "off" /\ box'.tainted = box.tainted
    BY <1>0, <1>19 DEF RemoveSandbox, At, Sandbox
  <2> QED
    BY <1>19, <2>1, <1>b DEF RemoveSandbox
<1>20. CASE ResolveCall
  BY <1>20, <1>b DEF ResolveCall, At
<1>21. CASE UNCHANGED vars
  BY <1>21 DEF vars, Reasons, BaselineCurrent
<1> QED
  BY <1>1, <1>2, <1>3, <1>4, <1>5, <1>6, <1>7, <1>8, <1>9, <1>10, <1>11, <1>12, <1>13,
     <1>14, <1>15, <1>16, <1>17, <1>18, <1>19, <1>20, <1>21
  DEF Next, RunnerStep

-----------------------------------------------------------------------------
SyncInv ==
  /\ TypeOK /\ Phases /\ Books /\ Outputs /\ NothingOwed /\ Undoable /\ Baselines
  /\ Overwritable /\ Undrifted /\ Reasons

(* The inductive invariant of the staging sync.                            *)
THEOREM SyncInvariant == Spec => []SyncInv
<1>1. Init => SyncInv
  BY TypeInit, PartsInit DEF SyncInv
<1>2. SyncInv /\ [Next]_vars => SyncInv'
  BY TypeStep, PhasesStep, BooksStep, OutputsStep, OwedStep, UndoableStep, BaselinesStep,
     OverwritableStep, UndriftedStep, ReasonsStep DEF SyncInv
<1> QED
  BY <1>1, <1>2, PTL DEF Spec

(* No sequence of syncs, crashes, replays and rollbacks overwrites what    *)
(* the owner wrote, as long as the row holds the sandbox's own baseline.   *)
THEOREM EditsSurvive == Spec => []OwnerEditsSurvive
<1>1. SyncInv => OwnerEditsSurvive
  BY DEF SyncInv, Overwritable, OwnerEditsSurvive
<1> QED
  BY <1>1, SyncInvariant, PTL

(* A sync that is given up leaves nothing behind, but for what it reports, *)
(* if no crash cut it short and nobody wrote meanwhile.                    *)
THEOREM SyncAllOrNothing == Spec => []AllOrNothing
<1>1. SyncInv => AllOrNothing
  <2> SUFFICES ASSUME SyncInv, attempt.outcome = "sync_failed", ~ghost.torn, ghost.raced = {}
               PROVE  \A f \in File \ reported : worktree[f] = ghost.own[f]
    BY DEF AllOrNothing
  <2>1. runner.pc \notin Returning
    BY DEF SyncInv, Phases
  <2>2. runner.pc # "report"
    BY DEF SyncInv, Phases
  <2> QED
    BY <2>1, <2>2 DEF SyncInv, Undoable, InHand, InCommit, Writing, Returning
<1> QED
  BY <1>1, SyncInvariant, PTL

(* A finished call's sync is given up for a reason only.                   *)
THEOREM SyncConflictsReal == Spec => []ConflictsAreReal
<1>1. SyncInv => ConflictsAreReal
  BY DEF SyncInv, Reasons, ConflictsAreReal
<1> QED
  BY <1>1, SyncInvariant, PTL

(* A manifest names the worker's output.                                   *)
THEOREM ManifestComplete == Spec => []SyncedIsComplete
<1>1. SyncInv => SyncedIsComplete
  BY DEF SyncInv, Outputs
<1> QED
  BY <1>1, SyncInvariant, PTL

(* After the sync the row and the worktree are left alone.                 *)
THEOREM SyncedStays == Spec => SyncedIsKept
<1>1. SyncInv /\ [Next]_vars =>
        (row.state = "synced" => row' = row /\ (worktree' # worktree => edits' # edits))
  BY KeptStep DEF SyncInv
<1> QED
  BY <1>1, SyncInvariant, PTL DEF Spec, SyncedIsKept
=============================================================================
