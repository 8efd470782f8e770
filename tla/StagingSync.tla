----------------------------- MODULE StagingSync -----------------------------
(***************************************************************************)
(* A remote worker's files: the staging sandbox it works in, the row of    *)
(* staging_syncs that outlives the process, and the copying back into the  *)
(* task's worktree, which the owner may edit at any time.                  *)
(*                                                                         *)
(* One task in state RUNNING (REVISING is driven alike) and the runner     *)
(* that drives it; pauses and crashes switch the runner off, resume        *)
(* switches it on.  A Database method is one step and so is one access to  *)
(* a file: the owner may come between any two of them.  File contents are  *)
(* opaque; permission bits belong to the content, symlinks and other types *)
(* to what taints a sandbox.  Order within a set of files is left open.    *)
(***************************************************************************)
EXTENDS Naturals

CONSTANTS
  File,        \* task.allowed_files
  Content,     \* what a file may contain
  Absent,      \* no such file
  Missing,     \* a JSON column that is NULL or does not parse
  Written,     \* the contents a worker produces
  Origins,     \* how the task comes to the runner, a subset of OriginKinds
  Candidates,  \* 1, or 2 with a remote task.fallback_model
  MaxAttempts, \* bound: attempts of the task
  MaxEdits,    \* bound: edits by the owner
  MaxCrashes   \* bound: crashes of the runner

OriginKinds == {"fresh", "planned", "legacy"}
Version == Content \cup {Absent}
Tree == [File -> Version]

ASSUME StagingAssumption ==
  /\ Absent \notin Content /\ Missing \notin Tree \cup File
  /\ Written \subseteq Version /\ Origins \subseteq OriginKinds
  /\ Candidates \in {1, 2} /\ MaxAttempts \in Nat \ {0}
  /\ MaxEdits \in Nat /\ MaxCrashes \in Nat

VARIABLES
  worktree,   \* the allowed files of the task's worktree
  box,        \* the staging sandbox of the current attempt
  row,        \* its row of staging_syncs
  call,       \* the state of its latest call of the role, or "absent"
  attempt,    \* the current attempt
  task,       \* tasks.state
  reported,   \* files named by staging.rollback_failed events
  runner,     \* the process that drives the task
  edits, crashes,   \* counters for the bounds
  ghost       \* what the properties compare with; no action reads it

vars == <<worktree, box, row, call, attempt, task, reported, runner, edits,
          crashes, ghost>>

PC == {"off", "drive", "build", "capture", "copy", "invoke", "calling",
       "verify", "check", "commit", "replace", "rollback", "record",
       "advance", "report", "close", "fail"}

\* baseline: the one this drive compares with; todo: the files the current
\* phase has still to handle; saved: the originals of the files it has begun
\* to write; lost: the files that rollback could not restore.
Process == [pc : PC, file : File \cup {Missing}, candidate : 1..2, recovering : BOOLEAN,
            baseline : Tree, todo : SUBSET File, held : SUBSET File,
            saved : Tree, lost : SUBSET File, manifest : Tree]

Sandbox == [there : BOOLEAN, tree : Tree, tainted : BOOLEAN]
SyncRow == [state : {"none", "created", "synced"},
            baseline : Tree \cup {Missing}, manifest : Tree \cup {Missing}]

Empty == [f \in File |-> Absent]
NoRow == [state |-> "none", baseline |-> Missing, manifest |-> Missing]
NoBox == [there |-> FALSE, tree |-> Empty, tainted |-> FALSE]
Off == [pc |-> "off", file |-> Missing, candidate |-> 1,
        recovering |-> FALSE, baseline |-> Empty, todo |-> {}, held |-> {},
        saved |-> Empty, lost |-> {}, manifest |-> Empty]

\* captured: the worktree as it was when the sandbox was built; drifted: files
\* the owner has changed since; raced: files the owner has changed while they
\* were being synced; own: the worktree but for what this attempt has not finished
\* syncing; torn, faulty: a commit was cut short by a crash, by a failed write.
Ghost == [captured : Tree, drifted : SUBSET File, raced : SUBSET File,
          own : Tree, torn : BOOLEAN, faulty : BOOLEAN]

\* A planned call and a row without its JSON were left by an older version.
OriginState(kind, tree) ==
  /\ call = CASE kind = "fresh" -> "absent"
              [] kind = "planned" -> "planned"
              [] kind = "legacy" -> "completed"
  /\ attempt = [number |-> IF kind = "fresh" THEN 0 ELSE 1, outcome |-> "open"]
  /\ IF kind = "legacy"
       THEN /\ box = [NoBox EXCEPT !.there = TRUE, !.tree = tree]
            /\ row \in {[NoRow EXCEPT !.state = s] : s \in {"none", "created", "synced"}}
       ELSE box = NoBox /\ row = NoRow

Init ==
  /\ worktree \in Tree
  /\ \E kind \in Origins : OriginState(kind, worktree)
  /\ task = "running"
  /\ reported = {}
  /\ runner = [Off EXCEPT !.pc = "drive"]
  /\ edits = 0 /\ crashes = 0
  /\ ghost = [captured |-> worktree, drifted |-> {}, raced |-> {},
              own |-> worktree, torn |-> FALSE, faulty |-> FALSE]

At(pc) == runner.pc = pc
Goto(pc) == runner' = [runner EXCEPT !.pc = pc]
Leave == runner' = Off

\* What the sync copies back: every allowed file that is in the sandbox, the
\* ones the worker left as they were included; deletions are not copied.
Produced == {f \in File : box.tree[f] # Absent}

-----------------------------------------------------------------------------
(* Driving the role: _attempt_for_role, then by the state of the last call.*)

Continues == attempt.outcome = "open" /\ call # "absent"

NewAttempt ==
  /\ At("drive") /\ ~Continues
  /\ attempt.number < MaxAttempts
  /\ attempt' = [number |-> attempt.number + 1, outcome |-> "open"]
  /\ call' = "absent" /\ row' = NoRow /\ box' = NoBox
  /\ Goto("build")
  /\ ghost' = [ghost EXCEPT !.own = worktree]
  /\ UNCHANGED <<worktree, task, reported, edits, crashes>>

\* A call that is neither planned nor completed is incomplete: safe pause.
DriveCall ==
  /\ At("drive") /\ Continues /\ call # "completed"
  /\ IF call = "planned" THEN Goto("build") ELSE Leave
  /\ UNCHANGED <<worktree, box, row, call, attempt, task, reported, edits,
                 crashes, ghost>>

\* verify_synced_manifest, for a synced row.
Delivered == row.manifest # Missing /\ \A f \in File :
               row.manifest[f] # Absent => worktree[f] = row.manifest[f]

\* Mutant: a synced row is replayed like one that is not.
RecoverableAgain == row.state # "none" /\ row.baseline # Missing /\ box.there

Recoverable == row.state = "created" /\ row.baseline # Missing /\ box.there

\* _recover_staging_sync: what cannot be verified or replayed is a safe pause.
Recover ==
  /\ At("drive") /\ Continues /\ call = "completed"
  /\ \/ /\ Recoverable
        /\ runner' = [runner EXCEPT !.pc = "verify", !.recovering = TRUE,
                                     !.baseline = row.baseline]
     \/ /\ ~Recoverable
        /\ IF row.state = "synced" /\ Delivered THEN Goto("advance") ELSE Leave
  /\ UNCHANGED <<worktree, box, row, call, attempt, task, reported, edits,
                 crashes, ghost>>

-----------------------------------------------------------------------------
(* create_staging_sandbox: an old sandbox of the attempt goes first; a file*)
(* is hashed and then read again for the copy.                             *)

Build ==
  /\ At("build")
  /\ box' = [NoBox EXCEPT !.there = TRUE]
  /\ \/ runner' = [runner EXCEPT !.pc = "capture", !.todo = File, !.baseline = Empty]
     \/ Goto("close")   \* an input artifact does not match its hash
  /\ UNCHANGED <<worktree, row, call, attempt, task, reported, edits, crashes, ghost>>

Capture(f) ==
  /\ At("capture") /\ f \in runner.todo
  /\ runner' = [runner EXCEPT !.baseline[f] = worktree[f], !.todo = @ \ {f},
                              !.file = f,
                              !.pc = IF worktree[f] = Absent THEN @ ELSE "copy"]
  /\ ghost' = [ghost EXCEPT !.captured[f] = worktree[f], !.drifted = @ \ {f}]
  /\ UNCHANGED <<worktree, box, row, call, attempt, task, reported, edits, crashes>>

\* A file deleted since it was hashed is an OSError: the generic handler.
Copy ==
  /\ At("copy")
  /\ box' = [box EXCEPT !.tree[runner.file] = worktree[runner.file]]
  /\ Goto(IF worktree[runner.file] = Absent THEN "fail" ELSE "capture")
  /\ UNCHANGED <<worktree, row, call, attempt, task, reported, edits, crashes, ghost>>

\* record_staging_sync_start: ON CONFLICT(attempt_id) DO NOTHING.
StartRow ==
  /\ At("capture") /\ runner.todo = {}
  /\ row' = IF row.state = "none"
              THEN [row EXCEPT !.state = "created", !.baseline = runner.baseline]
              ELSE row
  /\ Goto("invoke")
  /\ UNCHANGED <<worktree, box, call, attempt, task, reported, edits, crashes, ghost>>

-----------------------------------------------------------------------------
(* The call.  A candidate that is denied or unavailable makes room for the *)
(* fallback, which gets a sandbox of its own in the same attempt.          *)

NextCandidate ==
  IF runner.candidate < Candidates
    THEN runner' = [runner EXCEPT !.pc = "build", !.candidate = @ + 1]
    ELSE Leave

\* Denied by policy, or (the run is being paused) not started.
NotInvoked ==
  /\ At("invoke")
  /\ Leave \/ (call # "planned" /\ NextCandidate)
  /\ UNCHANGED <<worktree, box, row, call, attempt, task, reported, edits,
                 crashes, ghost>>

Invoke ==
  /\ At("invoke")
  /\ call' = "started"
  /\ Goto("calling")
  /\ UNCHANGED <<worktree, box, row, attempt, task, reported, edits, crashes, ghost>>

\* The worker writes, or deletes, a file of its sandbox; or it changes an input,
\* or leaves a link or a file outside the scope.
Work ==
  /\ call \in {"started", "unknown"} /\ box.there
  /\ \/ \E f \in File, v \in Written : box' = [box EXCEPT !.tree[f] = v]
     \/ box' = [box EXCEPT !.tainted = TRUE]
  /\ UNCHANGED <<worktree, row, call, attempt, task, reported, runner, edits,
                 crashes, ghost>>

Answer ==
  /\ At("calling")
  /\ \/ call' = "completed" /\ Goto("verify")
     \/ call' = "failed" /\ NextCandidate
     \/ call' \in {"failed", "unknown"} /\ Leave
  /\ UNCHANGED <<worktree, box, row, attempt, task, reported, edits, crashes, ghost>>

-----------------------------------------------------------------------------
(* sync_staging_outputs: verify the sandbox, check every target, then write*)
(* file by file, and take the writes back when one fails.                  *)

Verify ==
  /\ At("verify")
  /\ IF box.tainted THEN Goto("close")
     ELSE runner' = [runner EXCEPT !.pc = "check", !.todo = Produced]
  /\ UNCHANGED <<worktree, box, row, call, attempt, task, reported, edits,
                 crashes, ghost>>

\* Mutant: only a target that existed can be in conflict.
ConflictsIfExisted(f) ==
  /\ runner.baseline[f] # Absent
  /\ worktree[f] \notin {runner.baseline[f], box.tree[f]}

\* Mutant: a target that holds the output already is in conflict.
ConflictsIfWritten(f) == worktree[f] # runner.baseline[f]

Conflicts(f) == worktree[f] \notin {runner.baseline[f], box.tree[f]}

Check(f) ==
  /\ At("check") /\ f \in runner.todo
  /\ IF Conflicts(f) THEN Goto("close")
     ELSE runner' = [runner EXCEPT !.todo = @ \ {f}]
  /\ UNCHANGED <<worktree, box, row, call, attempt, task, reported, edits,
                 crashes, ghost>>

Checked ==
  /\ At("check") /\ runner.todo = {}
  /\ runner' = [runner EXCEPT !.pc = "commit", !.todo = Produced]
  /\ UNCHANGED <<worktree, box, row, call, attempt, task, reported, edits,
                 crashes, ghost>>

\* The original is read and noted before the write is tried.
Save(f) ==
  /\ At("commit") /\ f \in runner.todo
  /\ runner' = [runner EXCEPT !.pc = "replace", !.file = f, !.todo = @ \ {f},
                              !.held = @ \cup {f}, !.saved[f] = worktree[f]]
  /\ UNCHANGED <<worktree, box, row, call, attempt, task, reported, edits,
                 crashes, ghost>>

Replace ==
  /\ At("replace")
  /\ worktree' = [worktree EXCEPT ![runner.file] = box.tree[runner.file]]
  /\ Goto("commit")
  /\ UNCHANGED <<box, row, call, attempt, task, reported, edits, crashes, ghost>>

WriteFails ==
  /\ At("replace")
  /\ Goto("rollback")
  /\ ghost' = [ghost EXCEPT !.faulty = TRUE]
  /\ UNCHANGED <<worktree, box, row, call, attempt, task, reported, edits, crashes>>

\* Mutant: the file whose write failed is restored, the others are not.
RestoreLast(f) ==
  /\ At("rollback") /\ f \in runner.held
  /\ worktree' = [worktree EXCEPT ![f] = IF f = runner.file THEN runner.saved[f] ELSE @]
  /\ runner' = [runner EXCEPT !.held = @ \ {f}]
  /\ UNCHANGED <<box, row, call, attempt, task, reported, edits, crashes, ghost>>

\* _rollback_writes: write the original back, or unlink a file that was new.
Restore(f) ==
  /\ At("rollback") /\ f \in runner.held
  /\ runner.saved[f] = Absent => worktree[f] # Absent
  /\ worktree' = [worktree EXCEPT ![f] = runner.saved[f]]
  /\ runner' = [runner EXCEPT !.held = @ \ {f}]
  /\ UNCHANGED <<box, row, call, attempt, task, reported, edits, crashes, ghost>>

\* The write fails again, or there is nothing to unlink.
RestoreFails(f) ==
  /\ At("rollback") /\ f \in runner.held
  /\ runner' = [runner EXCEPT !.held = @ \ {f}, !.lost = @ \cup {f}]
  /\ UNCHANGED <<worktree, box, row, call, attempt, task, reported, edits,
                 crashes, ghost>>

RolledBack ==
  /\ At("rollback") /\ runner.held = {}
  /\ Goto(IF runner.lost = {} THEN "close" ELSE "report")
  /\ UNCHANGED <<worktree, box, row, call, attempt, task, reported, edits,
                 crashes, ghost>>

-----------------------------------------------------------------------------
(* What is recorded.                                                       *)

\* Mutant: the manifest is taken before every output is written.
ManifestEarly ==
  /\ At("commit")
  /\ runner' = [runner EXCEPT !.pc = "record",
        !.manifest = [f \in File |-> IF f \in Produced THEN worktree[f] ELSE Absent]]
  /\ UNCHANGED <<worktree, box, row, call, attempt, task, reported, edits,
                 crashes, ghost>>

\* staging_output_manifest reads the worktree again; an output that is gone is
\* a StagingSyncError, which only the first sync expects.
Manifest ==
  /\ At("commit") /\ runner.todo = {}
  /\ IF \A f \in Produced : worktree[f] # Absent
       THEN runner' = [runner EXCEPT !.pc = "record",
              !.manifest = [f \in File |-> IF f \in Produced THEN worktree[f] ELSE Absent]]
       ELSE Goto(IF runner.recovering THEN "fail" ELSE "close")
  /\ UNCHANGED <<worktree, box, row, call, attempt, task, reported, edits,
                 crashes, ghost>>

\* Mutant: a state the table does not know.
RecordDoneAs ==
  /\ At("record")
  /\ row' = [row EXCEPT !.state = "done", !.manifest = runner.manifest]
  /\ ghost' = [ghost EXCEPT !.own = worktree]
  /\ Goto("advance")
  /\ UNCHANGED <<worktree, box, call, attempt, task, reported, edits, crashes>>

\* record_staging_sync_done
RecordDone ==
  /\ At("record")
  /\ row' = [row EXCEPT !.state = "synced", !.manifest = runner.manifest]
  /\ ghost' = [ghost EXCEPT !.own = worktree]
  /\ Goto("advance")
  /\ UNCHANGED <<worktree, box, call, attempt, task, reported, edits, crashes>>

\* The role is done: SELF_TESTING, and the task leaves this module.
Advance ==
  /\ At("advance")
  /\ task' = "self_testing"
  /\ Leave
  /\ UNCHANGED <<worktree, box, row, call, attempt, reported, edits, crashes, ghost>>

\* record_staging_rollback_failed
Report ==
  /\ At("report")
  /\ reported' = reported \cup runner.lost
  /\ Goto("close")
  /\ UNCHANGED <<worktree, box, row, call, attempt, task, edits, crashes, ghost>>

\* complete_attempt
CloseAttempt ==
  /\ At("close")
  /\ attempt' = [attempt EXCEPT !.outcome = IF call = "completed" THEN "sync_failed"
                                            ELSE "input_mismatch"]
  /\ Goto("fail")
  /\ UNCHANGED <<worktree, box, row, call, task, reported, edits, crashes, ghost>>

\* _move_to_failed, or the generic handler for an exception nobody expected.
FailTask ==
  /\ At("fail")
  /\ task' = "failed"
  /\ Leave
  /\ UNCHANGED <<worktree, box, row, call, attempt, reported, edits, crashes, ghost>>

-----------------------------------------------------------------------------
(* The owner, the user's commands, and crashes.                            *)

Syncing == runner.pc \in {"check", "commit", "replace", "rollback", "record"}

Edit ==
  /\ edits < MaxEdits /\ task = "running"
  /\ \E f \in File, v \in Version :
       /\ v # worktree[f]
       /\ worktree' = [worktree EXCEPT ![f] = v]
       /\ ghost' = [ghost EXCEPT !.own[f] = v, !.drifted = @ \cup {f},
                                 !.raced = IF Syncing THEN @ \cup {f} ELSE @]
  /\ edits' = edits + 1
  /\ UNCHANGED <<box, row, call, attempt, task, reported, runner, crashes>>

\* Somebody clears the runs directory of a run that is not running.
RemoveSandbox ==
  /\ At("off") /\ box.there
  /\ box' = [box EXCEPT !.there = FALSE]
  /\ UNCHANGED <<worktree, row, call, attempt, task, reported, runner, edits,
                 crashes, ghost>>

\* A call left in flight is frozen (UNKNOWN) and resolved before a resume.
ResolveCall ==
  /\ At("off") /\ call \in {"started", "unknown"}
  /\ call' \in {"unknown", "completed"}
  /\ UNCHANGED <<worktree, box, row, attempt, task, reported, runner, edits,
                 crashes, ghost>>

Resume ==
  /\ At("off") /\ task = "running" /\ call \notin {"started", "unknown"}
  /\ Goto("drive")
  /\ UNCHANGED <<worktree, box, row, call, attempt, task, reported, edits,
                 crashes, ghost>>

Crash ==
  /\ ~At("off") /\ crashes < MaxCrashes
  /\ crashes' = crashes + 1
  /\ Leave
  /\ ghost' = [ghost EXCEPT !.torn = @ \/ runner.held \cup runner.lost # {}]
  /\ UNCHANGED <<worktree, box, row, call, attempt, task, reported, edits>>

-----------------------------------------------------------------------------
RunnerStep ==
  \/ NewAttempt \/ DriveCall \/ Recover \/ Build \/ StartRow \/ Copy
  \/ (\E f \in File : Capture(f))
  \/ NotInvoked \/ Invoke \/ Answer
  \/ Verify \/ Checked \/ Replace \/ WriteFails \/ RolledBack
  \/ (\E f \in File : Check(f) \/ Save(f) \/ Restore(f) \/ RestoreFails(f))
  \/ Manifest \/ RecordDone \/ Advance \/ Report \/ CloseAttempt \/ FailTask

Next ==
  RunnerStep \/ Work \/ Edit \/ RemoveSandbox \/ ResolveCall \/ Resume \/ Crash

Spec == Init /\ [][Next]_vars

-----------------------------------------------------------------------------
TypeOK ==
  /\ worktree \in Tree
  /\ box \in Sandbox
  /\ row \in SyncRow
  /\ call \in {"absent", "planned", "started", "completed", "failed", "unknown"}
  /\ attempt \in [number : 0..MaxAttempts,
                  outcome : {"open", "sync_failed", "input_mismatch"}]
  /\ task \in {"running", "self_testing", "failed"}
  /\ reported \subseteq File
  /\ runner \in Process
  /\ edits \in 0..MaxEdits /\ crashes \in 0..MaxCrashes
  /\ ghost \in Ghost

\* The baseline that a recovery would use is the one of the present sandbox.
BaselineCurrent == row.baseline \in {Missing, ghost.captured}

(* The owner's work is not overwritten: where the worktree differs from    *)
(* what the owner has put there, the sync has replaced a file that was     *)
(* still as it was when the sandbox was built, by the worker's output -    *)
(* through crashes in the middle of a commit, replays and rollbacks, but   *)
(* for an edit that falls into the sync itself.                            *)
OverwritesOnlyCaptured ==
  \A f \in File \ ghost.raced : worktree[f] # ghost.own[f] =>
    worktree[f] = box.tree[f] /\ ghost.own[f] = ghost.captured[f]

OwnerEditsSurvive == BaselineCurrent => OverwritesOnlyCaptured

(* All or nothing: when a sync is given up the worktree is as the owner    *)
(* had it, but for the files reported as unrestored; a crash in the middle *)
(* of it, which the docstring exempts, or an edit during it aside.         *)
AllOrNothing ==
  attempt.outcome = "sync_failed" /\ ~ghost.torn /\ ghost.raced = {} =>
    \A f \in File \ reported : worktree[f] = ghost.own[f]

(* A finished, paid call is not thrown away without a reason: its sync is  *)
(* given up only when the owner has changed a target since the sandbox was *)
(* built, the sandbox is tainted or a write has failed.  In particular a   *)
(* replay never takes the half-written outputs of a crashed commit for the *)
(* owner's edits.                                                          *)
ConflictsAreReal ==
  attempt.outcome = "sync_failed" /\ BaselineCurrent =>
    box.tainted \/ ghost.faulty \/ ghost.drifted # {}

(* The row says synced only when every output is in the worktree: the      *)
(* manifest is the worker's output, file by file, whichever run of the     *)
(* sync, the first or a replay, has recorded it.                           *)
SyncedIsComplete ==
  row.state = "synced" /\ row.manifest # Missing =>
    \A f \in File \ ghost.raced : row.manifest[f] = box.tree[f]

(* What has been synced stays: no later drive writes to the worktree again *)
(* or changes the record, it belongs to the owner from then on.            *)
SyncedIsKept ==
  [][row.state = "synced" => /\ row' = row
                             /\ worktree' # worktree => edits' # edits]_vars
=============================================================================
