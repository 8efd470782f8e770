# TLA+ for AgentFlow

AgentFlow executes a plan of tasks with local and remote models under a
persistent control plane: a SQLite database, a runner process that implements,
tests and reviews task after task, and CLI commands that pause, freeze, take
over, resume, cancel and reconcile a run while it is going on.  This directory
holds TLA+ modules of that control plane, TLC configurations that check them on
small instances, and TLAPS proofs of theorems that hold for every value of the
constants.  Everything is translated from the Python sources under
`src/src/agentflow`; `PROJECT.json` maps every definition to its lines.

    tlc -config CallLedger.cfg MCCallLedger      # a model-checking run
    tlapm CallLedger_proofs.tla                  # a proof module

## 1. The system

### Components

| Component (source) | State it keeps | Operations | What makes it correct |
|---|---|---|---|
| State machines (`states.py`) | none: three transition tables | `require_transition` | every writer consults its table |
| Run row (`database.py`) | `run_state`, `control_state`, `finished_at`, terminal supervisor checkpoint | `create_run`, `set_run_state`, `transition_control`, `force_pause`, `finalize_run` | verdict, finish and checkpoint agree; a verdict is final |
| Call ledger (`database.py`, `service.py`) | `model_calls`, `cost_entries` | `begin_call`, `set_provider_request_id`, `transition_call`, `mark_call_unknown`, `complete_call`, `fail_call`, `mark_active_calls_unknown`, `resolve_unknown` | no paid call is sent twice; no bill is forgotten; the budget holds under concurrent dispatch |
| Run control (`runner.py`, `cli.py`) | task states, attempts, the place of each executing process | `start`, `resume`, `execute`, the safe pause, the CLI commands | approval rests on review; finished work is not repeated; pauses fall between calls; every runner ends |
| Local role driver (`runner.py`, `opencode_adapter.py`) | the calls of one write role: a base call and its continuation segments | `_drive_local_role`, `_invoke_continuation`, resume's gate | bounded chain, one session, no segment twice, nothing after a worker that left its scope |
| Remote worker staging (`runner.py`, `workspace.py`, `database.py`) | baseline, sandbox, sync record, output manifest | create sandbox, invoke, sync outputs, roll back, recover | outputs arrive completely or not at all; the owner's edits are never overwritten; a finished call is not thrown away without a reason |
| Supervisor checkpoints (`database.py`, `runner.py`, `cli.py`) | `supervisor_checkpoints`, the event cursor of each supervisor | record, sentinel at the limit, terminal checkpoint, digest, acknowledge | a bounded table; no second pending row for one event; a decision on a stale sentinel is refused; nobody misses a wake |
| Plans, authorizations, run registry (`authorization.py`, `database.py`) | plans, authorizations, active runs | save, `create_run`, validate | one active run per project, one run per authorization |
| Policy gates (`policies.py`) | none | decisions on budget, privacy, independence | no denied call is dispatched |
| Adapters (`adapters.py`, `opencode_adapter.py`, `fake_adapter.py`) | a model process | `invoke`, `query`, `cancel` | every call ends in a known or an unknown outcome |
| Step-limit and usage parsing (`opencode_adapter.py`) | none | text recognition | - |
| Git workspace, test runner (`workspace.py`) | worktrees | git and test commands | - |
| Contracts, serialization, budgets, configuration, schema | immutable values; constraints | validation | uniqueness of request keys and cost entries |
| Command line (`cli.py`) | none | one process per command | - |

### How they interact

There is no server.  Every process - a runner, a CLI command - opens the
database and works in `BEGIN IMMEDIATE` transactions, one per `Database`
method.  The only other shared things are the worktrees and the model
processes.  A method that finds a transition illegal raises; what that means
depends on where the caller is.

    user --> cli.py --+--> Database <--+-- Runner.execute
                      |      (rows)    |     _execute_task
                      +--> signals     |     InvocationService.invoke --> adapter --> model process
                           to model    +-- Runner.resume
                           processes

### What is hard about it

*   **Between two transactions everything may change.** The runner reads the
    control state, decides, and writes later; the policy gate reads the budget
    outside the transaction that reserves it; `mark_active_calls_unknown` lists
    the calls in flight and then marks them one at a time.
*   **A model call cannot be undone.** After `Popen` the provider may bill
    whatever the control plane does: time out, crash, freeze or be cancelled.
*   **Crashes.** A process can die between any two transactions, and `resume`
    has to infer from the rows what was going on.
*   **Exceptions as control flow.** `execute` has nine `except` clauses; what
    a refused transition does depends on whether it is raised inside the `try`,
    inside a handler (then the process dies) or before it.
*   **Two runners.** Nothing but the control state tells `resume` that another
    process is alive.
*   **The owner works in the same files.** A sync compares with a baseline, then
    saves, writes and records file by file; the owner may edit between any two of
    these, and the process may die there.
*   **A limit that may not lose anything.** Beyond `max_supervisor_checkpoints` one
    row stands for every further reason while supervisors poll and decide on it.
*   **Workers outlive their drivers.** OpenCode runs in a process group of its own;
    a frozen or crashed driver leaves it at work on the files.

`PROJECT.json` lists each hazard with its line and the properties that watch
over it.

## 2. The modules

    States                      states and transition tables
      RunRow                    one row of table runs: the store's promise
        CallLedger              calls, costs, invocations, the provider
          CallPromise           (instance) what the ledger promises about a key
        RunControl              runners, resume, commands, crashes
          CallPromise           (instance) the same of the calls of a run
    Continuation                the inside of a local write role
    StagingSync                 the inside of a remote write role
    SupervisorCheckpoints       waking the supervisor, and its decisions

| Module | Models | State and code |
|---|---|---|
| `States` | `states.py` | the tables as functions from a state to the set of its successors |
| `RunRow` | the transactions on one run | `runState`, `control`, `finished`, `terminalCk`.  `XxxAllowed` is the condition under which a method writes; otherwise it raises and the row stays as it is.  `RunSpec` puts the transactions in any order |
| `CallPromise` | the abstract ledger | a key is fresh, open or closed; it is sent at most once, while open, and charged when it closes |
| `CallLedger` | `InvocationService`, the call transactions, the provider, the commands that settle calls | `call` (a row per request key), `entry` (`cost_entries`), `proc` (what an invocation holds in memory), `op` (what a command holds in memory), `wire` (the provider: how often it was asked, whether it is done, the bill).  The run's row moves under it by any step of `RunRow` |
| `RunControl` | `Runner.start/resume/execute/_execute_task`, the safe pause, the CLI | `task`, `attempt`, `content` (the worktree against what the latest review was shown), `opinion`, `call` per (task, attempt, role), and per process a program counter whose values are the points between two transactions |
| `Continuation` | `_drive_local_role`, `_invoke_continuation`, the step-limit outcomes of `OpenCodeAdapter.invoke`, resume's gate | `segments` (the rows of `model_calls` of one role, in order), `driver` (every process that drives it), `scope` (who has left the allowed files), `freezing`, `invoked` |
| `StagingSync` | the remote branch of a write role, `create_staging_sandbox`, `sync_staging_outputs`, `_recover_staging_sync`, the `staging_syncs` table | `worktree`, `box` (the sandbox), `row`, `call`, `attempt`, `runner` (with baseline, originals, manifest in memory); `ghost` is read by properties only |
| `SupervisorCheckpoints` | `record_supervisor_checkpoint`, `_record_checkpoint_limit`, `finalize_run`'s checkpoint, `supervisor-next`, `supervisor-record` | `rows`, `events` (the latest event sequence), `notifier`, `supervisor` (cursor and digest) |
| `MCCallLedger`, `MCRunControl`, `MCContinuation`, `MCStagingSync`, `MCSupervisorCheckpoints` | - | constants and symmetry for TLC |
| `RunRow_proofs`, `CallLedger_proofs`, `CallPromise_proofs`, `RunControl_proofs`, `ControlSafety_proofs`, `Continuation_proofs`, `StagingSync_proofs`, `SupervisorCheckpoints_proofs` | - | theorems |

Correspondence of the central actions:

*   `CallLedger!Check` is the policy decision of `invoke`; `BeginCall` and
    `BeginRefused` are the two ways `begin_call` ends; `Send`, `ReportId`,
    `RaiseAfterSend`, `RecordOutcome`, `RecordRejected` are `adapter.invoke` and
    the `except` clauses around it; `StopRun`, `ListStarted`, `MarkUnknown`,
    `MarkRejected` are `pause --immediate` and `cancel`; `QueryUnknown` and
    `Resolve` are `resolve-call`.
*   `RunControl!PauseIfRequested` is the gate before a task and after each stage
    of it; `SafePauseRead`/`SafePauseWrite` are the three reads and three writes of
    `_complete_safe_pause`; `Step` is the dispatch at the head of the loop in
    `_execute_task`; `Compare` and `Verdict` are what `_review` and its caller make of
    an answer; `Raise`, `Handle` and `Leave` say where an exception or a
    return goes from the point where the process is; `HandleTask`,
    `GenericHandler` and `After` are the handlers and the tail of `execute`.
*   `Continuation!Resume` and `Blocking` are resume's refusals; `Drive` is the look
    at what the role has left behind, `Look` the one at the last segment,
    `NewSegment` the key of the next one; `Begin` is `begin_call`; `Callback` and
    `Answer` are the adapter's report of a request id and the outcomes it leaves a
    segment with; `Stray` is a worker that writes outside the allowed files.
*   `StagingSync!Build`, `Capture`, `Copy`, `StartRow` make the sandbox and record its
    baseline; `Verify`, `Check`, `Save`, `Replace`, `WriteFails`, `Restore`,
    `RestoreFails`, `RolledBack`, `Manifest` are `sync_staging_outputs` file by file;
    `Recover` is what a resumed drive does with a row it finds.
*   `SupervisorCheckpoints!Wake` is `_wake_supervisor` with the transaction in it
    (`Record`, which is `Insert` or `RecordInSentinel`); `ReadCursor`, `CheckPending`,
    `Digest` are the three reads of a poll; `Decide` is `supervisor-record`.

### Abstractions

*   A transaction is a step.  Where a method makes several transactions each is a
    step of its own, with three exceptions in `RunControl`:
    `mark_active_calls_unknown` (whose steps `CallLedger` has); the reading of a
    task's state together with the decision on it; and `resume`'s reads of the
    unknown, the failed and the started calls (`CheckCalls`).
*   In `RunControl` the worktree of a task is known by how it compares with what its
    latest review was shown (`content`).  A worker writes as long as its call is
    under way; a review is shown the worktree when it begins, and a reviewer that
    writes (`ReviewerWrites`) makes it other than that.  `Compare` is the check of the
    snapshot after the answer; a review that is taken up again from a completed call
    has nothing to compare with, as it takes its snapshot anew (`Reused`).
*   Costs are whole units.  An estimate belongs to a key, as the key contains the
    model.
*   In `RunControl` a call, a test or a review has one of the outcomes the code
    tells apart, chosen from `Faults`.  Its write roles are one call each: the
    segments of a step-limited call are in `Continuation`, the sandbox and the
    fallback candidate of a remote one in `StagingSync`.
*   In `Continuation` a safe pause is one step (its transactions are steps of
    `RunControl`), a session id is well-formed when it comes from OpenCode, and the
    text that betrays a step limit is one of the outcomes of a call.
*   In `StagingSync` one access to a file is one step, and the order in which a set of
    files is worked through is open.  Contents are opaque; what makes a sandbox
    unusable (a symlink, a file outside the allowed list) is one Boolean.
*   In `SupervisorCheckpoints` a notice is a reason with its content.  Occurrences of
    conditions are numbered so that properties can speak of them; the code has no
    such numbers.
*   A callback's request id is a Boolean: known or not.  Ids that collide
    (process numbers are reused) are one of the causes of `RaiseAfterSend`.
*   No adapter for production implements `query` (each returns `None`), so
    `resolve-call` succeeds with the test double's adapter only; the model keeps
    the transition because the service and its tests rely on it.
*   `sqlite3` errors end a process like a crash: `execute` does not catch them.

## 3. The runs

| Run | Instance | Checks |
|---|---|---|
| `CallLedger` | 2 paid keys of estimate 2, one of them planned by an older run, usable budget 3, bills to 3, 2 processes, 1 command at a time, crashes | types, `AtMostOnceSent`, `LedgerConsistent`, `BudgetHonoured`, `BilledIsCommitted`, `FreezeSettles`, `SettledForGood`, the refinement `KeepsPromise` |
| `CallSettles` | 1 paid and 1 local key, 1 process that stays alive, an adapter that may raise after the send, fair | `StartedSettles` |
| `RunControl` | 1 task, every fault, every command; 3 commands, 1 resume, crashes, fair | types, `VerdictConsistent`, `VerdictFinal`, `RunSpec` (refinement of `RunRow`), `CompletedIsSettled`, `RunnersExit` |
| `ControlOrder` | 2 dependent tasks, unknown calls, rejections, blocking reviews, errors, pause, freeze, resolve, 2 resumes, crashes; no takeover | `StartsInOrder`, `CompletedMeansApproved`, `ImplementedOnce`, `RevisionsBounded` |
| `ControlTakeover` | 2 dependent tasks, failing tests, reviews that reject, block or write, pause, freeze, cancel and a takeover that edits approved work, 2 resumes, fair | `ApprovedIsReviewed`, `PausesAtBoundary`, `PauseReached` |
| `StagingSync` | 2 files, 2 contents, rows of every origin, 2 candidates, 2 attempts, 2 edits, 1 crash | types, `OwnerEditsSurvive`, `AllOrNothing`, `ConflictsAreReal`, `SyncedIsComplete`, `SyncedIsKept` |
| `SupervisorCheckpoints` | 1 notifier, 1 supervisor, 2 notices, a limit of 1, 3 occurrences, 1 crash | types, `RowsBounded`, `DecisionsAreInformed`, `OverflowWakes`, `ReplayedOnce`, `DecisionsStand` |
| `Continuation` | 2 drivers, 2 sessions, 2 continuations, every inherited chain of length 1 or 2, 1 crash, 1 command, fair | types, `SegmentsBounded`, `InvokedOnce`, `ChainKept`, `StrayedNotContinued`, `DriveTerminates` |

Four more runs look for a counterexample, and find it (section 6).

**Why the bounds are enough.** Two paid keys whose estimates together exceed the
budget are the least that makes two dispatches compete for it; a bill above its
estimate (3 against 2) is the case no gate can prevent.  Two processes are the
least that can race on one key; the theorems of section 5 hold for any number.
One command at a time is enough to settle a call under an invocation;
resolutions come from the same operator.  In `RunControl` one task reaches every
state of the task machine, and `MaxRetry = 1` makes both ends of each retry
happen; `MaxAttempt` (6 and 5) leaves room for the retries and for the attempts
that a resume and an invalidation open; a chain of two tasks is the least in which
an order, a dependence and an invalidation mean something.  Two resumes and three
commands allow pause, resolve and pause again around two restarts.

Two files are the least of which one can be written and the other not; of two
contents one is the worker's and one the owner's, and a file may be absent besides.
Two edits put the owner before and into a sync, or change a file and change it
back; one crash is enough to leave a half-written commit, and the second attempt
to overtake it.  A limit of one checkpoint is full after the first reason; three
occurrences overflow it twice, with a decision in between.  Two notifiers and
larger limits exceed what a run of minutes can do (two notifiers with two
occurrences were checked once by hand); the theorems cover any number of them.  Two
drivers are the least that look at the same last segment, and with two
continuations the chain can end at its limit or before it.

**Deadlock** is not checked: a run stops for good when it is finished, and for as
long as the user likes when it is paused.

**Symmetry** is used in two runs without liveness: `CallLedger` (processes are
interchangeable) and `StagingSync` (files are).

**Fairness.** `FairSpec` asks weak fairness of each live process separately: a
process that has begun to invoke goes on, because every adapter bounds its call
with a timeout (`communicate(timeout=...)`), and the runner waits for nothing but
calls and tests, which have a timeout too, and for git commands on the local
repository, which have none and are assumed to end.  Nothing is asked of the user
(commands), of the provider (it may never answer) or of somebody who might restart
a dead process.  `DriveTerminates` rests on the same: a driver waits for OpenCode
with a timeout and for nothing else, while the worker itself may go on for ever.

In `CallSettles` and `ControlTakeover` crashes are switched off, since a crash is
precisely a process that does not go on; `RunnersExit` and `DriveTerminates` hold
with them.  `PauseReached` is checked with the faults that do not begin a safe pause in
an `except` handler; a blocking review does begin one, but inside the `try`, where a
refused transition goes to the generic handler.  With a fault that begins one in a
handler the property fails (section 6).

**Mutants.** Every property of a passing run is paired in `PROJECT.json` with a
change to one mapped definition that breaks it: a dropped guard, a missing state
in a list, a check that looks at the wrong rows.  The changed definitions stand
in the modules, marked `Mutant`, just before the definition they replace.

## 4. The properties

*   `AtMostOnceSent` - no paid call is repeated, whatever is retried.
*   `LedgerConsistent` - the two tables agree.
*   `BudgetHonoured` - commitments stay within the usable budget but for bills
    beyond their estimate; two dispatches that passed the same check cannot both
    reserve.
*   `BilledIsCommitted` - money that may have been spent is in the books.
*   `FreezeSettles` - a freeze that reports success has settled what was in flight.
*   `SettledForGood` - late answers, freezes and resolutions change no settled call.
*   `StartedSettles` - a live process settles the call it started.
*   `VerdictConsistent`, `VerdictFinal` - the run's verdict.
*   `ApprovedIsReviewed` - no approval on an old, a failed or an interrupted review,
    nor on one of other content, under the conditions of section 5.
*   `ImplementedOnce`, `RevisionsBounded` - finished work is not done again after an
    interruption, and restarts do not extend the retry limit.
*   `StartsInOrder`, `CompletedMeansApproved`, `CompletedIsSettled` - what a task
    builds on and what a completed run means.
*   `PausesAtBoundary` - a safe pause is reported between calls only.
*   `KeepsPromise` - the ledger implements `CallPromise`: a key is opened once, sent at
    most once and closed once.  `CallsKeepPromise` - so do the calls of a run, across
    retries, restarts and resolutions (proved; no run of its own).
*   `RunnersExit`, `PauseReached` - every runner ends, a requested pause comes.
*   `OwnerEditsSurvive` - a sync replaces only what was there when the sandbox was
    built, through crashes, replays and rollbacks, as long as the baseline on record
    is that of the present sandbox.
*   `AllOrNothing` - a sync that is given up leaves the worktree as the owner had it,
    but for the files reported.
*   `ConflictsAreReal` - a replay does not take its own half-written files for edits.
*   `SyncedIsComplete`, `SyncedIsKept` - the record of a sync is true and final.
*   `RowsBounded` - the limit, one sentinel and one terminal checkpoint.
*   `DecisionsAreInformed` - a decision on the sentinel knows all it stands for.
*   `OverflowWakes` - beyond the limit nobody misses a wake.
*   `ReplayedOnce` - a notification that is replayed adds no second pending row, and
    while its row is pending below the limit nobody is woken again by it.  Beyond the
    limit a replay does wake again (`ReplayWakesNobody`, section 6).
*   `DecisionsStand` - a decision stands.
*   `SegmentsBounded`, `InvokedOnce`, `ChainKept` - the chain of a role, with any
    number of drivers.
*   `StrayedNotContinued` - a worker that left its files is not followed by another.
*   `DriveTerminates` - every drive ends.
*   `OverwritesOnlyCaptured`, `SessionKept`, `PauseIsHarmless`, `SoleRunner`,
    `EveryWakeReaches`, `ReplayWakesNobody` - promised or suggested by the documentation and not kept; see
    section 6.

## 5. What is proved

Assumptions are those on the constants only: `KeyAssumption`, `CostAssumption`,
`FaultAssumption` (`CallLedger`), `ControlAssumption` (`RunControl`),
`StagingAssumption` (`StagingSync`), `CheckpointAssumption` and `UndecidedAssumption`
(`SupervisorCheckpoints`), `SegmentAssumption` and `InheritedAssumption`
(`Continuation`).  They say that remote and planned keys are keys and that there are finitely many (the
code adds up the rows of a table), that costs are
natural numbers and local calls cost nothing, that tasks depend on earlier ones,
that the markers for an absent file, a missing column or an open decision are no
contents or decisions, that the two reserved reasons are not notices, that a chain an
older version left behind ends in a planned call and has run out of steps before it,
and that bounds are natural numbers.

| Theorem | Says |
|---|---|
| `RunConsistency`, `VerdictIsFinal` | the run's row, under any order of its transactions |
| `LedgerInvariant`, `TypeCorrect` | the inductive invariant of the ledger |
| `SentAtMostOnce`, `TablesAgree`, `LedgerKeepsVerdict` | `AtMostOnceSent`, `LedgerConsistent`, `VerdictFinal` for any keys, processes and commands |
| `LedgerKeepsPromise`, `HistoryIsKept` | the ledger implements `CallPromise`; `SettledForGood` |
| `BillsAreCovered` | `BilledIsCommitted`, as long as adapters raise nothing unforeseen after the send (`AdapterRaises = FALSE`) |
| `FreezeMarksAll` | `FreezeSettles` |
| `BudgetIsHonoured` | `BudgetHonoured` for any finite set of keys, any estimates, budget and bills, whether or not adapters raise |
| `ControlTypeCorrect`, `ControlKeepsRun`, `ControlKeepsVerdict`, `ControlConsistent` | run control implements `RunRow` and so inherits its two properties |
| `CompletedRunIsApproved`, `TasksStartInOrder` | `CompletedMeansApproved`, `StartsInOrder` for any tasks, retries, restarts, faults and commands but a takeover, if one process at a time executes the run |
| `CompletedRunIsSettled` | `CompletedIsSettled` with any command, if one process at a time executes the run |
| `ControlKeepsPromise` | `CallsKeepPromise` with any tasks, faults, commands, crashes and resumes, if one process at a time executes the run |
| `SafePauseAtBoundary` | `PausesAtBoundary`, if one process at a time executes the run and is not killed |
| `ApprovalRestsOnReview` | `ApprovedIsReviewed`, if one process at a time executes the run: with every fault and command, takeovers and writing reviewers included, where no process is killed and no call resolved by hand; and with crashes and resolutions where nobody takes over and no reviewer writes the worktree |
| `WorkIsNotRepeated`, `RetryLimitHolds` | `ImplementedOnce`, `RevisionsBounded` with any command, takeovers included, if one process at a time executes the run: with every fault where no process is killed, and with crashes where no tests fail and no worker leaves its files (`Steady`: then only a review closes an attempt) |
| `SyncInvariant`, `SyncTypeCorrect` | the inductive invariant of a remote role's files |
| `EditsSurvive`, `SyncAllOrNothing`, `SyncConflictsReal`, `ManifestComplete`, `SyncedStays` | `OwnerEditsSurvive`, `AllOrNothing`, `ConflictsAreReal`, `SyncedIsComplete`, `SyncedIsKept` for any files, contents, edits and crashes |
| `CheckpointInvariant`, `CheckpointTypeCorrect` | the inductive invariant of the checkpoints |
| `TableIsBounded`, `SentinelDecisionsInformed`, `OverflowReaches`, `ReplayIsIdempotent`, `DecisionsAreFinal` | `RowsBounded`, `DecisionsAreInformed`, `OverflowWakes`, `ReplayedOnce`, `DecisionsStand` for any notifiers, supervisors, notices and limit |
| `ContinuationInvariant`, `SegmentsTypeCorrect` | the inductive invariant of a role's segments |
| `RoleIsBounded`, `WorkersInvokedOnce`, `ChainIsKept`, `StrayedIsNotContinued` | `SegmentsBounded`, `InvokedOnce`, `ChainKept`, `StrayedNotContinued` for any drivers and any number of continuations |

The argument for the run's row is that every transaction preserves
`RunTypeOK /\ VerdictConsistent`; only `force_pause` and `set_run_state` could break
the second conjunct, and their guards on the run state exclude it.

`AtMostOnceSent` is not inductive: it does not know that a process about to send
is the only one.  The invariant `LedgerInv` adds

*   `KnownKeys`, `FreshRow` - a process works on a key; a row that was never started
    bears no cost and was not sent;
*   `OneCaller` - at most one process holds a started call, because `begin_call`
    starts a key once;
*   `BegunIsUnsent` - what a process has begun and not sent was never sent;
*   `UnidentifiedIsOpen`, `AskedIsIdentified` - who may still report or resolve;
*   `OpenIsUncharged` - an open row has no cost entry, so that a completion or a
    failure may write one;
*   `NeverCancelled` - no path moves a call to `cancelled`.

`BilledIsCommitted` needs `MoneyInv` beside it: a bill exists for a sent request
that is done only (`Bills`), what was charged is that bill (`ChargedAsReported`), and
what a resolution holds in memory is that bill too, however stale its reading
(`AskedIsReported`).  `FreezeSettles` needs `HeldInv`: while a command is listing or
marking, every call it found in flight that is still started is on its list -
which holds because the run was stopped first and `begin_call` starts nothing on a
stopped run.

`BudgetHonoured` compares two sums over all keys.  Per key, no step makes the
commitment larger by more than the excess of a bill over its estimate that it brings
in (`RowsLighter`), but for `begin_call`, which adds one estimate and does so in the
transaction that has just found that it still fits (`FitsBudget`); that is one step,
so no two processes can pass the check on the same total.  That sums compare as their
terms do is an induction: the library's sum is a function defined by recursion over
the parts of the set of keys, `SumExists` shows that the function exists and
`SumsCompare` that no part of least size goes wrong (`Least`, in `RunRow_proofs`, is
the least-number principle).

The step and stutter lemmas of `CallPromise_proofs` map each action of the ledger to
`Open`, `Send`, `Close` or a stutter; the initial states map to the initial state.

For the task loop, one process at a time executes the run (`Sole`: `Runner` has one
element, which may crash and be resumed).  `OrderInv` says that nobody has taken over
(`NoTakeover`), that the tasks before the one in hand are approved (`Prefix`), that a
process about to complete the run has seen them all approved (`Done`), and that the
place of the process fits the control state (`Pausing`): after the body of a task
either the run is `PAUSED` or the task is over, so `execute` never skips one.
`SettledInv` says that no call is in flight or unknown from the last look at the
unfinished calls to the verdict, and `Held` that a call in flight is the one its
process waits for.

`RunControl` has the beginning and the end of a call as one step each, where
`CallLedger` has many.  Both are shown to implement `CallPromise`, so that what run
control takes for granted of its calls is what the ledger gives.  Of `RunControl` this
needs that a process that waits for a call has begun it (`Waiting`, a part of
`SettledInv`): then an answer that is accepted closes an open key or leaves it open
(`OneCall`, `OpenCallsMove`), and one that comes too late changes nothing.  How a call
ended stands for the charge.  No run checks this at each change, as the promise over all
keys is slow to evaluate; TLC did once, with one task, 3 attempts, 3 commands, 2 resumes,
crashes and unknown, failed, incomplete and rejected calls.

What an attempt has been through is kept by `BooksInv`, for any commands.  `Shape` says
of a task that attempts to come have no calls, that its latest attempt implements or
revises but not both, that a second review has a revision before it, and that an
opinion comes from a completed review of that attempt; `Trust`, which holds as long as
nobody takes over (`Untouched`), that a review follows the implementation in the same
attempt, that from a review on the worktree is what the review was shown if reviewers do not
write it (`Honest`), and that what is approved was approved of.  `Place` says how the place of a process agrees with the
state and the latest attempt of its task.  `ApprovedIsReviewed` follows from `Shape` and
`Trust`.  With takeovers `Trust` is gone: the user edits the worktree under a review that
has been given.  What is left is that nobody is in a position to act on such a review:
`UpheldInv` says that a review that approves is acted on at once, as its task is approved
or failed or a process is at the step between (`Acted`), and that what this process acts
on is still in the worktree (`Fresh`).  A reviewer that writes is found out
by the process that waits for it.  It takes a process that dies with the review in hand,
or a review resolved by hand, to leave one lying about for a takeover, or for what the
reviewer wrote itself, to make stale.

`TallyInv` counts.  `Counts` says that one attempt at most has the implementation and
that the revisions are within the limit; `Orderly` that a running task goes on with its
attempt as long as it is not reviewed, and that a task to be revised has a revision left
or is at its last; `Turn` that a process about to begin finds it so.  An attempt that is
closed without a review is out of order until its task is moved (`Refused`), which the
next step of the same process does: `Orderly` holds but for that.  The step relations
`Opens`, `Begins`, `Answers`, ... sort the steps of a process away from a takeover by what
they do to tasks, attempts and calls (`Strides`); the invariants are proved over those,
and over the three steps of a takeover one by one.

The hypotheses are needed: with a takeover `CompletedMeansApproved` fails (run
`TakeoverCompletes`), and, if a process is killed between the review and the approval,
`ApprovedIsReviewed` too (run `StaleReview`), as it does without any crash when a
review that a freeze has cut off is resolved after the takeover; a reviewer that writes
the worktree does the same to it as a takeover (section 6); with two processes calls are begun behind each other's back (`SoleRunner`, section 6); a killed
process leaves its call started; and an attempt that is closed otherwise than by its
review is repeated after a crash (`ImplementedOnce`, `RevisionsBounded`, section 6).

For the files, none of the properties is inductive: each speaks of the end of a
commit, and what makes it true is where the commit stands.  `SyncInv` says

*   `Phases` - which call, attempt and row go with each place of the runner;
*   `Books` - the files still to do, those begun and those lost are disjoint, and all
    of them outputs;
*   `Outputs` - what is done holds the output, unless the owner wrote meanwhile; with
    it `SyncedIsComplete` is kept;
*   `NothingOwed`, `Undoable` - a file that is not as the owner had it is in hand, its
    original saved, or it is reported; `AllOrNothing` is its last case;
*   `Baselines`, `Overwritable` - the baseline compared with is the one captured for
    this sandbox or the one on record, and an original is either the owner's version
    or an output written over a captured file; this gives `OwnerEditsSurvive`;
*   `Undrifted`, `Reasons` - a file the owner left alone holds what was captured or the
    output, so that a conflict has another cause.

For the checkpoints, `CheckpointInv` adds to the properties that the sentinel and the
terminal row are unique and how many rows there are without them (`Bounded`), that
nobody is ahead of the event log (`Watermarks`), that a digest whose cursor has
reached the pending sentinel shows it as it is (`Fresh`; it holds because refreshing
the sentinel takes an event of its own, later than any cursor handed out), and that
an occurrence belongs to one process and to rows of its own notice or to the sentinel,
of which one at most is open (`Recordings`).  For the second half of `ReplayedOnce` it
adds that what a supervisor was woken for is in a row whose cursor it has passed, or in
the sentinel (`Told`).

For the segments, `ContinuationInv` adds that every segment but the last has run out
of steps (`Chain`), that what a driver has decided to begin continues the last failed
segment and still would if another driver began it first, and that the call it waits
for is its own (`Drivers`), that a segment once given to a worker is no longer planned
(`Invocations`), and that after a stray there is no planned segment and no driver
about to create one (`Strayed`) - which needs that a driver reads the scope after the
segment it follows has failed, when its worker is gone.

**Model-checked only.** The liveness properties (`StartedSettles`, `RunnersExit`,
`PauseReached`, `DriveTerminates`): fairness and `ENABLED` are out of the prover's
reach.  Every other property of a passing run has a theorem.

## 6. Where the code and its documents disagree

Four of them are runs that TLC ends with a counterexample; `PROJECT.json` has the
quotes.

| Run | What happens |
|---|---|
| `TakeoverCompletes` | pause, safe pause, takeover before `execute` looks at the control state: it is not `PAUSED`, the loop skips the task and the run completes |
| `StaleReview` | a completed review is replayed by its request key after a takeover has edited the work it is about; only approved tasks are invalidated.  A crash between `invalidate_approved_task` and `_new_attempt` (`runner.py:1877-1885`) leads to the same; so does, without a crash, a review that a freeze made `UNKNOWN` and that is resolved after the takeover |
| `StaleBaseline` | the fallback candidate gets a new sandbox, `staging_syncs` keeps the baseline of the first; recovery after a crash overwrites an edit of the owner |
| `LostSession` | a worker that runs out of steps before it reports a session is continued in a "session" named after its process group |

More show up when a property or a constant of a run is changed:

| Change | What happens |
|---|---|
| `PauseIsHarmless` with `Faults = {}` and the command pause (`MCRunControl`) | a pause between the gate and the start of a review: `begin_call` refuses, only the write roles expect that, the run is finalized as failed |
| `SoleRunner` with `Runner = {p1, p2}` | a resume between two calls of a live runner starts a second one on the same tasks |
| `PauseReached` with `unconfirmed` (or `error`) among the faults of `ControlTakeover` | the safe pause reads `RUNNING`, the user's pause comes, the transition raises in a handler; the process dies and the run stays in `PAUSE_REQUESTED`, which `resume` refuses, as it does `RESUMING` and `QUIESCING` after a crash |
| `ImplementedOnce` with `scope` among the faults of `ControlOrder` | a completed implementation outside its scope is carried out again after a resume |
| `ImplementedOnce` with `Faults = {"testfail", "denied"}` and 3 resumes | the tests fail with no retry left, the attempt is closed, the process dies before the task is moved; the next one passes the tests, the review is denied and the task waits for input; the resume after that takes it for a resolved implementation and, its attempt being closed, opens a new one |
| `RevisionsBounded` with `testfail` (or `scope`) among the faults of `ControlOrder` | a revision at the retry limit fails its tests, its attempt is closed, the process dies before the task is moved to `FAILED` (`runner.py:426-428`); the resume opens a further attempt and revises once more |
| `BilledIsCommitted` with `AdapterRaises = TRUE` (`CallLedger`) | the adapter raises after the request is out; the generic handler marks the call `FAILED` without cost, the reservation is released and the bill is nowhere |
| `ApprovedIsReviewed` with `Faults = {"violation"}`, no command and crashes (`MCRunControl`, one task) | a reviewer writes the worktree, its answer is recorded, the process dies before it compares the worktree with its snapshot (`runner.py:1573`); the resumed review takes its snapshot after the write (`runner.py:1511`), gets the stored answer by its key and approves what no review was shown |
| the same with `Faults = {"violation", "unknown"}` and the command resolve, or with pause, freeze and resolve, without crashes | the review that wrote ends `UNKNOWN` and is resolved by hand; it goes on as above |
| `ReplayWakesNobody` as a property of `SupervisorCheckpoints` | at the limit a wake-up that is replayed after a crash refreshes the sentinel, moves its cursor and, if it was acknowledged, opens it again (`database.py:687-717`): a supervisor that was woken for it is woken again.  `database.py:581-584` says of the flag: "This lets a pause notification be replayed after a crash without producing a second wake event." |
| `EveryWakeReaches` in place of `OverflowWakes` | an ordinary row bears the sequence of the latest event before its own (`database.py:528`), so a supervisor that polled between that event and the record has a cursor that reaches it, and its next poll does not require the wake; `contracts.py:182` calls these "Reasons that must always wake the external Supervisor." |

Further behaviours are in the models, or were met while writing them, without a
property of their own:

*   When the user edits an approved task whose dependents are not approved, the
    invalidation raises when it comes to one of them; the approved ones before it, in
    the order of a set, are invalidated, so that a later resume may or may not get
    further (`RunControl!Invalidate`).
*   A task left between DRAFT and RUNNING by a crash fails the run that is resumed
    (`RunControl!Step`).
*   A blocking or malformed review is replayed on each resume, as its call is
    completed; the task can then never be approved (`RunControl`).
*   A repeated notice is folded into a pending row, so that a new occurrence of the
    same condition does not wake; a crash between the control state `PAUSED` and the
    wake-up loses it; a replay at the limit counts as one more dropped
    (`SupervisorCheckpoints`).
*   A failed write of a new file is reported as not restored even when it was
    (`StagingSync!WriteFails`), and a manifest that cannot be computed during recovery
    (`runner.py:1031`) ends in the generic handler.
*   A step limit with exit code 0 skips the check of the session it was to reuse; a
    `session_mismatch` is not among what `resume` refuses, so each resume pauses again;
    a local call that is `UNKNOWN` can never be resolved, as no adapter answers
    `query` (`Continuation`).

## 7. Not modelled, and why

*   Text: prompts, review packets, the output of models and its parsing, step-limit
    phrases, formatting.  The outcomes they lead to are modelled.
*   Git and test commands, except by outcome.
*   Plans, authorizations and the registry of runs: immutable rows, each inserted in
    one transaction under a UNIQUE constraint; a model would be the constraint.
*   Privacy, network and independence decisions, resource budgets: conjunctions and
    look-ups over immutable values, without state or order.
*   Contracts and serialization: validation and canonical JSON.
*   Migrations, configuration, read-only commands, confirmation prompts.
*   In `RunControl`, the fallback of a local candidate (that of a remote one is in
    `StagingSync`); in `SupervisorCheckpoints`, decisions with a wrong plan hash or
    unknown fields, which are refused without effect.

## 8. Plan

Done: `States`, `RunRow`, `CallLedger` with `CallPromise`, `RunControl`, `StagingSync`,
`SupervisorCheckpoints`, `Continuation`; all their safety properties proved, those of
the task loop for one process at a time.  Left, in this order:

1.  The composition of `RunControl` with the steps of `CallLedger`, in place of the
    one-step begin and answer (both keep `CallPromise`), and of `RunControl` with `SupervisorCheckpoints`.
2.  The policy gates as operators against a reference definition.
