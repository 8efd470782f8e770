------------------------------- MODULE RunRow -------------------------------
(***************************************************************************)
(* The row of table runs and its terminal supervisor checkpoint, as the    *)
(* transactions of class Database change them.  Every Database method is   *)
(* one BEGIN IMMEDIATE transaction, so every operator here is one atomic   *)
(* step, whichever process calls it.  XxxAllowed is the condition under    *)
(* which the method writes; when it is false the method raises and the     *)
(* transaction leaves no trace.                                            *)
(*                                                                         *)
(* Spec puts these transactions in an arbitrary order: it is what the      *)
(* store promises about a run however runners and commands race.  The      *)
(* modules of the components that call it show that they implement it.     *)
(***************************************************************************)
EXTENDS States

VARIABLES
  runState,    \* runs.run_state
  control,     \* runs.control_state
  finished,    \* runs.finished_at IS NOT NULL
  terminalCk   \* the state named by the terminal checkpoint, or NoCheckpoint

runVars == <<runState, control, finished, terminalCk>>

NoCheckpoint == "none"

\* create_run has just inserted the row.
RunInit ==
  /\ runState = "running"
  /\ control = "RUNNING"
  /\ finished = FALSE
  /\ terminalCk = NoCheckpoint

-----------------------------------------------------------------------------
(* set_run_state: a terminal state is irreversible.                        *)
\* Mutant: it is not.
SetRunStateUnguarded(s) == s \in RunStates

SetRunStateAllowed(s) == runState \in TerminalRunStates => s = runState

SetRunState(s) ==
  /\ SetRunStateAllowed(s)
  /\ runState' = s
  /\ finished' = (s \in TerminalRunStates)
  /\ UNCHANGED <<control, terminalCk>>

(* transition_control: refused once the run is finished.                   *)
ControlAllowed(target) == ~finished /\ target \in ControlTransitions[control]

TransitionControl(target) ==
  /\ ControlAllowed(target)
  /\ control' = target
  /\ UNCHANGED <<runState, finished, terminalCk>>

(* force_pause: the immediate freeze, outside the transition table.        *)
\* Mutant: without the condition on run_state.
ForcePauseUnguarded == TRUE

ForcePauseAllowed == runState = "running"

ForcePause ==
  /\ ForcePauseAllowed
  /\ control' = "PAUSED"
  /\ runState' = "paused"
  /\ UNCHANGED <<finished, terminalCk>>

(* finalize_run: the terminal checkpoint and the terminal state together;  *)
(* repeating the same verdict changes nothing, another one raises.         *)
FinalizeAllowed(s) ==
  IF terminalCk = NoCheckpoint
    THEN ~finished
    ELSE terminalCk = s /\ (finished => runState = s)

Finalize(s) ==
  /\ FinalizeAllowed(s)
  /\ runState' = s
  /\ finished' = TRUE
  /\ terminalCk' = s
  /\ UNCHANGED control

-----------------------------------------------------------------------------
\* Every transaction the program issues on a run.  No caller passes a
\* terminal state to set_run_state.
RunNext ==
  \/ \E s \in {"running", "paused"} : SetRunState(s)
  \/ \E target \in ControlStates : TransitionControl(target)
  \/ ForcePause
  \/ \E s \in TerminalRunStates : Finalize(s)

RunSpec == RunInit /\ [][RunNext]_runVars

-----------------------------------------------------------------------------
RunTypeOK ==
  /\ runState \in RunStates
  /\ control \in ControlStates
  /\ finished \in BOOLEAN
  /\ terminalCk \in TerminalRunStates \cup {NoCheckpoint}

(* finalize_run's docstring: no crash or race pairs a terminal checkpoint  *)
(* with a live run, or a finished run with a missing or contradicting      *)
(* checkpoint.  finished_at, run_state and the checkpoint agree.           *)
VerdictConsistent ==
  /\ finished <=> runState \in TerminalRunStates
  /\ terminalCk = IF finished THEN runState ELSE NoCheckpoint

(* A verdict is final: once a run is finished no transaction of any        *)
(* process - a late safe pause, a resume, a freeze, a second runner's      *)
(* finalize, a cancel - changes its row again.                             *)
VerdictFinal == [][finished => UNCHANGED runVars]_runVars
=============================================================================
