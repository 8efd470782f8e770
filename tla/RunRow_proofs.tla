--------------------------- MODULE RunRow_proofs ---------------------------
(***************************************************************************)
(* The store's promises about a run, proved for every order of its         *)
(* transactions.  The two facts that make VerdictConsistent inductive are  *)
(* in the guards of SetRunState and ForcePause: neither writes over a      *)
(* terminal run_state.                                                     *)
(***************************************************************************)
EXTENDS RunRow, Naturals, WellFoundedInduction, TLAPS

RunInv == RunTypeOK /\ VerdictConsistent

(* A run that has just been created satisfies the invariant.               *)
LEMMA RunInvInit == RunInit => RunInv
  BY DEF RunInit, RunInv, RunTypeOK, VerdictConsistent, RunStates,
         ControlStates, TerminalRunStates, NoCheckpoint

(* Every transaction on the run's row preserves the invariant.             *)
LEMMA RunInvStep == RunInv /\ [RunNext]_runVars => RunInv'
<1> SUFFICES ASSUME RunInv, [RunNext]_runVars PROVE RunInv'
  OBVIOUS
<1> USE DEF RunInv, RunTypeOK, VerdictConsistent, RunStates, TerminalRunStates,
            NoCheckpoint
<1>1. ASSUME NEW s \in {"running", "paused"}, SetRunState(s) PROVE RunInv'
  BY <1>1 DEF SetRunState, SetRunStateAllowed
<1>2. ASSUME NEW target \in ControlStates, TransitionControl(target) PROVE RunInv'
  BY <1>2 DEF TransitionControl
<1>3. CASE ForcePause
  BY <1>3 DEF ForcePause, ForcePauseAllowed, ControlStates
<1>4. ASSUME NEW s \in TerminalRunStates, Finalize(s) PROVE RunInv'
  BY <1>4 DEF Finalize
<1>5. CASE UNCHANGED runVars
  BY <1>5 DEF runVars
<1>6. QED
  BY <1>1, <1>2, <1>3, <1>4, <1>5 DEF RunNext

(* finalize_run's docstring holds for the store by itself: whatever the    *)
(* processes do, finished_at, run_state and the terminal checkpoint agree. *)
THEOREM RunConsistency == RunSpec => [](RunTypeOK /\ VerdictConsistent)
<1>1. RunInit => RunInv
  BY RunInvInit
<1>2. RunInv /\ [RunNext]_runVars => RunInv'
  BY RunInvStep
<1>3. RunSpec => []RunInv
  BY <1>1, <1>2, PTL DEF RunSpec
<1>4. QED
  BY <1>3 DEF RunInv

-----------------------------------------------------------------------------
(* No transaction changes the row of a finished run.                       *)
LEMMA FinishedStep ==
  RunInv /\ [RunNext]_runVars => (finished => UNCHANGED runVars)
<1> SUFFICES ASSUME RunInv, [RunNext]_runVars, finished PROVE UNCHANGED runVars
  OBVIOUS
<1> USE DEF RunInv, RunTypeOK, VerdictConsistent, TerminalRunStates, NoCheckpoint,
            runVars
<1>1. ASSUME NEW s \in {"running", "paused"}, SetRunState(s) PROVE FALSE
  BY <1>1 DEF SetRunState, SetRunStateAllowed
<1>2. ASSUME NEW target \in ControlStates, TransitionControl(target) PROVE FALSE
  BY <1>2 DEF TransitionControl, ControlAllowed
<1>3. CASE ForcePause
  BY <1>3 DEF ForcePause, ForcePauseAllowed
<1>4. ASSUME NEW s \in TerminalRunStates, Finalize(s) PROVE UNCHANGED runVars
  BY <1>4 DEF Finalize, FinalizeAllowed
<1>5. QED
  BY <1>1, <1>2, <1>3, <1>4 DEF RunNext

(* A verdict is final for every interleaving of runners and commands: the  *)
(* first finalize wins, and late pauses, resumes, freezes and cancels      *)
(* leave no trace.                                                         *)
THEOREM VerdictIsFinal == RunSpec => VerdictFinal
<1>1. RunSpec => []RunInv
  BY RunInvInit, RunInvStep, PTL DEF RunSpec
<1>2. RunInv /\ [RunNext]_runVars => [finished => UNCHANGED runVars]_runVars
  BY FinishedStep
<1>3. QED
  BY <1>1, <1>2, PTL DEF RunSpec, VerdictFinal

-----------------------------------------------------------------------------
(* For the inductions in the modules that extend this one: every set of    *)
(* natural numbers but the empty one has a least element.                  *)
LEMMA Least ==
  ASSUME NEW S \in SUBSET Nat, S # {}
  PROVE  \E n \in S : \A m \in S : n <= m
<1> DEFINE R == {ss \in Nat \X Nat : ss[1] < ss[2]}
<1>1. IsWellFoundedOn(R, Nat)
  BY NatLessThanWellFounded DEF OpToRel
<1>2. PICK n \in S : \A m \in S : <<m, n>> \notin R
  <2> HIDE DEF R
  <2> QED
    BY <1>1, WFMin
<1>3. ASSUME NEW m \in S PROVE n <= m
  <2>1. <<m, n>> \in Nat \X Nat /\ <<m, n>>[1] = m /\ <<m, n>>[2] = n
    OBVIOUS
  <2>2. ~(<<m, n>>[1] < <<m, n>>[2])
    BY <1>2, <2>1
  <2> QED
    BY <2>1, <2>2
<1> QED
  BY <1>3
=============================================================================
