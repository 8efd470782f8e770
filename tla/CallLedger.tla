----------------------------- MODULE CallLedger -----------------------------
(***************************************************************************)
(* Model calls: the tables model_calls and cost_entries, the processes     *)
(* that run InvocationService.invoke against them, the CLI commands that   *)
(* settle calls from outside (pause --immediate, cancel, resolve-call),    *)
(* and the model provider at the other end of the wire.                    *)
(*                                                                         *)
(* One Database method is one transaction and one atomic step.  What a     *)
(* process holds between two transactions (a policy decision, a result     *)
(* that has not been written yet, the list of calls to mark) lives in its  *)
(* own record, is lost in a crash and may be stale when it is used.        *)
(*                                                                         *)
(* A row of model_calls is identified by its request_key, which is UNIQUE; *)
(* the key contains the model, so it fixes whether the call is remote and  *)
(* what it is estimated to cost.  Costs are whole units of money.          *)
(*                                                                         *)
(* The row of the run moves under the ledger's feet in every way that      *)
(* RunRow allows: the ledger relies on nothing else about the runner.      *)
(***************************************************************************)
EXTENDS RunRow, Naturals, FiniteSetsExt

CONSTANTS
  Key,          \* request keys
  Remote,       \* the keys of calls to a paid, remote model
  Estimate,     \* task.max_remote_cost of each key, 0 for a local one
  Planned,      \* keys whose row an older run left in state planned
  Proc,         \* processes that may run InvocationService.invoke
  Operator,     \* processes that may run a CLI command
  Usable,       \* max_remote_cost - emergency_reserve of the authorization
  MaxBill,      \* the most a provider charges for one call
  Unreported,   \* remote_cost IS NULL; no row in cost_entries
  NoKey,        \* a process that works on no call
  Crashes,      \* processes may die between two steps
  AdapterRaises \* an adapter may raise something unforeseen after the send

ASSUME KeyAssumption ==
  /\ Remote \subseteq Key
  /\ Planned \subseteq Key
  /\ NoKey \notin Key
  /\ IsFiniteSet(Key)
ASSUME CostAssumption ==
  /\ Usable \in Nat /\ MaxBill \in Nat
  /\ Estimate \in [Key -> Nat]
  /\ \A k \in Key \ Remote : Estimate[k] = 0
  /\ Unreported \notin Nat
ASSUME FaultAssumption == Crashes \in BOOLEAN /\ AdapterRaises \in BOOLEAN

VARIABLES
  call,      \* model_calls, by request key
  entry,     \* the amount in cost_entries (UNIQUE call_id), or Unreported
  proc,      \* the invocations in progress
  op,        \* the CLI commands in progress
  wire       \* the provider: what it was sent and what it charges

ledgerVars == <<call, entry, proc, op, wire>>
vars == <<runState, control, finished, terminalCk, call, entry, proc, op, wire>>

Cost == Nat \cup {Unreported}

\* A key without a row is "absent".
Row == [state : InvocationStates \cup {"absent"}, cost : Cost,
        unavailable : BOOLEAN, providerId : BOOLEAN]

\* todo: the calls still to be marked; held: the calls that were STARTED when
\* the command stopped the run (a history value for FreezeSettles).
Invocation == [pc : {"idle", "checked", "begun", "waiting"},
               key : Key \cup {NoKey}, reuse : BOOLEAN]
Command == [pc : {"idle", "listing", "marking", "done", "aborted", "resolving"},
            key : Key \cup {NoKey}, cost : Cost,
            todo : SUBSET Key, held : SUBSET Key]

NoInvocation == [pc |-> "idle", key |-> NoKey, reuse |-> FALSE]
NoCommand == [pc |-> "idle", key |-> NoKey, cost |-> Unreported,
              todo |-> {}, held |-> {}]

Init ==
  /\ RunInit
  /\ call = [k \in Key |->
               [state |-> IF k \in Planned THEN "planned" ELSE "absent",
                cost |-> Unreported, unavailable |-> FALSE, providerId |-> FALSE]]
  /\ entry = [k \in Key |-> Unreported]
  /\ proc = [p \in Proc |-> NoInvocation]
  /\ op = [o \in Operator |-> NoCommand]
  /\ wire = [k \in Key |-> [sent |-> 0, done |-> FALSE, bill |-> 0]]

-----------------------------------------------------------------------------
(* Budget: confirmed cost entries plus what is reserved.                   *)

Started == {k \in Key : call[k].state = "started"}

\* Mutant: an UNKNOWN call reserves nothing.
ReservesStarted(k) ==
  k \in Remote /\ (call[k].state = "started" \/ call[k].unavailable)

\* Remote calls whose cost may still come, or will never be known.
Reserves(k) ==
  /\ k \in Remote
  /\ call[k].state \in {"started", "unknown"} \/ call[k].unavailable

ConfirmedCost(k) == IF entry[k] = Unreported THEN 0 ELSE entry[k]
ReservedCost(k) == IF Reserves(k) THEN Estimate[k] ELSE 0
Committed == MapThenSumSet(LAMBDA k : ConfirmedCost(k) + ReservedCost(k), Key)

\* Mutant: what is reserved by other calls is not counted.
FitsConfirmed(k) ==
  k \in Remote => MapThenSumSet(ConfirmedCost, Key) + Estimate[k] <= Usable

FitsBudget(k) == k \in Remote => Committed + Estimate[k] <= Usable

-----------------------------------------------------------------------------
(* The transactions on a call.                                             *)

\* Mutant: the transition table is not consulted.
CanMoveAnywhere(k, target) ==
  call[k].state # "absent" /\ target \in InvocationStates

CanMove(k, target) ==
  /\ call[k].state # "absent"
  /\ target \in InvocationTransitions[call[k].state]

\* transition_call: the state alone; cost and its availability stay as they are.
Transition(k, target) ==
  /\ CanMove(k, target)
  /\ call' = [call EXCEPT ![k].state = target]
  /\ UNCHANGED entry

\* Mutant: a cost is booked whatever the outcome.
ChargesAlways(target, c) == target \in InvocationStates /\ c # Unreported

\* A cost of a known outcome becomes the call's only cost entry.
Charges(target, c) == target \in {"completed", "failed"} /\ c # Unreported

CanWrite(k, target, c) ==
  CanMove(k, target) /\ (Charges(target, c) => entry[k] = Unreported)

\* complete_call, fail_call and mark_call_unknown.
WriteResult(k, target, c) ==
  /\ CanWrite(k, target, c)
  /\ call' = [call EXCEPT ![k] = [@ EXCEPT !.state = target, !.cost = c,
                                           !.unavailable = (c = Unreported)]]
  /\ entry' = IF Charges(target, c) THEN [entry EXCEPT ![k] = c] ELSE entry

\* Mutant: a negative cost is not refused.
ReportedUnchecked(k) == IF k \notin Remote THEN {0} ELSE {Unreported, 0 - 1}

\* What the adapter can report of a call's cost: nothing or, from an answer,
\* the bill.  A local call always costs zero.
Reported(k) ==
  IF k \notin Remote THEN {0}
  ELSE {Unreported} \cup (IF wire[k].done THEN {wire[k].bill} ELSE {})

-----------------------------------------------------------------------------
(* InvocationService.invoke.                                               *)

\* The policy decision, budget included, reads the ledger outside any
\* transaction; the runner has seen whether the row is a PLANNED one.
Check(p, k) ==
  /\ proc[p].pc = "idle"
  /\ FitsBudget(k)
  /\ proc' = [proc EXCEPT ![p] = [pc |-> "checked", key |-> k,
                                  reuse |-> call[k].state = "planned"]]
  /\ UNCHANGED <<runVars, call, entry, op, wire>>

RunOpen ==
  control = "RUNNING" /\ ~finished /\ runState \notin TerminalRunStates

\* Mutant: a FAILED call is started again.
StartableAgain(k, reuse) ==
  call[k].state \in {"absent", "failed"} \/ (call[k].state = "planned" /\ reuse)

Startable(k, reuse) ==
  call[k].state = "absent" \/ (call[k].state = "planned" /\ reuse)

\* begin_call starts the call.
BeginCall(p) ==
  LET k == proc[p].key IN
  /\ proc[p].pc = "checked"
  /\ RunOpen
  /\ Startable(k, proc[p].reuse)
  /\ FitsBudget(k)
  /\ call' = [call EXCEPT ![k].state = "started"]
  /\ proc' = [proc EXCEPT ![p].pc = "begun"]
  /\ UNCHANGED <<runVars, entry, op, wire>>

\* begin_call starts nothing: PAUSE_BLOCKED, REUSED_COMPLETED, an UNKNOWN or
\* duplicate call, BUDGET_BLOCKED.  The ledger is as it was.
BeginRefused(p) ==
  LET k == proc[p].key IN
  /\ proc[p].pc = "checked"
  /\ ~(RunOpen /\ Startable(k, proc[p].reuse) /\ FitsBudget(k))
  /\ proc' = [proc EXCEPT ![p] = NoInvocation]
  /\ UNCHANGED <<runVars, call, entry, op, wire>>

\* adapter.invoke raises before anything is sent (model not available, no
\* executable): the call is FAILED, unless somebody settled it meanwhile.
AdapterRefuses(p) ==
  LET k == proc[p].key IN
  /\ proc[p].pc = "begun"
  /\ Transition(k, "failed") \/ (~CanMove(k, "failed") /\ UNCHANGED <<call, entry>>)
  /\ proc' = [proc EXCEPT ![p] = NoInvocation]
  /\ UNCHANGED <<runVars, op, wire>>

\* adapter.invoke starts the model process: the request is on the wire.
Send(p) ==
  /\ proc[p].pc = "begun"
  /\ wire' = [wire EXCEPT ![proc[p].key].sent = @ + 1]
  /\ proc' = [proc EXCEPT ![p].pc = "waiting"]
  /\ UNCHANGED <<runVars, call, entry, op>>

\* The callback with the provider's request id, first thing after the send.
ReportId(p) ==
  LET k == proc[p].key IN
  /\ proc[p].pc = "waiting"
  /\ ~call[k].providerId
  /\ call' = [call EXCEPT ![k].providerId = TRUE]
  /\ UNCHANGED <<runVars, entry, proc, op, wire>>

\* The adapter raises something unforeseen once the request is out: the callback
\* finds the id in use (ids are process numbers, unique per provider), or the
\* finished output does not decode.  The generic handler marks the call FAILED
\* by its state alone.
RaiseAfterSend(p) ==
  LET k == proc[p].key IN
  /\ AdapterRaises
  /\ proc[p].pc = "waiting"
  /\ ~call[k].providerId \/ wire[k].done
  /\ Transition(k, "failed") \/ (~CanMove(k, "failed") /\ UNCHANGED <<call, entry>>)
  /\ proc' = [proc EXCEPT ![p] = NoInvocation]
  /\ UNCHANGED <<runVars, op, wire>>

\* Mutant: adapters wait without a timeout.
OutcomesUntimed(k) == IF wire[k].done THEN {"completed", "failed"} ELSE {}

\* The outcomes adapter.invoke can leave a sent call with: a result, a known
\* failure (incomplete, protocol error), or - also before the provider is
\* done - an unknown outcome (timeout, signal, lost connection).
Outcomes(k) == IF wire[k].done THEN {"completed", "failed", "unknown"} ELSE {"unknown"}

\* The adapter is back and invoke writes the outcome down.
RecordOutcome(p) ==
  LET k == proc[p].key IN
  /\ proc[p].pc = "waiting"
  /\ call[k].providerId
  /\ \E target \in Outcomes(k), c \in Reported(k) : WriteResult(k, target, c)
  /\ proc' = [proc EXCEPT ![p] = NoInvocation]
  /\ UNCHANGED <<runVars, op, wire>>

\* The same, but the row was settled by somebody else: the write raises.
RecordRejected(p) ==
  LET k == proc[p].key IN
  /\ proc[p].pc = "waiting"
  /\ call[k].providerId
  /\ \E target \in Outcomes(k), c \in Reported(k) : ~CanWrite(k, target, c)
  /\ proc' = [proc EXCEPT ![p] = NoInvocation]
  /\ UNCHANGED <<runVars, call, entry, op, wire>>

\* The process dies: what it held is gone, what it committed stays.
Crash(p) ==
  /\ Crashes
  /\ proc[p].pc # "idle"
  /\ proc' = [proc EXCEPT ![p] = NoInvocation]
  /\ UNCHANGED <<runVars, call, entry, op, wire>>

-----------------------------------------------------------------------------
(* The provider, external: it answers and bills once per request sent.     *)
ProviderDone(k) ==
  /\ wire[k].sent > 0 /\ ~wire[k].done
  /\ \E b \in (IF k \in Remote THEN 0..MaxBill ELSE {0}) :
       wire' = [wire EXCEPT ![k] = [@ EXCEPT !.done = TRUE, !.bill = b]]
  /\ UNCHANGED <<runVars, call, entry, proc, op>>

-----------------------------------------------------------------------------
(* pause --immediate and cancel: stop the run, then mark what is in flight.*)

StopRun(o) ==
  /\ op[o].pc \notin {"listing", "marking", "resolving"}
  /\ ForcePause \/ Finalize("cancelled")
  /\ op' = [op EXCEPT ![o] = [NoCommand EXCEPT !.pc = "listing", !.held = Started]]
  /\ UNCHANGED <<call, entry, proc, wire>>

\* Mutant: only the calls that have a provider request id.
ListedWithId == {k \in Started : call[k].providerId}

\* mark_active_calls_unknown reads the STARTED calls outside a transaction
\* (the signals sent to their process groups only hasten an unknown outcome).
Listed == Started

ListStarted(o) ==
  /\ op[o].pc = "listing"
  /\ op' = [op EXCEPT ![o] = [@ EXCEPT !.pc = IF Listed = {} THEN "done" ELSE "marking",
                                       !.todo = Listed]]
  /\ UNCHANGED <<runVars, call, entry, proc, wire>>

MarkUnknown(o) ==
  /\ op[o].pc = "marking"
  /\ \E k \in op[o].todo :
       /\ Transition(k, "unknown")
       /\ op' = [op EXCEPT ![o] =
              [@ EXCEPT !.pc = IF op[o].todo = {k} THEN "done" ELSE "marking",
                        !.todo = op[o].todo \ {k}]]
  /\ UNCHANGED <<runVars, proc, wire>>

\* A listed call has been settled since: transition_call raises, the command
\* ends and leaves the rest of its list unmarked.
MarkRejected(o) ==
  /\ op[o].pc = "marking"
  /\ \E k \in op[o].todo : ~CanMove(k, "unknown")
  /\ op' = [op EXCEPT ![o] = [@ EXCEPT !.pc = "aborted", !.todo = {}]]
  /\ UNCHANGED <<runVars, call, entry, proc, wire>>

(* resolve-call: query the provider by request id, then complete the call. *)
QueryUnknown(o) ==
  /\ op[o].pc \notin {"listing", "marking", "resolving"}
  /\ \E k \in Key :
       /\ call[k].state = "unknown"
       /\ call[k].providerId
       /\ wire[k].done
       /\ \E c \in Reported(k) :
            op' = [op EXCEPT ![o] = [NoCommand EXCEPT !.pc = "resolving",
                                                      !.key = k, !.cost = c]]
  /\ UNCHANGED <<runVars, call, entry, proc, wire>>

Resolve(o) ==
  LET k == op[o].key
      c == op[o].cost IN
  /\ op[o].pc = "resolving"
  /\ \/ WriteResult(k, "completed", c)
     \/ ~CanWrite(k, "completed", c) /\ UNCHANGED <<call, entry>>
  /\ op' = [op EXCEPT ![o] = NoCommand]
  /\ UNCHANGED <<runVars, proc, wire>>

\* The command dies between two of its steps.
CommandCrash(o) ==
  /\ Crashes
  /\ op[o].pc # "idle"
  /\ op' = [op EXCEPT ![o] = NoCommand]
  /\ UNCHANGED <<runVars, call, entry, proc, wire>>

-----------------------------------------------------------------------------
\* Everybody else: runners and commands that move the run's row.
RunStep == RunNext /\ UNCHANGED ledgerVars

\* The steps a live process owes once it has begun to invoke.
InvokeStep(p) ==
  \/ BeginCall(p) \/ BeginRefused(p) \/ AdapterRefuses(p) \/ Send(p)
  \/ ReportId(p) \/ RaiseAfterSend(p) \/ RecordOutcome(p) \/ RecordRejected(p)

CommandStep(o) ==
  ListStarted(o) \/ MarkUnknown(o) \/ MarkRejected(o) \/ Resolve(o)

Next ==
  \/ \E p \in Proc : (\E k \in Key : Check(p, k)) \/ InvokeStep(p) \/ Crash(p)
  \/ \E k \in Key : ProviderDone(k)
  \/ \E o \in Operator :
       StopRun(o) \/ CommandStep(o) \/ QueryUnknown(o) \/ CommandCrash(o)
  \/ RunStep

Spec == Init /\ [][Next]_vars

\* Adapters bound every call with a timeout, so invoke always comes back; the
\* user owes nothing, the provider may never answer.
FairSpec ==
  Spec /\ \A p \in Proc : WF_vars(InvokeStep(p))

-----------------------------------------------------------------------------
TypeOK ==
  /\ RunTypeOK
  /\ call \in [Key -> Row]
  /\ entry \in [Key -> Cost]
  /\ proc \in [Proc -> Invocation]
  /\ op \in [Operator -> Command]
  /\ wire \in [Key -> [sent : Nat, done : BOOLEAN, bill : Nat]]

(* However often a key is retried, by however many processes, across       *)
(* freezes, crashes, resolutions and resumes: the provider is asked for it *)
(* at most once (AD-13, STATE-03: no paid call is repeated).               *)
AtMostOnceSent == \A k \in Key : wire[k].sent <= 1

(* The two tables agree: a call has a cost entry exactly when its outcome  *)
(* is known and its cost was reported, and then the amounts are equal; an  *)
(* UNKNOWN call keeps its evidence but is not charged before it is         *)
(* resolved.                                                               *)
LedgerConsistent ==
  \A k \in Key :
    entry[k] = IF call[k].state \in {"completed", "failed"} THEN call[k].cost
               ELSE Unreported

\* What calls cost beyond their estimate: no gate can see that coming.
Overrun(k) ==
  IF entry[k] # Unreported /\ entry[k] > Estimate[k] THEN entry[k] - Estimate[k] ELSE 0

(* Two dispatches that passed the policy check on the same reading of the  *)
(* ledger cannot both reserve the last of the budget (begin_call's         *)
(* docstring): commitments stay within the usable budget but for bills     *)
(* larger than their estimate.                                             *)
BudgetHonoured == Committed <= Usable + MapThenSumSet(Overrun, Key)

(* Money that may have been spent is never lost from the books: the bill   *)
(* of a request that reached the provider is covered by its entry or by    *)
(* its reservation, in every state and after every crash (COST-05,         *)
(* COST-06), as far as the estimate bounds the bill.                       *)
BilledIsCommitted ==
  \A k \in Remote :
    wire[k].sent > 0 /\ wire[k].bill <= Estimate[k]
      => wire[k].bill <= ConfirmedCost(k) + ReservedCost(k)

(* A freeze or cancel that reports success leaves none of the calls that   *)
(* were in flight when it stopped the run still STARTED.                   *)
FreezeSettles ==
  \A o \in Operator :
    op[o].pc = "done" => \A k \in op[o].held : call[k].state # "started"

(* A settled call is history: its state, cost, id and cost entry do not    *)
(* change any more, whatever late answer, freeze or resolution arrives.    *)
SettledForGood ==
  [][\A k \in Key : call[k].state \in {"completed", "failed"} =>
       call'[k] = call[k] /\ entry'[k] = entry[k]]_vars

(* A process that stays alive settles the call it started: completed,      *)
(* failed or UNKNOWN, so that a resume is not refused for ever.            *)
StartedSettles ==
  \A k \in Key : call[k].state = "started" ~> call[k].state # "started"

-----------------------------------------------------------------------------
(* The ledger keeps CallPromise.                                           *)
PhaseOf(k) ==
  CASE call[k].state \in {"absent", "planned"} -> "fresh"
    [] call[k].state \in {"started", "unknown"} -> "open"
    [] call[k].state \in {"completed", "failed", "cancelled"} -> "closed"

Promise == INSTANCE CallPromise WITH
  phase <- [k \in Key |-> PhaseOf(k)],
  sends <- [k \in Key |-> wire[k].sent],
  charge <- entry,
  Amount <- (0..MaxBill) \cup {Unreported}

KeepsPromise == Promise!Spec
=============================================================================
