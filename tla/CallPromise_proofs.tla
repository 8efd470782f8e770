-------------------------- MODULE CallPromise_proofs --------------------------
(***************************************************************************)
(* The call ledger implements CallPromise, settled calls are history, what *)
(* a provider may bill stays on the books, and what is on the books stays  *)
(* within the budget, for every finite set of keys, all processes and      *)
(* commands.  All of it rests on KeyInv.                                   *)
(***************************************************************************)
EXTENDS CallLedger_proofs, FiniteSetTheorems

(***************************************************************************)
(* What one step does to the table of calls.                               *)
(***************************************************************************)
Open == {"started", "unknown"}
Settled == {"completed", "failed"}

\* Only an open row is written, and writing leaves it open or closes it.
LEMMA WriteOpen ==
  ASSUME KeyInv, NEW k \in Key, NEW target \in {"completed", "failed", "unknown"}, NEW c,
         WriteResult(k, target, c)
  PROVE  /\ call[k].state \in Open /\ entry[k] = Unreported
         /\ call'[k].state = target /\ call'[k].unavailable = (c = Unreported)
         /\ entry'[k] = IF target \in Settled THEN c ELSE Unreported
         /\ \A j \in Key \ {k} : call'[j] = call[j] /\ entry'[j] = entry[j]
<1>1. LedgerTypeOK
  BY DEF KeyInv
<1>2. /\ call'[k].state = target /\ call'[k].unavailable = (c = Unreported)
      /\ entry'[k] = IF Charges(target, c) THEN c ELSE entry[k]
      /\ \A j \in Key \ {k} : call'[j] = call[j] /\ entry'[j] = entry[j]
  BY <1>1, WriteEffect
<1>3. call[k].state \in Open /\ entry[k] = Unreported
  BY WriteFacts DEF Open
<1>4. QED
  BY <1>2, <1>3 DEF Charges, Settled

\* Only an open row is moved by transition_call once it has been started.
LEMMA MoveOpen ==
  ASSUME KeyInv, NEW k \in Key, NEW target \in {"completed", "failed", "unknown"},
         Transition(k, target)
  PROVE  /\ call[k].state \in Open /\ entry[k] = Unreported
         /\ call'[k].state = target /\ entry' = entry
         /\ call'[k].unavailable = call[k].unavailable
         /\ \A j \in Key \ {k} : call'[j] = call[j]
<1>1. LedgerTypeOK /\ LedgerConsistent
  BY DEF KeyInv, KeyFacts
<1>2. /\ target \in InvocationTransitions[call[k].state] /\ call[k].state # "absent"
      /\ call'[k].state = target /\ entry' = entry
      /\ call'[k].unavailable = call[k].unavailable
      /\ \A j \in Key \ {k} : call'[j] = call[j]
  BY <1>1, MoveEffect
<1>3. call[k].state \in Open
  BY <1>1, <1>2, Reach DEF LedgerTypeOK, Row, Open
<1>4. entry[k] = Unreported
  BY <1>1, <1>3 DEF LedgerConsistent, Open
<1>5. QED
  BY <1>2, <1>3, <1>4

\* The ways a call's row and its cost entry can change.
Opens(k) ==
  /\ call[k].state \in {"absent", "planned"} /\ call'[k].state = "started"
  /\ UNCHANGED <<entry, wire>>
Moves(k) ==   \* to UNKNOWN, or to the same state with an id
  /\ call[k].state \in Open /\ call'[k].state \in {call[k].state, "unknown"}
  /\ UNCHANGED <<entry, wire>>
Closes(k) ==
  /\ call[k].state \in Open /\ call'[k].state \in Settled
  /\ \A j \in Key \ {k} : entry'[j] = entry[j]
  /\ UNCHANGED wire
OthersKept(k) == \A j \in Key \ {k} : call'[j] = call[j]

\* What a step may do to the row of a key: leave it, open it, rewrite it while open, or close it.
LEMMA CallStep ==
  ASSUME KeyInv, Next
  PROVE  \/ UNCHANGED <<call, entry>>
         \/ \E k \in Key : OthersKept(k) /\ (Opens(k) \/ Moves(k) \/ Closes(k))
<1>1. LedgerTypeOK /\ KnownKeys /\ UnidentifiedIsOpen
  BY DEF KeyInv, KeyFacts
<1> DEFINE G == \/ UNCHANGED <<call, entry>>
                \/ \E k \in Key : OthersKept(k) /\ (Opens(k) \/ Moves(k) \/ Closes(k))
<1>2. ASSUME NEW k \in Key, NEW target \in {"completed", "failed", "unknown"}, NEW c,
             WriteResult(k, target, c), UNCHANGED wire
      PROVE  G
  <2>1. /\ call[k].state \in Open /\ entry[k] = Unreported /\ call'[k].state = target
        /\ entry'[k] = IF target \in Settled THEN c ELSE Unreported
        /\ \A j \in Key \ {k} : call'[j] = call[j] /\ entry'[j] = entry[j]
    BY <1>2, WriteOpen
  <2>2. CASE target \in Settled
    BY <1>2, <2>1, <2>2 DEF OthersKept, Closes
  <2>3. CASE target = "unknown"
    <3>1. entry' = entry
      BY <1>2, <2>3 DEF WriteResult, Charges
    <3>2. QED
      BY <1>2, <2>1, <2>3, <3>1 DEF OthersKept, Moves, Open
  <2>4. QED
    BY <2>2, <2>3 DEF Settled
<1>3. ASSUME NEW k \in Key, NEW target \in {"completed", "failed", "unknown"},
             Transition(k, target), UNCHANGED wire
      PROVE  G
  BY <1>3, MoveOpen DEF OthersKept, Closes, Moves, Open, Settled
<1>4. ASSUME NEW p \in Proc, InvokeStep(p) PROVE G
  <2>1. CASE BeginCall(p)
    <3> DEFINE k == proc[p].key
    <3>1. /\ k \in Key /\ call[k].state \in {"absent", "planned"}
          /\ call' = [call EXCEPT ![k].state = "started"]
          /\ UNCHANGED <<entry, wire>>
      BY <1>1, <2>1 DEF KnownKeys, BeginCall, Startable
    <3>2. call'[k].state = "started" /\ OthersKept(k)
      BY <1>1, <3>1 DEF LedgerTypeOK, Row, OthersKept
    <3>3. QED
      BY <3>1, <3>2 DEF Opens
  <2>2. CASE AdapterRefuses(p) \/ RaiseAfterSend(p)
    BY <1>1, <1>3, <2>2 DEF KnownKeys, AdapterRefuses, RaiseAfterSend
  <2>3. CASE ReportId(p)
    <3> DEFINE k == proc[p].key
    <3>1. /\ k \in Key /\ call[k].state \in Open
          /\ call' = [call EXCEPT ![k].providerId = TRUE]
          /\ UNCHANGED <<entry, wire>>
      BY <1>1, <2>3 DEF KnownKeys, ReportId, UnidentifiedIsOpen, Active, Open
    <3>2. call'[k].state = call[k].state /\ OthersKept(k)
      BY <1>1, <3>1 DEF LedgerTypeOK, Row, OthersKept
    <3>3. QED
      BY <3>1, <3>2 DEF Moves
  <2>4. CASE RecordOutcome(p)
    <3>1. PICK target \in {"completed", "failed", "unknown"}, c \in Reported(proc[p].key) :
                 WriteResult(proc[p].key, target, c)
      BY <2>4 DEF RecordOutcome, Outcomes
    <3>2. QED
      BY <1>1, <1>2, <2>4, <3>1 DEF KnownKeys, RecordOutcome
  <2>5. CASE BeginRefused(p) \/ Send(p) \/ RecordRejected(p)
    BY <2>5 DEF BeginRefused, Send, RecordRejected
  <2>6. QED
    BY <1>4, <2>1, <2>2, <2>3, <2>4, <2>5 DEF InvokeStep
<1>5. ASSUME NEW o \in Operator, CommandStep(o) PROVE G
  <2>1. CASE MarkUnknown(o)
    BY <1>1, <1>3, <2>1 DEF MarkUnknown, LedgerTypeOK, Command
  <2>2. CASE Resolve(o)
    BY <1>1, <1>2, <2>2 DEF Resolve, KnownKeys
  <2>3. CASE ListStarted(o) \/ MarkRejected(o)
    BY <2>3 DEF ListStarted, MarkRejected
  <2>4. QED
    BY <1>5, <2>1, <2>2, <2>3 DEF CommandStep
<1>6. QED
  BY <1>4, <1>5 DEF Next, Check, Crash, ProviderDone, StopRun, QueryUnknown,
     CommandCrash, RunStep, ledgerVars

(* Late answers, freezes and resolutions never rewrite a settled call.     *)
THEOREM HistoryIsKept == Spec => SettledForGood
<1> DEFINE Kept == \A k \in Key : call[k].state \in {"completed", "failed"} =>
                     call'[k] = call[k] /\ entry'[k] = entry[k]
<1>1. KeyInv /\ [Next]_vars => [Kept]_vars
  <2> SUFFICES ASSUME KeyInv, Next PROVE Kept
    OBVIOUS
  <2>1. CASE UNCHANGED <<call, entry>>
    BY <2>1
  <2>2. ASSUME NEW k \in Key, OthersKept(k), Opens(k) \/ Moves(k) \/ Closes(k) PROVE Kept
    BY <2>2 DEF OthersKept, Opens, Moves, Closes, Open
  <2>3. QED
    BY <2>1, <2>2, CallStep
<1>2. QED
  BY <1>1, LedgerInvariant, PTL DEF Spec, SettledForGood

-----------------------------------------------------------------------------
(***************************************************************************)
(* Money: every charge is a bill, and what is not charged is reserved.     *)
(***************************************************************************)
Bills == \A k \in Key : wire[k].bill \in 0..MaxBill
ChargedAsReported == \A k \in Key : entry[k] # Unreported => entry[k] \in Reported(k)
AskedIsReported ==
  \A o \in Operator : op[o].pc = "resolving" => op[o].cost \in Reported(op[o].key)

MoneyInv == Bills /\ ChargedAsReported /\ AskedIsReported

\* A fresh ledger has no bills to cover.
LEMMA MoneyInit == Init => MoneyInv
  BY CostAssumption
     DEF Init, MoneyInv, Bills, ChargedAsReported, AskedIsReported, NoCommand

\* Whatever could be reported of a call can be reported after any step.
LEMMA ReportedGrows ==
  ASSUME KeyInv, [Next]_vars, NEW k \in Key
  PROVE  /\ Reported(k) \subseteq Reported(k)'
         /\ wire[k].bill \in 0..MaxBill => wire'[k].bill \in 0..MaxBill
<1>1. LedgerTypeOK /\ KnownKeys
  BY DEF KeyInv, KeyFacts
<1>2. CASE UNCHANGED wire
  BY <1>2 DEF Reported
<1>3. ASSUME NEW p \in Proc, Send(p) PROVE wire'[k].done = wire[k].done /\ wire'[k].bill = wire[k].bill
  <2>1. proc[p].key \in Key /\ wire' = [wire EXCEPT ![proc[p].key].sent = @ + 1]
    BY <1>1, <1>3 DEF Send, KnownKeys
  <2>2. QED
    BY <1>1, <2>1 DEF LedgerTypeOK
<1>4. ASSUME NEW j \in Key, ProviderDone(j)
      PROVE  /\ wire[k].done => wire'[k] = wire[k]
             /\ wire'[k] = wire[k] \/ wire'[k].bill \in 0..MaxBill
  <2>1. PICK b \in 0..MaxBill :
          wire' = [wire EXCEPT ![j] = [@ EXCEPT !.done = TRUE, !.bill = b]]
    <3>1. {0} \subseteq 0..MaxBill
      BY CostAssumption
    <3>2. QED
      BY <1>4, <3>1 DEF ProviderDone
  <2>2. ~wire[j].done
    BY <1>4 DEF ProviderDone
  <2>3. wire[j] \in [sent : Nat, done : BOOLEAN, bill : Nat]
    BY <1>1 DEF LedgerTypeOK
  <2>4. wire'[j].bill = b
    BY <1>1, <2>1, <2>3 DEF LedgerTypeOK
  <2>5. k # j => wire'[k] = wire[k]
    BY <1>1, <2>1 DEF LedgerTypeOK
  <2>6. QED
    BY <2>2, <2>4, <2>5
<1>5. UNCHANGED wire \/ (\E p \in Proc : Send(p)) \/ \E j \in Key : ProviderDone(j)
  BY DEF Next, RunStep, vars, ledgerVars, InvokeStep, CommandStep, Check, BeginCall,
         BeginRefused, AdapterRefuses, ReportId, RaiseAfterSend, RecordOutcome,
         RecordRejected, Crash, StopRun, ListStarted, MarkUnknown, MarkRejected,
         QueryUnknown, Resolve, CommandCrash
<1>6. QED
  BY <1>2, <1>3, <1>4, <1>5 DEF Reported

\* A result carries a cost that the adapter has reported.
LEMMA WrittenAsReported ==
  ASSUME KeyInv, MoneyInv, Next
  PROVE  \A k \in Key : entry'[k] = entry[k] \/ entry'[k] \in Reported(k)
<1>1. KnownKeys
  BY DEF KeyInv, KeyFacts
<1>2. ASSUME NEW k \in Key, NEW target \in {"completed", "failed", "unknown"},
             NEW c \in Reported(k), WriteResult(k, target, c)
      PROVE  \A j \in Key : entry'[j] = entry[j] \/ entry'[j] \in Reported(j)
  BY <1>2, WriteOpen
<1>3. ASSUME NEW p \in Proc, RecordOutcome(p)
      PROVE  \A j \in Key : entry'[j] = entry[j] \/ entry'[j] \in Reported(j)
  <2>1. proc[p].key \in Key
    BY <1>1, <1>3 DEF RecordOutcome, KnownKeys
  <2>2. PICK target \in {"completed", "failed", "unknown"}, c \in Reported(proc[p].key) :
               WriteResult(proc[p].key, target, c)
    BY <1>3 DEF RecordOutcome, Outcomes
  <2>3. QED
    BY <1>2, <2>1, <2>2
<1>4. ASSUME NEW o \in Operator, Resolve(o)
      PROVE  \A j \in Key : entry'[j] = entry[j] \/ entry'[j] \in Reported(j)
  <2>1. op[o].key \in Key /\ op[o].cost \in Reported(op[o].key)
    BY <1>1, <1>4 DEF Resolve, KnownKeys, MoneyInv, AskedIsReported
  <2>2. QED
    BY <1>2, <1>4, <2>1 DEF Resolve
<1>5. UNCHANGED entry \/ (\E p \in Proc : RecordOutcome(p)) \/ \E o \in Operator : Resolve(o)
  BY DEF Next, RunStep, ledgerVars, InvokeStep, CommandStep, Check, BeginCall,
         BeginRefused, AdapterRefuses, Send, ReportId, RaiseAfterSend, RecordRejected,
         Crash, ProviderDone, StopRun, ListStarted, MarkUnknown, MarkRejected,
         QueryUnknown, CommandCrash, Transition
<1>6. QED
  BY <1>3, <1>4, <1>5

\* resolve-call comes back from the provider with what it reports.
LEMMA AskedAsReported ==
  ASSUME KeyInv, MoneyInv, Next, NEW o \in Operator, op'[o].pc = "resolving"
  PROVE  op'[o] = op[o] \/ op'[o].cost \in Reported(op'[o].key)
<1>1. LedgerTypeOK
  BY DEF KeyInv
<1>2. ASSUME NEW x \in Operator, StopRun(x) \/ CommandStep(x) \/ CommandCrash(x)
      PROVE  op'[o] = op[o]
  <2>1. op \in [Operator -> Command] /\ op[x] \in Command
    BY <1>1 DEF LedgerTypeOK
  <2>2. \A y \in Operator \ {x} : op'[y] = op[y]
    BY <1>2, <2>1 DEF StopRun, CommandStep, ListStarted, MarkUnknown, MarkRejected,
                      Resolve, CommandCrash
  <2>3. op'[x].pc # "resolving"
    <3>1. CASE StopRun(x)
      BY <2>1, <3>1 DEF StopRun, NoCommand
    <3>2. CASE ListStarted(x)
      BY <2>1, <3>2 DEF ListStarted, Command
    <3>3. CASE MarkUnknown(x)
      BY <2>1, <3>3 DEF MarkUnknown, Command
    <3>4. CASE MarkRejected(x)
      BY <2>1, <3>4 DEF MarkRejected, Command
    <3>5. CASE Resolve(x) \/ CommandCrash(x)
      BY <2>1, <3>5 DEF Resolve, CommandCrash, NoCommand
    <3>6. QED
      BY <1>2, <3>1, <3>2, <3>3, <3>4, <3>5 DEF CommandStep
  <2>4. QED
    BY <2>2, <2>3
<1>3. ASSUME NEW x \in Operator, QueryUnknown(x)
      PROVE  op'[o] = op[o] \/ op'[o].cost \in Reported(op'[o].key)
  <2>1. PICK k \in Key : \E c \in Reported(k) :
          op' = [op EXCEPT ![x] = [NoCommand EXCEPT !.pc = "resolving",
                                                    !.key = k, !.cost = c]]
    BY <1>3 DEF QueryUnknown
  <2>2. PICK c \in Reported(k) :
          op' = [op EXCEPT ![x] = [NoCommand EXCEPT !.pc = "resolving",
                                                    !.key = k, !.cost = c]]
    BY <2>1
  <2>3. op'[x].key = k /\ op'[x].cost = c /\ \A y \in Operator \ {x} : op'[y] = op[y]
    BY <1>1, <2>2 DEF LedgerTypeOK, NoCommand
  <2>4. QED
    BY <2>2, <2>3
<1>4. \/ UNCHANGED op
      \/ \E x \in Operator : \/ StopRun(x) \/ CommandStep(x) \/ CommandCrash(x)
                             \/ QueryUnknown(x)
  BY DEF Next, RunStep, ledgerVars, InvokeStep, Check, BeginCall, BeginRefused,
         AdapterRefuses, Send, ReportId, RaiseAfterSend, RecordOutcome, RecordRejected,
         Crash, ProviderDone
<1>5. QED
  BY <1>2, <1>3, <1>4

\* Every step keeps the invariant of the money.
LEMMA MoneyStep == KeyInv /\ KeyInv' /\ MoneyInv /\ [Next]_vars => MoneyInv'
<1> SUFFICES ASSUME KeyInv, KeyInv', MoneyInv, [Next]_vars PROVE MoneyInv'
  OBVIOUS
<1>1. Bills'
  BY ReportedGrows DEF MoneyInv, Bills
<1>2. CASE UNCHANGED vars
  BY <1>2 DEF vars, MoneyInv, Bills, ChargedAsReported, AskedIsReported, Reported
<1>3. CASE Next
  <2>1. ChargedAsReported'
    BY <1>3, WrittenAsReported, ReportedGrows DEF MoneyInv, ChargedAsReported
  <2>2. AskedIsReported'
    BY <1>3, AskedAsReported, ReportedGrows
       DEF MoneyInv, AskedIsReported, KeyInv, KeyFacts, KnownKeys
  <2>3. QED
    BY <1>1, <2>1, <2>2 DEF MoneyInv
<1>4. QED
  BY <1>2, <1>3

\* Both invariants hold of every reachable state.
LEMMA MoneyInvariant == Spec => [](KeyInv /\ MoneyInv)
<1>1. Init => MoneyInv
  BY MoneyInit
<1>2. MoneyInv /\ KeyInv /\ KeyInv' /\ [Next]_vars => MoneyInv'
  BY MoneyStep
<1>3. RunInv /\ KeyInv => KeyInv
  OBVIOUS
<1>4. QED
  BY <1>1, <1>2, <1>3, LedgerInvariant, PTL DEF Spec

-----------------------------------------------------------------------------
(***************************************************************************)
(* The refinement.                                                         *)
(***************************************************************************)
LEMMA PromiseInit == Init => Promise!Init
  BY KeyAssumption DEF Init, Promise!Init, PhaseOf

\* A step that keeps the other calls changes one phase.
LEMMA SamePhase ==
  ASSUME NEW k \in Key, OthersKept(k)
  PROVE  [j \in Key |-> PhaseOf(j)]' = [[j \in Key |-> PhaseOf(j)] EXCEPT ![k] = PhaseOf(k)']
<1>1. \A j \in Key \ {k} : PhaseOf(j)' = PhaseOf(j)
  BY DEF OthersKept, PhaseOf
<1>2. QED
  BY <1>1

\* Opening, closing and sending are the promise's steps; the rest stutters.
LEMMA PromiseStep ==
  ASSUME KeyInv, KeyInv', MoneyInv', [Next]_vars
  PROVE  [Promise!Next]_(Promise!promiseVars)
<1>1. LedgerTypeOK /\ LedgerTypeOK' /\ KnownKeys /\ NeverCancelled /\ NeverCancelled'
  BY DEF KeyInv, KeyFacts
<1> DEFINE phase == [k \in Key |-> PhaseOf(k)]
           sends == [k \in Key |-> wire[k].sent]
<1>2. CASE UNCHANGED vars
  BY <1>2 DEF vars, Promise!promiseVars, PhaseOf
<1>3. ASSUME Next, NEW k \in Key, OthersKept(k), Opens(k) PROVE Promise!Open(k)
  <2>1. phase[k] = "fresh" /\ phase' = [phase EXCEPT ![k] = "open"]
    <3>1. PhaseOf(k) = "fresh" /\ PhaseOf(k)' = "open"
      BY <1>3 DEF Opens, PhaseOf
    <3>2. QED
      BY <1>3, <3>1, SamePhase
  <2>2. UNCHANGED <<sends, entry>>
    BY <1>3 DEF Opens
  <2>3. QED
    BY <2>1, <2>2 DEF Promise!Open
<1>4. ASSUME Next, NEW k \in Key, OthersKept(k), Moves(k) PROVE UNCHANGED Promise!promiseVars
  <2>1. UNCHANGED phase
    <3>1. PhaseOf(k) = "open" /\ PhaseOf(k)' = "open"
      BY <1>4 DEF Moves, PhaseOf, Open
    <3>2. QED
      BY <1>4, <3>1, SamePhase
  <2>2. UNCHANGED <<sends, entry>>
    BY <1>4 DEF Moves
  <2>3. QED
    BY <2>1, <2>2 DEF Promise!promiseVars
<1>5. ASSUME Next, NEW k \in Key, OthersKept(k), Closes(k) PROVE Promise!Close(k)
  <2>1. phase[k] = "open" /\ phase' = [phase EXCEPT ![k] = "closed"]
    <3>1. PhaseOf(k) = "open" /\ PhaseOf(k)' = "closed"
      BY <1>5 DEF Closes, PhaseOf, Open, Settled
    <3>2. QED
      BY <1>5, <3>1, SamePhase
  <2>2. UNCHANGED sends /\ entry' = [entry EXCEPT ![k] = entry'[k]]
    BY <1>1, <1>5 DEF Closes, LedgerTypeOK
  <2>3. entry'[k] \in (0..MaxBill) \cup {Unreported}
    <3>1. entry'[k] # Unreported => entry'[k] \in Reported(k)' /\ wire'[k].bill \in 0..MaxBill
      BY DEF MoneyInv, Bills, ChargedAsReported
    <3>2. 0 \in 0..MaxBill
      BY CostAssumption
    <3>3. QED
      BY <3>1, <3>2 DEF Reported
  <2>4. QED
    BY <2>1, <2>2, <2>3 DEF Promise!Close
<1>6. ASSUME NEW p \in Proc, Send(p), NEW k \in Key, k = proc[p].key PROVE Promise!Send(k)
  <2>1. wire[k].sent = 0 /\ call[k].state \in {"started", "unknown"}
    BY <1>1, <1>6 DEF KeyInv, KeyFacts, KnownKeys, BegunIsUnsent, UnidentifiedIsOpen,
                      Send, Active
  <2>2. wire' = [wire EXCEPT ![k].sent = @ + 1] /\ UNCHANGED <<call, entry>>
    BY <1>6 DEF Send
  <2>3. sends' = [sends EXCEPT ![k] = 1]
    <3>1. wire'[k].sent = 1 /\ \A j \in Key \ {k} : wire'[j] = wire[j]
      BY <1>1, <2>1, <2>2 DEF LedgerTypeOK
    <3>2. QED
      BY <3>1
  <2>4. phase[k] = "open" /\ sends[k] = 0 /\ UNCHANGED <<phase, entry>>
    BY <2>1, <2>2 DEF PhaseOf
  <2>5. QED
    BY <2>3, <2>4 DEF Promise!Send
<1>7. ASSUME Next, UNCHANGED <<call, entry>>, ~\E p \in Proc : Send(p)
      PROVE  UNCHANGED Promise!promiseVars
  <2>1. \A k \in Key : wire'[k].sent = wire[k].sent
    <3>1. CASE UNCHANGED wire
      BY <3>1
    <3>2. ASSUME NEW j \in Key, ProviderDone(j) PROVE \A k \in Key : wire'[k].sent = wire[k].sent
      <4>1. PICK b : wire' = [wire EXCEPT ![j] = [@ EXCEPT !.done = TRUE, !.bill = b]]
        BY <3>2 DEF ProviderDone
      <4>2. QED
        BY <1>1, <4>1 DEF LedgerTypeOK
    <3>3. UNCHANGED wire \/ \E j \in Key : ProviderDone(j)
      BY <1>7 DEF Next, RunStep, ledgerVars, InvokeStep, CommandStep, Check, BeginCall,
         BeginRefused, AdapterRefuses, ReportId, RaiseAfterSend, RecordOutcome,
         RecordRejected, Crash, StopRun, ListStarted, MarkUnknown, MarkRejected,
         QueryUnknown, Resolve, CommandCrash
    <3>4. QED
      BY <3>1, <3>2, <3>3
  <2>2. UNCHANGED <<phase, sends, entry>>
    BY <1>7, <2>1 DEF PhaseOf
  <2>3. QED
    BY <2>2 DEF Promise!promiseVars
<1>8. CASE Next
  <2>1. CASE \E p \in Proc : Send(p)
    <3>1. PICK p \in Proc : Send(p)
      BY <2>1
    <3>2. PICK k \in Key : k = proc[p].key
      BY <1>1, <3>1 DEF KnownKeys, Send
    <3>3. QED
      BY <1>6, <3>1, <3>2 DEF Promise!Next
  <2>2. CASE UNCHANGED <<call, entry>> /\ ~\E p \in Proc : Send(p)
    BY <1>7, <1>8, <2>2
  <2>3. CASE \E k \in Key : OthersKept(k) /\ (Opens(k) \/ Moves(k) \/ Closes(k))
    BY <1>3, <1>4, <1>5, <1>8, <2>3 DEF Promise!Next
  <2>4. QED
    BY <1>8, <2>1, <2>2, <2>3, CallStep
<1>9. QED
  BY <1>2, <1>8

(* The ledger implements CallPromise: with any number of processes, frozen *)
(* and resolved and crashed at any point, a request key is opened once,    *)
(* sent at most once and only while it is open, and charged once, when it  *)
(* is closed.                                                              *)
THEOREM LedgerKeepsPromise == Spec => KeepsPromise
<1>1. KeyInv /\ MoneyInv /\ (KeyInv /\ MoneyInv)' /\ [Next]_vars
        => [Promise!Next]_(Promise!promiseVars)
  BY PromiseStep
<1>2. QED
  BY <1>1, PromiseInit, MoneyInvariant, PTL DEF Spec, KeepsPromise, Promise!Spec

-----------------------------------------------------------------------------
(***************************************************************************)
(* Nothing that may have been billed is forgotten.                         *)
(***************************************************************************)
\* A remote call that was sent and is settled has an entry or an estimate.
SettledIsKnown ==
  \A k \in Remote : call[k].state \in Settled /\ wire[k].sent > 0 =>
    entry[k] # Unreported \/ call[k].unavailable

\* Every step keeps it, as long as the callback with the request id does not raise.
LEMMA SettledIsKnownStep ==
  ASSUME ~AdapterRaises, KeyInv, SettledIsKnown, [Next]_vars
  PROVE  SettledIsKnown'
<1>1. LedgerTypeOK /\ KnownKeys /\ Remote \subseteq Key
  BY KeyAssumption DEF KeyInv, KeyFacts
<1>2. ASSUME NEW k \in Key, NEW target \in {"completed", "failed", "unknown"}, NEW c,
             WriteResult(k, target, c), UNCHANGED wire
      PROVE  SettledIsKnown'
  BY <1>1, <1>2, WriteOpen DEF SettledIsKnown, Settled
<1>3. CASE UNCHANGED <<call, entry, wire>>
  BY <1>3 DEF SettledIsKnown
<1>4. ASSUME NEW p \in Proc, InvokeStep(p) PROVE SettledIsKnown'
  <2> DEFINE k == proc[p].key
  <2>1. CASE BeginCall(p)
    <3>1. k \in Key /\ call' = [call EXCEPT ![k].state = "started"] /\ UNCHANGED <<entry, wire>>
      BY <1>1, <2>1 DEF KnownKeys, BeginCall
    <3>2. /\ call'[k].state = "started"
          /\ \A j \in Key \ {k} : call'[j] = call[j]
      BY <1>1, <3>1 DEF LedgerTypeOK, Row
    <3>3. QED
      BY <1>1, <3>1, <3>2 DEF SettledIsKnown, Settled
  <2>2. CASE AdapterRefuses(p)
    <3>1. k \in Key /\ wire[k].sent = 0 /\ UNCHANGED wire
      BY <1>1, <2>2 DEF KnownKeys, AdapterRefuses, KeyInv, KeyFacts, BegunIsUnsent
    <3>2. CASE Transition(k, "failed")
      BY <1>1, <3>1, <3>2, MoveOpen DEF SettledIsKnown
    <3>3. CASE UNCHANGED <<call, entry>>
      BY <3>1, <3>3 DEF SettledIsKnown
    <3>4. QED
      BY <2>2, <3>2, <3>3 DEF AdapterRefuses
  <2>3. CASE Send(p)
    <3>1. /\ k \in Key /\ wire' = [wire EXCEPT ![k].sent = @ + 1] /\ UNCHANGED <<call, entry>>
          /\ call[k].state \in {"started", "unknown"}
      BY <1>1, <2>3 DEF Send, KnownKeys, KeyInv, KeyFacts, BegunIsUnsent,
                        UnidentifiedIsOpen, Active
    <3>2. \A j \in Key \ {k} : wire'[j] = wire[j]
      BY <1>1, <3>1 DEF LedgerTypeOK
    <3>3. QED
      BY <1>1, <3>1, <3>2 DEF SettledIsKnown, Settled
  <2>4. CASE ReportId(p)
    <3>1. /\ k \in Key /\ call' = [call EXCEPT ![k].providerId = TRUE]
          /\ UNCHANGED <<entry, wire>>
      BY <1>1, <2>4 DEF ReportId, KnownKeys
    <3>2. \A j \in Key : call'[j].state = call[j].state /\ call'[j].unavailable = call[j].unavailable
      BY <1>1, <3>1 DEF LedgerTypeOK, Row
    <3>3. QED
      BY <1>1, <3>1, <3>2 DEF SettledIsKnown
  <2>5. CASE RecordOutcome(p)
    <3>1. PICK target \in {"completed", "failed", "unknown"}, c \in Reported(k) : WriteResult(k, target, c)
      BY <2>5 DEF RecordOutcome, Outcomes
    <3>2. QED
      BY <1>1, <1>2, <2>5, <3>1 DEF KnownKeys, RecordOutcome
  <2>6. QED
    BY <1>3, <1>4, <2>1, <2>2, <2>3, <2>4, <2>5
       DEF InvokeStep, BeginRefused, RaiseAfterSend, RecordRejected
<1>5. ASSUME NEW o \in Operator, CommandStep(o) PROVE SettledIsKnown'
  <2>1. CASE MarkUnknown(o)
    <3>1. PICK k \in op[o].todo : Transition(k, "unknown")
      BY <2>1 DEF MarkUnknown
    <3>2. k \in Key
      BY <1>1 DEF LedgerTypeOK, Command
    <3>3. QED
      BY <1>1, <2>1, <3>1, <3>2, MoveOpen DEF MarkUnknown, SettledIsKnown, Settled
  <2>2. CASE Resolve(o)
    BY <1>1, <1>2, <1>3, <2>2 DEF Resolve, KnownKeys
  <2>3. QED
    BY <1>3, <1>5, <2>1, <2>2 DEF CommandStep, ListStarted, MarkRejected
<1>6. ASSUME NEW k \in Key, ProviderDone(k) PROVE SettledIsKnown'
  <2>1. PICK b : wire' = [wire EXCEPT ![k] = [@ EXCEPT !.done = TRUE, !.bill = b]]
    BY <1>6 DEF ProviderDone
  <2>2. \A j \in Key : wire'[j].sent = wire[j].sent
    BY <1>1, <2>1 DEF LedgerTypeOK
  <2>3. QED
    BY <1>1, <1>6, <2>2 DEF ProviderDone, SettledIsKnown
<1>7. QED
  BY <1>3, <1>4, <1>5, <1>6
     DEF Next, vars, ledgerVars, Check, Crash, StopRun, QueryUnknown, CommandCrash, RunStep

\* In a state with the money invariant every bill within its estimate is covered.
LEMMA Covered ==
  ASSUME KeyInv, MoneyInv, SettledIsKnown PROVE BilledIsCommitted
<1> SUFFICES ASSUME NEW k \in Remote, wire[k].sent > 0, wire[k].bill <= Estimate[k]
             PROVE  wire[k].bill <= ConfirmedCost(k) + ReservedCost(k)
  BY DEF BilledIsCommitted
<1>1. k \in Key /\ LedgerTypeOK /\ Estimate[k] \in Nat /\ wire[k].bill \in Nat /\ entry[k] \in Cost
  BY KeyAssumption, CostAssumption DEF KeyInv, LedgerTypeOK
<1>2. ConfirmedCost(k) \in Nat /\ ReservedCost(k) \in Nat
  BY <1>1, CostAssumption DEF ConfirmedCost, ReservedCost, Cost
<1>3. call[k].state \in Open \cup Settled
  BY <1>1 DEF KeyInv, KeyFacts, FreshRow, NeverCancelled, LedgerTypeOK, Row,
              InvocationStates, Open, Settled
<1>4. CASE Reserves(k)
  BY <1>1, <1>2, <1>4 DEF ReservedCost
<1>5. CASE ~Reserves(k)
  <2>1. call[k].state \in Settled /\ entry[k] # Unreported
    BY <1>3, <1>5 DEF Reserves, Open, SettledIsKnown
  <2>2. entry[k] = wire[k].bill
    BY <1>1, <2>1 DEF MoneyInv, ChargedAsReported, Reported
  <2>3. QED
    BY <1>1, <1>2, <2>1, <2>2 DEF ConfirmedCost
<1>6. QED
  BY <1>4, <1>5

(* As long as the request id can be stored, a bill within its estimate is  *)
(* always on the books, as an entry or as a reservation: through crashes,  *)
(* freezes, unknown outcomes and late resolutions.                         *)
THEOREM BillsAreCovered == ~AdapterRaises /\ Spec => []BilledIsCommitted
<1>1. Init => SettledIsKnown
  BY KeyAssumption DEF Init, SettledIsKnown, Settled
<1>2. SUFFICES ASSUME ~AdapterRaises PROVE Spec => []BilledIsCommitted
  OBVIOUS
<1>3. KeyInv /\ SettledIsKnown /\ [Next]_vars => SettledIsKnown'
  BY <1>2, SettledIsKnownStep
<1>4. KeyInv /\ MoneyInv /\ SettledIsKnown => BilledIsCommitted
  BY Covered
<1>5. QED
  BY <1>1, <1>3, <1>4, MoneyInvariant, PTL DEF Spec

-----------------------------------------------------------------------------
(***************************************************************************)
(* A freeze or cancel that ends well has marked what it froze.             *)
(***************************************************************************)
\* x is the record of a command: the calls it holds have begun, and those
\* still STARTED are on its list.
HeldWell(x) ==
  /\ \A k \in x.held : call[k].state \notin {"absent", "planned"}
  /\ x.pc = "marking" => x.held \cap Started \subseteq x.todo
  /\ x.pc = "done" => x.held \cap Started = {}
HeldInv == \A o \in Operator : HeldWell(op[o])

\* No call that has begun is STARTED again.
LEMMA NeverRestarted ==
  ASSUME KeyInv, [Next]_vars, NEW k \in Key, call[k].state \notin {"absent", "planned"}
  PROVE  /\ call'[k].state \notin {"absent", "planned"}
         /\ call'[k].state = "started" => call[k].state = "started"
<1>1. CASE UNCHANGED <<call, entry>>
  BY <1>1
<1>2. ASSUME NEW j \in Key, OthersKept(j), Opens(j) \/ Moves(j) \/ Closes(j)
      PROVE  /\ call'[k].state \notin {"absent", "planned"}
             /\ call'[k].state = "started" => call[k].state = "started"
  BY <1>2 DEF OthersKept, Opens, Moves, Closes, Open, Settled
<1>3. QED
  BY <1>1, <1>2, CallStep DEF vars

\* Every step keeps it that the calls a command holds are settled or still on its list.
LEMMA HeldStep == KeyInv /\ HeldInv /\ [Next]_vars => HeldInv'
<1> SUFFICES ASSUME KeyInv, HeldInv, [Next]_vars, NEW o \in Operator PROVE HeldWell(op[o])'
  BY DEF HeldInv
<1>1. /\ LedgerTypeOK /\ op[o] \in Command /\ op[o].held \subseteq Key /\ op[o].todo \subseteq Key
      /\ HeldWell(op[o])
  BY DEF KeyInv, HeldInv, LedgerTypeOK, Command
<1>2. CASE op'[o] = op[o]
  <2>1. Started' \cap op[o].held \subseteq Started
    BY <1>1, NeverRestarted DEF HeldWell, Started
  <2>2. \A k \in op[o].held : call'[k].state \notin {"absent", "planned"}
    BY <1>1, NeverRestarted DEF HeldWell
  <2>3. QED
    BY <1>1, <1>2, <2>1, <2>2 DEF HeldWell
<1>3. CASE StopRun(o)
  <2>1. op'[o].pc = "listing" /\ op'[o].held = Started /\ UNCHANGED call
    BY <1>1, <1>3 DEF StopRun, NoCommand, LedgerTypeOK
  <2>2. QED
    BY <2>1 DEF HeldWell, Started
<1>4. CASE ListStarted(o)
  <2>1. /\ op'[o].pc = IF Started = {} THEN "done" ELSE "marking"
        /\ op'[o].todo = Started /\ op'[o].held = op[o].held /\ UNCHANGED call
    BY <1>1, <1>4 DEF ListStarted, Listed, Command, LedgerTypeOK
  <2>2. Started' = Started
    BY <2>1 DEF Started
  <2>3. QED
    BY <1>1, <2>1, <2>2 DEF HeldWell
<1>5. CASE MarkUnknown(o)
  <2>1. PICK k \in op[o].todo :
          /\ Transition(k, "unknown")
          /\ op' = [op EXCEPT ![o] =
               [@ EXCEPT !.pc = IF op[o].todo = {k} THEN "done" ELSE "marking",
                         !.todo = op[o].todo \ {k}]]
    BY <1>5 DEF MarkUnknown
  <2>2. /\ op'[o].pc = IF op[o].todo = {k} THEN "done" ELSE "marking"
        /\ op'[o].todo = op[o].todo \ {k} /\ op'[o].held = op[o].held
    BY <1>1, <2>1 DEF LedgerTypeOK, Command
  <2>3. k \in Key /\ call'[k].state = "unknown" /\ op[o].pc = "marking"
    BY <1>1, <1>5, <2>1, MoveOpen DEF MarkUnknown
  <2>4. Started' \cap op[o].held \subseteq Started \ {k}
    BY <1>1, <2>3, NeverRestarted DEF HeldWell, Started
  <2>5. \A j \in op[o].held : call'[j].state \notin {"absent", "planned"}
    BY <1>1, NeverRestarted DEF HeldWell
  <2>6. QED
    BY <1>1, <2>2, <2>3, <2>4, <2>5 DEF HeldWell
<1>6. CASE MarkRejected(o)
  <2>1. op'[o].pc = "aborted" /\ op'[o].held = op[o].held /\ UNCHANGED call
    BY <1>1, <1>6 DEF MarkRejected, Command, LedgerTypeOK
  <2>2. QED
    BY <1>1, <2>1 DEF HeldWell
<1>7. CASE Resolve(o) \/ CommandCrash(o)
  <2>1. op'[o] = NoCommand
    BY <1>1, <1>7 DEF Resolve, CommandCrash, LedgerTypeOK
  <2>2. QED
    BY <2>1 DEF HeldWell, NoCommand
<1>8. CASE QueryUnknown(o)
  <2>1. PICK k \in Key : \E c \in Reported(k) :
          op' = [op EXCEPT ![o] = [NoCommand EXCEPT !.pc = "resolving",
                                                    !.key = k, !.cost = c]]
    BY <1>8 DEF QueryUnknown
  <2>2. op'[o].pc = "resolving" /\ op'[o].held = {}
    BY <1>1, <2>1 DEF LedgerTypeOK, NoCommand
  <2>3. QED
    BY <2>2 DEF HeldWell
<1>9. \/ op'[o] = op[o] \/ StopRun(o) \/ CommandStep(o) \/ QueryUnknown(o) \/ CommandCrash(o)
  <2>1. ASSUME NEW x \in Operator \ {o},
               StopRun(x) \/ CommandStep(x) \/ QueryUnknown(x) \/ CommandCrash(x)
        PROVE  op'[o] = op[o]
    BY <1>1, <2>1 DEF LedgerTypeOK, StopRun, CommandStep, ListStarted, MarkUnknown,
                      MarkRejected, Resolve, QueryUnknown, CommandCrash
  <2>2. QED
    BY <2>1 DEF Next, vars, RunStep, ledgerVars, InvokeStep, Check, BeginCall,
                BeginRefused, AdapterRefuses, Send, ReportId, RaiseAfterSend,
                RecordOutcome, RecordRejected, Crash, ProviderDone
<1>10. QED
  BY <1>2, <1>3, <1>4, <1>5, <1>6, <1>7, <1>8, <1>9 DEF CommandStep

(* A freeze or cancel that reports success has left no call STARTED of     *)
(* those that were in flight when it stopped the run, however its marking  *)
(* interleaves with answers, resolutions and other commands.               *)
THEOREM FreezeMarksAll == Spec => []FreezeSettles
<1>1. Init => HeldInv
  BY DEF Init, HeldInv, HeldWell, NoCommand
<1>2. KeyInv /\ HeldInv /\ [Next]_vars => HeldInv'
  BY HeldStep
<1>3. KeyInv /\ HeldInv => FreezeSettles
  BY DEF KeyInv, LedgerTypeOK, Command, HeldInv, HeldWell, FreezeSettles, Started
<1>4. QED
  BY <1>1, <1>2, <1>3, MoneyInvariant, PTL DEF Spec

-----------------------------------------------------------------------------
(***************************************************************************)
(* Sums over finite sets.  The provers instantiate no operators, so these  *)
(* facts are about the function that the library's recursion defines.      *)
(***************************************************************************)
\* The element a sum over a set begins with, and the sum of f over each part of S.
First(s) == CHOOSE x \in s : TRUE
Rest(s) == s \ {First(s)}
IsSum(f, S, g) ==
  g = [s \in SUBSET S |-> IF s = {} THEN 0 ELSE f[First(s)] + g[Rest(s)]]
Part(S, n) == {s \in SUBSET S : Cardinality(s) <= n}

(* What is left of a finite set is smaller by one.                         *)
LEMMA RestSmaller ==
  ASSUME NEW S, IsFiniteSet(S), NEW s \in SUBSET S, s # {}
  PROVE  /\ First(s) \in s /\ Rest(s) \in SUBSET S
         /\ Cardinality(s) \in Nat /\ Cardinality(Rest(s)) = Cardinality(s) - 1
         /\ Cardinality(s) # 0
<1>1. First(s) \in s
  BY DEF First
<1>2. IsFiniteSet(s) /\ Cardinality(s) \in Nat
  BY FS_Subset, FS_CardinalityType
<1>3. Cardinality(s) # 0
  BY <1>2, FS_EmptySet
<1>4. Cardinality(Rest(s)) = Cardinality(s) - 1
  BY <1>1, <1>2, FS_RemoveElement DEF Rest
<1> QED
  BY <1>1, <1>2, <1>3, <1>4 DEF Rest

(* The sum exists, by induction over the size of the parts: there is no    *)
(* least size up to which no function keeps the equation.                  *)
LEMMA SumExists ==
  ASSUME NEW S, IsFiniteSet(S), NEW f
  PROVE  \E g : IsSum(f, S, g)
<1> DEFINE Eq(g, n) == \A s \in Part(S, n) : g[s] = IF s = {} THEN 0 ELSE f[First(s)] + g[Rest(s)]
           Bad == {n \in Nat : ~ \E g : Eq(g, n)}
<1>1. Bad = {}
  <2> SUFFICES ASSUME Bad # {} PROVE FALSE
    OBVIOUS
  <2>1. PICK n \in Bad : \A m \in Bad : n <= m
    BY Least
  <2>2. CASE n = 0
    <3>1. \A s \in Part(S, 0) : s = {}
      BY RestSmaller DEF Part
    <3>2. Eq([s \in SUBSET S |-> 0], 0)
      BY <3>1 DEF Part
    <3> QED
      BY <2>1, <2>2, <3>2
  <2>3. CASE n # 0
    <3>1. n - 1 \in Nat /\ n - 1 \notin Bad
      BY <2>1, <2>3
    <3>2. PICK g : Eq(g, n - 1)
      BY <3>1
    <3> DEFINE h == [s \in SUBSET S |-> IF s = {} THEN 0 ELSE f[First(s)] + g[Rest(s)]]
    <3>3. \A s \in Part(S, n - 1) : h[s] = g[s]
      BY <3>2 DEF Part
    <3>4. \A s \in Part(S, n) : s # {} => Rest(s) \in Part(S, n - 1)
      BY RestSmaller DEF Part
    <3>5. Eq(h, n)
      <4> SUFFICES ASSUME NEW s \in Part(S, n)
                   PROVE  h[s] = IF s = {} THEN 0 ELSE f[First(s)] + h[Rest(s)]
        OBVIOUS
      <4>1. s \in SUBSET S
        BY DEF Part
      <4>2. s # {} => h[Rest(s)] = g[Rest(s)]
        BY <3>3, <3>4
      <4> QED
        BY <4>1, <4>2
    <3> HIDE DEF h
    <3> QED
      BY <2>1, <3>5
  <2> QED
    BY <2>2, <2>3
<1>2. Cardinality(S) \in Nat /\ Part(S, Cardinality(S)) = SUBSET S
  BY FS_Subset, FS_CardinalityType DEF Part
<1>3. PICK g : Eq(g, Cardinality(S))
  BY <1>1, <1>2
<1> DEFINE h == [s \in SUBSET S |-> g[s]]
<1>4. IsSum(f, S, h)
  BY <1>2, <1>3, RestSmaller DEF IsSum
<1> QED
  BY <1>4

\* The terms of a and b are no larger than those of c and d, but for e at k.
Outweigh(S, a, b, c, d, k, e) ==
  \A j \in S : a[j] + b[j] <= c[j] + d[j] + (IF j = k THEN e ELSE 0)

(* Sums compare as their terms do.  One term may be larger by e.           *)
LEMMA SumsCompare ==
  ASSUME NEW S, IsFiniteSet(S),
         NEW a \in [S -> Nat], NEW b \in [S -> Nat], NEW c \in [S -> Nat], NEW d \in [S -> Nat],
         NEW A, IsSum(a, S, A), NEW B, IsSum(b, S, B),
         NEW C, IsSum(c, S, C), NEW D, IsSum(d, S, D),
         NEW k, NEW e \in Nat,
         Outweigh(S, a, b, c, d, k, e)
  PROVE  /\ A[S] \in Nat /\ B[S] \in Nat /\ C[S] \in Nat /\ D[S] \in Nat
         /\ A[S] + B[S] <= C[S] + D[S] + e
<1> DEFINE Fine(s) == /\ A[s] \in Nat /\ B[s] \in Nat /\ C[s] \in Nat /\ D[s] \in Nat
                      /\ A[s] + B[s] <= C[s] + D[s] + (IF k \in s THEN e ELSE 0)
           Bad == {n \in Nat : \E s \in SUBSET S : Cardinality(s) = n /\ ~Fine(s)}
<1>1. \A s \in SUBSET S : Fine(s)
  <2> SUFFICES ASSUME Bad # {} PROVE FALSE
    BY FS_Subset, FS_CardinalityType
  <2>1. PICK n \in Bad : \A m \in Bad : n <= m
    BY Least
  <2>2. PICK s \in SUBSET S : Cardinality(s) = n /\ ~Fine(s)
    BY <2>1
  <2>3. CASE s = {}
    <3>1. A[s] = 0 /\ B[s] = 0 /\ C[s] = 0 /\ D[s] = 0
      BY <2>3 DEF IsSum
    <3> QED
      BY <2>2, <2>3, <3>1
  <2>4. CASE s # {}
    <3> DEFINE x == First(s)
               r == Rest(s)
    <3>1. x \in s /\ r \in SUBSET S /\ Cardinality(r) = n - 1 /\ n - 1 \in Nat
      BY <2>2, <2>4, RestSmaller
    <3>2. Fine(r)
      BY <2>1, <3>1
    <3>3. /\ A[s] = a[x] + A[r] /\ B[s] = b[x] + B[r]
          /\ C[s] = c[x] + C[r] /\ D[s] = d[x] + D[r]
      BY <2>4 DEF IsSum
    <3>4. k \in s <=> k \in r \/ k = x
      BY <3>1 DEF Rest
    <3>5. x = k => k \notin r
      BY DEF Rest
    <3>6. /\ a[x] \in Nat /\ b[x] \in Nat /\ c[x] \in Nat /\ d[x] \in Nat
          /\ a[x] + b[x] <= c[x] + d[x] + (IF x = k THEN e ELSE 0)
      BY <3>1 DEF Outweigh
    <3> HIDE DEF x, r
    <3>7. Fine(s)
      BY <3>2, <3>3, <3>4, <3>5, <3>6
    <3> QED
      BY <2>2, <3>7
  <2> QED
    BY <2>3, <2>4
<1> HIDE DEF Fine
<1>2. Fine(S)
  BY <1>1
<1> QED
  BY <1>2 DEF Fine

-----------------------------------------------------------------------------
(***************************************************************************)
(* The budget.                                                             *)
(***************************************************************************)
Commitment == [k \in Key |-> ConfirmedCost(k) + ReservedCost(k)]
Excess == [k \in Key |-> Overrun(k)]

\* The sums of the ledger, as sums over functions.
Excesses == MapThenSumSet(Overrun, Key)
SumsOfTerms ==
  /\ \E g : IsSum(Commitment, Key, g) /\ Committed = g[Key]
  /\ \E g : IsSum(Excess, Key, g) /\ Excesses = g[Key]

(* The library's sums over the keys are sums of the terms.                 *)
LEMMA LedgerSums == SumsOfTerms
<1>1. \E g : IsSum(Commitment, Key, g) /\ Committed = g[Key]
  <2> DEFINE P(g) == g = [s \in SUBSET Key |-> IF s = {} THEN 0 ELSE
        (ConfirmedCost(CHOOSE x \in s : TRUE) + ReservedCost(CHOOSE x \in s : TRUE))
          + g[s \ {CHOOSE x \in s : TRUE}]]
  <2>1. \A g : P(g) <=> IsSum(Commitment, Key, g)
    <3>1. \A s \in SUBSET Key : s # {} => (CHOOSE x \in s : TRUE) \in Key
      OBVIOUS
    <3> QED
      BY <3>1 DEF IsSum, First, Rest, Commitment
  <2>2. \E g : P(g)
    <3>1. \E g : IsSum(Commitment, Key, g)
      BY SumExists, KeyAssumption
    <3> HIDE DEF P
    <3> QED
      BY <2>1, <3>1
  <2>3. P(CHOOSE g : P(g))
    BY <2>2, Zenon
  <2>4. Committed = (CHOOSE g : P(g))[Key]
    BY DEF Committed, MapThenSumSet, MapThenFoldSet
  <2> HIDE DEF P
  <2> QED
    BY <2>1, <2>3, <2>4
<1>2. \E g : IsSum(Excess, Key, g) /\ Excesses = g[Key]
  <2> DEFINE P(g) == g = [s \in SUBSET Key |-> IF s = {} THEN 0 ELSE
        Overrun(CHOOSE x \in s : TRUE) + g[s \ {CHOOSE x \in s : TRUE}]]
  <2>1. \A g : P(g) <=> IsSum(Excess, Key, g)
    <3>1. \A s \in SUBSET Key : s # {} => (CHOOSE x \in s : TRUE) \in Key
      OBVIOUS
    <3> QED
      BY <3>1 DEF IsSum, First, Rest, Excess
  <2>2. \E g : P(g)
    <3>1. \E g : IsSum(Excess, Key, g)
      BY SumExists, KeyAssumption
    <3> HIDE DEF P
    <3> QED
      BY <2>1, <3>1
  <2>3. P(CHOOSE g : P(g))
    BY <2>2, Zenon
  <2>4. Excesses = (CHOOSE g : P(g))[Key]
    BY DEF Excesses, MapThenSumSet, MapThenFoldSet
  <2> HIDE DEF P
  <2> QED
    BY <2>1, <2>3, <2>4
<1> QED
  BY <1>1, <1>2 DEF SumsOfTerms

\* Amounts are natural numbers.
LEMMA AmountsTyped ==
  LedgerTypeOK => Commitment \in [Key -> Nat] /\ Excess \in [Key -> Nat]
<1>1. ASSUME LedgerTypeOK, NEW k \in Key
      PROVE  ConfirmedCost(k) + ReservedCost(k) \in Nat /\ Overrun(k) \in Nat
  <2>1. Estimate[k] \in Nat /\ (entry[k] # Unreported => entry[k] \in Nat)
    BY <1>1, CostAssumption DEF LedgerTypeOK, Cost
  <2>2. ConfirmedCost(k) \in Nat /\ ReservedCost(k) \in Nat /\ Overrun(k) \in Nat
    BY <2>1 DEF ConfirmedCost, ReservedCost, Overrun
  <2> QED
    BY <2>2
<1> QED
  BY <1>1 DEF Commitment, Excess

\* The terms of the row of k are no larger than before, but for an excess.
Lighter(k) ==
  Commitment'[k] + Excess[k] <= Commitment[k] + Excess'[k]

(* Nothing but begin_call adds to what is committed, except by an excess.  *)
LEMMA RowsLighter ==
  ASSUME KeyInv, KeyInv', [Next]_vars, NEW k \in Key,
         \A p \in Proc : BeginCall(p) => proc[p].key # k
  PROVE  Lighter(k)
<1>1. LedgerTypeOK /\ LedgerTypeOK' /\ KnownKeys /\ LedgerConsistent
  BY DEF KeyInv, KeyFacts
<1>2. /\ Commitment[k] = ConfirmedCost(k) + ReservedCost(k) /\ Excess[k] = Overrun(k)
      /\ Commitment'[k] = ConfirmedCost(k)' + ReservedCost(k)' /\ Excess'[k] = Overrun(k)'
  BY DEF Commitment, Excess
<1>3. /\ Estimate[k] \in Nat /\ entry[k] \in Cost /\ entry'[k] \in Cost
      /\ k \notin Remote => Estimate[k] = 0
  BY <1>1, CostAssumption DEF LedgerTypeOK
<1>4. ASSUME call'[k].state = call[k].state, call'[k].unavailable = call[k].unavailable,
             entry'[k] = entry[k]
      PROVE  Lighter(k)
  <2>1. /\ ConfirmedCost(k)' = ConfirmedCost(k) /\ Overrun(k)' = Overrun(k)
        /\ ReservedCost(k)' = ReservedCost(k)
    BY <1>4 DEF ConfirmedCost, ReservedCost, Reserves, Overrun
  <2> QED
    BY <1>2, <2>1, <1>1, AmountsTyped DEF Lighter
<1>5. ASSUME NEW j \in Key, NEW target \in {"completed", "failed", "unknown"}, NEW c \in Cost,
             WriteResult(j, target, c)
      PROVE  Lighter(k)
  <2>1. /\ call[j].state \in Open /\ entry[j] = Unreported
        /\ call'[j].state = target /\ call'[j].unavailable = (c = Unreported)
        /\ entry'[j] = IF target \in Settled THEN c ELSE Unreported
        /\ \A i \in Key \ {j} : call'[i] = call[i] /\ entry'[i] = entry[i]
    BY <1>5, WriteOpen
  <2>2. CASE j = k
    <3>1. Commitment[k] = Estimate[k] /\ Excess[k] = 0
      BY <1>2, <1>3, <2>1, <2>2 DEF ConfirmedCost, ReservedCost, Reserves, Overrun, Open
    <3>2. CASE c # Unreported /\ target \in Settled
      <4>1. /\ c \in Nat /\ Commitment'[k] = c
            /\ Excess'[k] = IF c > Estimate[k] THEN c - Estimate[k] ELSE 0
        <5>1. /\ c \in Nat /\ entry'[k] = c /\ entry'[k] # Unreported
              /\ call'[k].state \in Settled /\ ~call'[k].unavailable
          BY <1>5, <2>1, <2>2, <3>2 DEF Cost
        <5>2. ReservedCost(k)' = 0
          BY <5>1 DEF ReservedCost, Reserves, Settled
        <5> QED
          BY <1>2, <5>1, <5>2 DEF ConfirmedCost, Overrun
      <4> QED
        BY <1>3, <3>1, <4>1 DEF Lighter
    <3>3. CASE c = Unreported \/ target = "unknown"
      <4>1. Commitment'[k] = Estimate[k] /\ Excess'[k] = 0
        <5>1. /\ entry'[k] = Unreported
              /\ call'[k].state = "unknown" \/ call'[k].unavailable
          BY <2>1, <2>2, <3>3 DEF Settled
        <5>2. ReservedCost(k)' = Estimate[k]
          BY <1>3, <5>1 DEF ReservedCost, Reserves
        <5> QED
          BY <1>2, <1>3, <5>1, <5>2 DEF ConfirmedCost, Overrun
      <4> QED
        BY <1>3, <3>1, <4>1 DEF Lighter
    <3> QED
      BY <3>2, <3>3 DEF Settled
  <2> QED
    BY <1>4, <2>1, <2>2
<1>6. ASSUME NEW j \in Key, NEW target \in {"failed", "unknown"}, Transition(j, target)
      PROVE  Lighter(k)
  <2>1. /\ call[j].state \in Open /\ entry[j] = Unreported
        /\ call'[j].state = target /\ entry' = entry
        /\ \A i \in Key \ {j} : call'[i] = call[i]
    BY <1>6, MoveOpen
  <2>2. CASE j = k
    BY <1>2, <1>3, <2>1, <2>2, CostAssumption
       DEF Lighter, ConfirmedCost, ReservedCost, Reserves, Overrun, Open, Settled, Cost
  <2> QED
    BY <1>4, <2>1, <2>2
<1>7. CASE UNCHANGED <<call, entry>>
  BY <1>4, <1>7
<1>8. ASSUME NEW p \in Proc, InvokeStep(p) PROVE Lighter(k)
  <2>1. CASE BeginCall(p)
    <3>1. proc[p].key # k /\ call' = [call EXCEPT ![proc[p].key].state = "started"] /\ entry' = entry
      BY <2>1 DEF BeginCall
    <3> QED
      BY <1>1, <1>4, <3>1 DEF LedgerTypeOK
  <2>2. CASE AdapterRefuses(p) \/ RaiseAfterSend(p)
    BY <1>1, <1>6, <1>7, <2>2 DEF KnownKeys, AdapterRefuses, RaiseAfterSend
  <2>3. CASE ReportId(p)
    <3>1. call' = [call EXCEPT ![proc[p].key].providerId = TRUE] /\ entry' = entry
      BY <2>3 DEF ReportId
    <3>2. call'[k].state = call[k].state /\ call'[k].unavailable = call[k].unavailable
      BY <1>1, <3>1 DEF LedgerTypeOK, Row
    <3> QED
      BY <1>4, <3>1, <3>2
  <2>4. CASE RecordOutcome(p)
    <3>1. PICK target \in {"completed", "failed", "unknown"}, c \in Reported(proc[p].key) :
                 WriteResult(proc[p].key, target, c)
      BY <2>4 DEF RecordOutcome, Outcomes
    <3>2. proc[p].key \in Key /\ c \in Cost
      BY <1>1, <2>4, <3>1, ReportedTyped DEF KnownKeys, RecordOutcome
    <3> QED
      BY <1>5, <3>1, <3>2
  <2>5. CASE BeginRefused(p) \/ Send(p) \/ RecordRejected(p)
    BY <1>7, <2>5 DEF BeginRefused, Send, RecordRejected
  <2> QED
    BY <1>8, <2>1, <2>2, <2>3, <2>4, <2>5 DEF InvokeStep
<1>9. ASSUME NEW o \in Operator, CommandStep(o) PROVE Lighter(k)
  <2>1. op[o] \in Command
    BY <1>1 DEF LedgerTypeOK
  <2>2. CASE MarkUnknown(o)
    BY <1>6, <2>1, <2>2 DEF MarkUnknown, Command
  <2>3. CASE Resolve(o)
    BY <1>1, <1>5, <1>7, <2>1, <2>3 DEF Resolve, KnownKeys, Command
  <2>4. CASE ListStarted(o) \/ MarkRejected(o)
    BY <1>7, <2>4 DEF ListStarted, MarkRejected
  <2> QED
    BY <1>9, <2>2, <2>3, <2>4 DEF CommandStep
<1> QED
  BY <1>7, <1>8, <1>9 DEF vars, Next, Check, Crash, ProviderDone, StopRun, QueryUnknown,
     CommandCrash, RunStep, ledgerVars

(* The gate of begin_call keeps the sum within the budget; every other     *)
(* step lets it grow by an excess at most.                                 *)
LEMMA BudgetStep ==
  ASSUME KeyInv, KeyInv', BudgetHonoured, [Next]_vars
  PROVE  BudgetHonoured'
<1>1. LedgerTypeOK /\ LedgerTypeOK' /\ KnownKeys /\ FreshRow /\ LedgerConsistent
  BY DEF KeyInv, KeyFacts
<1>2. /\ Commitment \in [Key -> Nat] /\ Excess \in [Key -> Nat]
      /\ Usable \in Nat /\ IsFiniteSet(Key)
  BY <1>1, AmountsTyped, KeyAssumption, CostAssumption
<1>3. Commitment' \in [Key -> Nat] /\ Excess' \in [Key -> Nat]
  <2>1. LedgerTypeOK' => (Commitment \in [Key -> Nat] /\ Excess \in [Key -> Nat])'
    BY AmountsTyped, PTL
  <2> QED
    BY <1>1, <2>1
<1>4. SumsOfTerms /\ SumsOfTerms'
  BY LedgerSums, PTL
<1>5. PICK C : IsSum(Commitment, Key, C) /\ Committed = C[Key]
  BY <1>4 DEF SumsOfTerms
<1>6. PICK E : IsSum(Excess, Key, E) /\ Excesses = E[Key]
  BY <1>4 DEF SumsOfTerms
<1>7. PICK C1 : IsSum(Commitment', Key, C1) /\ Committed' = C1[Key]
  BY <1>4 DEF SumsOfTerms
<1>8. PICK E1 : IsSum(Excess', Key, E1) /\ Excesses' = E1[Key]
  BY <1>4 DEF SumsOfTerms
<1>9. Committed <= Usable + Excesses
  BY DEF BudgetHonoured, Excesses
<1>10. ASSUME NEW k, NEW e \in Nat,
              Outweigh(Key, Commitment', Excess, Commitment, Excess', k, e)
       PROVE  /\ Committed \in Nat /\ Excesses \in Nat /\ Committed' \in Nat /\ Excesses' \in Nat
              /\ Committed' + Excesses <= Committed + Excesses' + e
  BY <1>2, <1>3, <1>5, <1>6, <1>7, <1>8, <1>10, SumsCompare
<1>11. SUFFICES Committed' <= Usable + Excesses'
  BY DEF BudgetHonoured, Excesses
<1>12. CASE \A p \in Proc : ~BeginCall(p)
  <2>1. \A j \in Key : Commitment'[j] + Excess[j] <= Commitment[j] + Excess'[j]
    BY <1>12, RowsLighter DEF Lighter
  <2>2. Outweigh(Key, Commitment', Excess, Commitment, Excess', NoKey, 0)
    BY <1>2, <1>3, <2>1 DEF Outweigh
  <2>3. /\ Committed \in Nat /\ Excesses \in Nat /\ Committed' \in Nat /\ Excesses' \in Nat
        /\ Committed' + Excesses <= Committed + Excesses' + 0
    BY <1>10, <2>2
  <2> QED
    BY <1>2, <1>5, <1>6, <1>7, <1>8, <1>9, <2>3
<1>13. ASSUME NEW p \in Proc, BeginCall(p) PROVE Committed' <= Usable + Excesses'
  <2> DEFINE k == proc[p].key
  <2>1. /\ k \in Key /\ call[k].state \in {"absent", "planned"} /\ ~call[k].unavailable
        /\ entry[k] = Unreported /\ FitsBudget(k) /\ Estimate[k] \in Nat
        /\ k \notin Remote => Estimate[k] = 0
        /\ call' = [call EXCEPT ![k].state = "started"] /\ entry' = entry
    BY <1>1, <1>13, CostAssumption DEF BeginCall, Startable, KnownKeys, FreshRow, LedgerConsistent
  <2>2. /\ call'[k].state = "started" /\ call'[k].unavailable = call[k].unavailable
        /\ \A j \in Key \ {k} : call'[j] = call[j]
    BY <1>1, <2>1 DEF LedgerTypeOK, Row
  <2> HIDE DEF k
  <2>3. ASSUME NEW j \in Key, j # k PROVE Commitment'[j] = Commitment[j] /\ Excess'[j] = Excess[j]
    BY <2>1, <2>2, <2>3 DEF Commitment, Excess, ConfirmedCost, ReservedCost, Reserves, Overrun
  <2>4. Commitment[k] = 0 /\ Commitment'[k] = Estimate[k] /\ Excess'[k] = 0 /\ Excess[k] = 0
    BY <2>1, <2>2 DEF Commitment, Excess, ConfirmedCost, ReservedCost, Reserves, Overrun
  <2>5. Outweigh(Key, Commitment', Excess, Commitment, Excess', k, Estimate[k])
    BY <1>2, <1>3, <2>1, <2>3, <2>4 DEF Outweigh
  <2>6. /\ Committed \in Nat /\ Excesses \in Nat /\ Committed' \in Nat /\ Excesses' \in Nat
        /\ Committed' + Excesses <= Committed + Excesses' + Estimate[k]
    BY <1>10, <2>1, <2>5
  <2>7. Excesses' = Excesses
    <3>1. Excess' = Excess
      BY <1>2, <1>3, <2>3, <2>4
    <3>2. Outweigh(Key, Excess', Excess, Excess, Excess, k, 0)
      BY <1>2, <3>1 DEF Outweigh
    <3>3. Outweigh(Key, Excess, Excess, Excess', Excess, k, 0)
      BY <1>2, <3>1 DEF Outweigh
    <3>4. E1[Key] + E[Key] <= E[Key] + E[Key] + 0 /\ E1[Key] \in Nat /\ E[Key] \in Nat
      BY <1>2, <1>3, <1>6, <1>8, <3>2, SumsCompare
    <3>5. E[Key] + E[Key] <= E1[Key] + E[Key] + 0
      BY <1>2, <1>3, <1>6, <1>8, <3>3, SumsCompare
    <3> QED
      BY <1>6, <1>8, <3>4, <3>5
  <2>8. CASE k \in Remote
    <3>1. Committed + Estimate[k] <= Usable
      BY <2>1, <2>8 DEF FitsBudget
    <3> QED
      BY <1>2, <2>1, <2>6, <2>7, <3>1
  <2>9. CASE k \notin Remote
    BY <1>2, <1>9, <2>1, <2>6, <2>9
  <2> QED
    BY <2>8, <2>9
<1> QED
  BY <1>12, <1>13

(* Whatever is dispatched at the same time, frozen, lost in a crash or     *)
(* resolved late: the entries and reservations of the paid calls stay      *)
(* within the usable budget, but for bills beyond their estimate.          *)
THEOREM BudgetIsHonoured == Spec => []BudgetHonoured
<1>1. Init => BudgetHonoured
  <2> SUFFICES ASSUME Init PROVE BudgetHonoured
    OBVIOUS
  <2>1. PICK C : IsSum(Commitment, Key, C) /\ Committed = C[Key]
    BY LedgerSums DEF SumsOfTerms
  <2>2. PICK E : IsSum(Excess, Key, E) /\ Excesses = E[Key]
    BY LedgerSums DEF SumsOfTerms
  <2> DEFINE Zero == [k \in Key |-> 0]
             Zeros == [s \in SUBSET Key |-> 0]
  <2>3. LedgerTypeOK /\ IsFiniteSet(Key) /\ Usable \in Nat
    BY InitTyped, KeyAssumption, CostAssumption
  <2>4. Commitment \in [Key -> Nat] /\ Excess \in [Key -> Nat] /\ Zero \in [Key -> Nat]
    BY <2>3, AmountsTyped
  <2>5. IsSum(Zero, Key, Zeros)
    BY DEF IsSum, First, Rest
  <2>6. Outweigh(Key, Commitment, Zero, Excess, Zero, NoKey, 0)
    BY <2>4 DEF Outweigh, Init, Commitment, ConfirmedCost, ReservedCost, Reserves
  <2> HIDE DEF Zero, Zeros
  <2>7. /\ C[Key] \in Nat /\ E[Key] \in Nat /\ Zeros[Key] \in Nat
        /\ C[Key] + Zeros[Key] <= E[Key] + Zeros[Key] + 0
    BY <2>1, <2>2, <2>3, <2>4, <2>5, <2>6, SumsCompare
  <2> QED
    BY <2>1, <2>2, <2>3, <2>7 DEF BudgetHonoured, Excesses
<1>2. KeyInv /\ KeyInv' /\ BudgetHonoured /\ [Next]_vars => BudgetHonoured'
  BY BudgetStep
<1>3. RunInv /\ KeyInv => KeyInv
  OBVIOUS
<1> QED
  BY <1>1, <1>2, <1>3, LedgerInvariant, PTL DEF Spec
=============================================================================
