-------------------------- MODULE CallLedger_proofs --------------------------
(***************************************************************************)
(* The call ledger's promises, proved for every set of keys, processes and *)
(* commands, every budget and every bill.                                  *)
(***************************************************************************)
EXTENDS CallLedger, RunRow_proofs

(***************************************************************************)
(* Types.                                                                  *)
(***************************************************************************)
LedgerTypeOK ==
  /\ call \in [Key -> Row]
  /\ entry \in [Key -> Cost]
  /\ proc \in [Proc -> Invocation]
  /\ op \in [Operator -> Command]
  /\ wire \in [Key -> [sent : Nat, done : BOOLEAN, bill : Nat]]

\* The initial state of the tables and processes has its type.
LEMMA InitTyped == Init => LedgerTypeOK
<1> SUFFICES ASSUME Init PROVE LedgerTypeOK
  OBVIOUS
<1>1. /\ call \in [Key -> Row] /\ entry \in [Key -> Cost]
      /\ proc \in [Proc -> Invocation]
      /\ wire \in [Key -> [sent : Nat, done : BOOLEAN, bill : Nat]]
  BY DEF Init, Row, Cost, InvocationStates, Invocation, NoInvocation
<1>2. op \in [Operator -> Command]
  BY DEF Init, Command, NoCommand, Cost
<1>3. QED
  BY <1>1, <1>2 DEF LedgerTypeOK

\* What a result writes has the type of a row.
LEMMA WriteTyped ==
  ASSUME LedgerTypeOK, NEW k \in Key, NEW target \in InvocationStates, NEW c \in Cost,
         WriteResult(k, target, c)
  PROVE  call' \in [Key -> Row] /\ entry' \in [Key -> Cost]
<1>1. [call[k] EXCEPT !.state = target, !.cost = c, !.unavailable = (c = Unreported)] \in Row
  BY DEF LedgerTypeOK, Row
<1>2. call' \in [Key -> Row]
  BY <1>1 DEF LedgerTypeOK, WriteResult
<1>3. entry' \in [Key -> Cost]
  BY DEF LedgerTypeOK, WriteResult
<1>4. QED
  BY <1>2, <1>3

\* So does a change of state.
LEMMA MoveTyped ==
  ASSUME LedgerTypeOK, NEW k \in Key, NEW target \in InvocationStates,
         Transition(k, target)
  PROVE  call' \in [Key -> Row] /\ entry' \in [Key -> Cost]
  BY DEF LedgerTypeOK, Transition, Row

\* What an adapter reports of a cost is an amount or Unreported.
LEMMA ReportedTyped ==
  ASSUME LedgerTypeOK, NEW k \in Key PROVE Reported(k) \subseteq Cost
  BY DEF LedgerTypeOK, Reported, Cost

\* The steps of an invocation keep the types.
LEMMA InvokeTyped ==
  ASSUME LedgerTypeOK, NEW p \in Proc, proc[p].pc # "idle" => proc[p].key \in Key,
         InvokeStep(p) \/ Crash(p) \/ \E k \in Key : Check(p, k)
  PROVE  LedgerTypeOK'
<1>1. proc[p] \in Invocation /\ NoInvocation \in Invocation
  BY DEF LedgerTypeOK, Invocation, NoInvocation
<1>2. ASSUME NEW k \in Key, Check(p, k) PROVE LedgerTypeOK'
  <2>1. [pc |-> "checked", key |-> k, reuse |-> call[k].state = "planned"] \in Invocation
    BY DEF Invocation
  <2>2. QED
    BY <1>2, <2>1 DEF LedgerTypeOK, Check
<1>3. CASE BeginCall(p)
  <2>1. call' \in [Key -> Row]
    BY <1>3 DEF LedgerTypeOK, BeginCall, Row, InvocationStates
  <2>2. proc' \in [Proc -> Invocation]
    BY <1>3 DEF LedgerTypeOK, BeginCall, Invocation
  <2>3. QED
    BY <1>3, <2>1, <2>2 DEF LedgerTypeOK, BeginCall
<1>4. CASE BeginRefused(p)
  BY <1>1, <1>4 DEF LedgerTypeOK, BeginRefused
<1>5. CASE AdapterRefuses(p)
  <2>1. call' \in [Key -> Row] /\ entry' \in [Key -> Cost]
    BY <1>5, MoveTyped DEF LedgerTypeOK, AdapterRefuses, InvocationStates
  <2>2. QED
    BY <1>1, <1>5, <2>1 DEF LedgerTypeOK, AdapterRefuses
<1>6. CASE Send(p)
  BY <1>1, <1>6 DEF LedgerTypeOK, Send, Invocation
<1>7. CASE ReportId(p)
  BY <1>1, <1>7 DEF LedgerTypeOK, ReportId, Row
<1>8. CASE RaiseAfterSend(p)
  <2>1. call' \in [Key -> Row] /\ entry' \in [Key -> Cost]
    BY <1>8, MoveTyped DEF LedgerTypeOK, RaiseAfterSend, InvocationStates
  <2>2. QED
    BY <1>1, <1>8, <2>1 DEF LedgerTypeOK, RaiseAfterSend
<1>9. CASE RecordOutcome(p)
  <2>1. PICK target \in Outcomes(proc[p].key), c \in Reported(proc[p].key) :
               WriteResult(proc[p].key, target, c)
    BY <1>9 DEF RecordOutcome
  <2>2. call' \in [Key -> Row] /\ entry' \in [Key -> Cost]
    BY <1>9, <2>1, WriteTyped, ReportedTyped DEF RecordOutcome, Outcomes, InvocationStates
  <2>3. QED
    BY <1>1, <1>9, <2>2 DEF LedgerTypeOK, RecordOutcome
<1>10. CASE RecordRejected(p)
  BY <1>1, <1>10 DEF LedgerTypeOK, RecordRejected
<1>11. CASE Crash(p)
  BY <1>1, <1>11 DEF LedgerTypeOK, Crash
<1>12. QED
  BY <1>2, <1>3, <1>4, <1>5, <1>6, <1>7, <1>8, <1>9, <1>10, <1>11 DEF InvokeStep

\* The steps of a command keep the types.
LEMMA CommandTyped ==
  ASSUME LedgerTypeOK, NEW o \in Operator, op[o].pc = "resolving" => op[o].key \in Key,
         StopRun(o) \/ CommandStep(o) \/ QueryUnknown(o) \/ CommandCrash(o)
  PROVE  LedgerTypeOK'
<1>1. op[o] \in Command /\ NoCommand \in Command
  BY DEF LedgerTypeOK, Command, NoCommand, Cost
<1>2. CASE StopRun(o)
  <2>1. [NoCommand EXCEPT !.pc = "listing", !.held = Started] \in Command
    BY <1>1 DEF Command, Started
  <2>2. QED
    BY <1>2, <2>1 DEF LedgerTypeOK, StopRun
<1>3. CASE ListStarted(o)
  <2>1. [op[o] EXCEPT !.pc = IF Listed = {} THEN "done" ELSE "marking",
                      !.todo = Listed] \in Command
    BY <1>1 DEF Command, Listed, Started
  <2>2. QED
    BY <1>3, <2>1 DEF LedgerTypeOK, ListStarted
<1>4. CASE MarkUnknown(o)
  <2>1. PICK k \in op[o].todo :
          /\ Transition(k, "unknown")
          /\ op' = [op EXCEPT ![o] =
               [@ EXCEPT !.pc = IF op[o].todo = {k} THEN "done" ELSE "marking",
                         !.todo = op[o].todo \ {k}]]
          /\ UNCHANGED <<proc, wire>>
    BY <1>4 DEF MarkUnknown
  <2>2. [op[o] EXCEPT !.pc = IF op[o].todo = {k} THEN "done" ELSE "marking",
                      !.todo = op[o].todo \ {k}] \in Command
    BY <1>1 DEF Command
  <2>3. call' \in [Key -> Row] /\ entry' \in [Key -> Cost]
    BY <1>1, <2>1, MoveTyped DEF Command, InvocationStates
  <2>4. QED
    BY <2>1, <2>2, <2>3 DEF LedgerTypeOK
<1>5. CASE MarkRejected(o)
  <2>1. [op[o] EXCEPT !.pc = "aborted", !.todo = {}] \in Command
    BY <1>1 DEF Command
  <2>2. QED
    BY <1>5, <2>1 DEF LedgerTypeOK, MarkRejected
<1>6. CASE Resolve(o)
  <2>1. op[o].key \in Key /\ op[o].cost \in Cost
    BY <1>1, <1>6 DEF Command, Resolve
  <2>2. call' \in [Key -> Row] /\ entry' \in [Key -> Cost]
    BY <1>6, <2>1, WriteTyped DEF LedgerTypeOK, Resolve, InvocationStates
  <2>3. QED
    BY <1>1, <1>6, <2>2 DEF LedgerTypeOK, Resolve
<1>7. CASE QueryUnknown(o)
  <2>1. PICK k \in Key : \E c \in Reported(k) :
          op' = [op EXCEPT ![o] = [NoCommand EXCEPT !.pc = "resolving",
                                                    !.key = k, !.cost = c]]
    BY <1>7 DEF QueryUnknown
  <2>2. \A c \in Reported(k) :
          [NoCommand EXCEPT !.pc = "resolving", !.key = k, !.cost = c] \in Command
    BY <1>1, ReportedTyped DEF Command
  <2>3. QED
    BY <1>7, <2>1, <2>2 DEF LedgerTypeOK, QueryUnknown
<1>8. CASE CommandCrash(o)
  BY <1>1, <1>8 DEF LedgerTypeOK, CommandCrash
<1>9. QED
  BY <1>2, <1>3, <1>4, <1>5, <1>6, <1>7, <1>8 DEF CommandStep

\* The answer of the provider keeps the types.
LEMMA ProviderTyped ==
  ASSUME LedgerTypeOK, NEW k \in Key, ProviderDone(k) PROVE LedgerTypeOK'
<1>1. PICK b \in Nat : wire' = [wire EXCEPT ![k] = [@ EXCEPT !.done = TRUE, !.bill = b]]
  <2>1. (0..MaxBill) \subseteq Nat /\ {0} \subseteq Nat
    BY CostAssumption
  <2>2. QED
    BY <2>1 DEF ProviderDone
<1>2. [wire[k] EXCEPT !.done = TRUE, !.bill = b] \in [sent : Nat, done : BOOLEAN, bill : Nat]
  BY DEF LedgerTypeOK
<1>3. QED
  BY <1>1, <1>2 DEF LedgerTypeOK, ProviderDone

-----------------------------------------------------------------------------
(***************************************************************************)
(* What the transactions do to a row, field by field.                      *)
(***************************************************************************)
LEMMA WriteEffect ==
  ASSUME LedgerTypeOK, NEW k \in Key, NEW target, NEW c, WriteResult(k, target, c)
  PROVE  /\ target \in InvocationTransitions[call[k].state] /\ call[k].state # "absent"
         /\ call'[k].state = target
         /\ call'[k].cost = c
         /\ call'[k].unavailable = (c = Unreported)
         /\ call'[k].providerId = call[k].providerId
         /\ entry'[k] = IF Charges(target, c) THEN c ELSE entry[k]
         /\ \A j \in Key \ {k} : call'[j] = call[j] /\ entry'[j] = entry[j]
<1>1. call[k] \in Row /\ call \in [Key -> Row] /\ entry \in [Key -> Cost]
  BY DEF LedgerTypeOK
<1>2. /\ CanMove(k, target)
      /\ call' = [call EXCEPT ![k] = [@ EXCEPT !.state = target, !.cost = c,
                                               !.unavailable = (c = Unreported)]]
      /\ entry' = IF Charges(target, c) THEN [entry EXCEPT ![k] = c] ELSE entry
  BY DEF WriteResult, CanWrite
<1>3. call'[k] = [call[k] EXCEPT !.state = target, !.cost = c,
                                 !.unavailable = (c = Unreported)]
  BY <1>1, <1>2
<1>4. /\ call'[k].state = target /\ call'[k].cost = c
      /\ call'[k].unavailable = (c = Unreported)
      /\ call'[k].providerId = call[k].providerId
  BY <1>1, <1>3 DEF Row
<1>5. \A j \in Key \ {k} : call'[j] = call[j] /\ entry'[j] = entry[j]
  BY <1>1, <1>2
<1>6. entry'[k] = IF Charges(target, c) THEN c ELSE entry[k]
  BY <1>1, <1>2
<1>7. QED
  BY <1>2, <1>4, <1>5, <1>6 DEF CanMove

\* transition_call changes the state of one row and nothing else.
LEMMA MoveEffect ==
  ASSUME LedgerTypeOK, NEW k \in Key, NEW target, Transition(k, target)
  PROVE  /\ target \in InvocationTransitions[call[k].state] /\ call[k].state # "absent"
         /\ call'[k].state = target
         /\ call'[k].cost = call[k].cost
         /\ call'[k].unavailable = call[k].unavailable
         /\ call'[k].providerId = call[k].providerId
         /\ entry' = entry
         /\ \A j \in Key \ {k} : call'[j] = call[j]
<1>1. call[k] \in Row /\ call \in [Key -> Row]
  BY DEF LedgerTypeOK
<1>2. CanMove(k, target) /\ call' = [call EXCEPT ![k].state = target] /\ entry' = entry
  BY DEF Transition
<1>3. call'[k] = [call[k] EXCEPT !.state = target] /\ \A j \in Key \ {k} : call'[j] = call[j]
  BY <1>1, <1>2
<1>4. QED
  BY <1>1, <1>2, <1>3 DEF Row, CanMove

\* From a settled state, and from planned, no outcome can be written.
LEMMA Reach ==
  ASSUME NEW s \in InvocationStates, NEW target \in InvocationTransitions[s],
         target \in {"completed", "failed", "unknown"}
  PROVE  s \in {"started", "unknown"} /\ (target = "unknown" => s = "started")
  BY DEF InvocationTransitions, InvocationStates

-----------------------------------------------------------------------------
(***************************************************************************)
(* The inductive invariant of the request keys.                            *)
(***************************************************************************)
Active(p) == proc[p].pc \in {"begun", "waiting"}

KnownKeys ==
  /\ \A p \in Proc : proc[p].pc # "idle" => proc[p].key \in Key
  /\ \A o \in Operator : op[o].pc = "resolving" => op[o].key \in Key

\* Nobody has worked on a key whose call has not begun.
FreshRow ==
  \A k \in Key : call[k].state \in {"absent", "planned"} =>
    /\ call[k].cost = Unreported /\ ~call[k].unavailable /\ ~call[k].providerId
    /\ wire[k].sent = 0
    /\ \A p \in Proc : Active(p) => proc[p].key # k

\* begin_call hands a key to one process, once.
OneCaller ==
  \A p, q \in Proc : Active(p) /\ Active(q) /\ proc[p].key = proc[q].key => p = q

BegunIsUnsent ==
  \A p \in Proc : proc[p].pc = "begun" =>
    wire[proc[p].key].sent = 0 /\ ~call[proc[p].key].providerId

\* Before it has a request id a call can be frozen but not settled by others.
UnidentifiedIsOpen ==
  \A p \in Proc : Active(p) /\ ~call[proc[p].key].providerId =>
    call[proc[p].key].state \in {"started", "unknown"}

\* A call that is somebody's has no cost yet, unless it is settled.
OpenIsUncharged ==
  \A p \in Proc : Active(p) /\ call[proc[p].key].state \in {"started", "unknown"} =>
    call[proc[p].key].cost = Unreported

\* resolve-call asks about calls that the provider can identify.
AskedIsIdentified ==
  \A o \in Operator : op[o].pc = "resolving" => call[op[o].key].providerId

NeverCancelled == \A k \in Key : call[k].state # "cancelled"

KeyFacts ==
  /\ KnownKeys /\ FreshRow /\ OneCaller /\ BegunIsUnsent /\ UnidentifiedIsOpen
  /\ OpenIsUncharged /\ AskedIsIdentified /\ NeverCancelled
  /\ AtMostOnceSent /\ LedgerConsistent

KeyInv == LedgerTypeOK /\ KeyFacts

\* A fresh ledger satisfies the invariant.
LEMMA KeyInvInit == Init => KeyInv
<1> SUFFICES ASSUME Init PROVE KeyInv
  OBVIOUS
<1>1. LedgerTypeOK
  BY InitTyped
<1>2. KeyFacts
  BY DEF KeyFacts, Init, NoInvocation, NoCommand, KnownKeys, FreshRow, OneCaller,
         BegunIsUnsent, UnidentifiedIsOpen, OpenIsUncharged, AskedIsIdentified,
         NeverCancelled, AtMostOnceSent, LedgerConsistent, Active
<1>3. QED
  BY <1>1, <1>2 DEF KeyInv

\* A step of a process that settles its call by its state alone.
LEMMA SettleFacts ==
  ASSUME KeyInv, NEW p \in Proc, AdapterRefuses(p) \/ RaiseAfterSend(p)
  PROVE  KeyFacts'
<1> DEFINE k == proc[p].key
<1>1. /\ LedgerTypeOK /\ KeyFacts /\ Active(p) /\ k \in Key
      /\ Transition(k, "failed") \/ (~CanMove(k, "failed") /\ UNCHANGED <<call, entry>>)
      /\ proc' = [proc EXCEPT ![p] = NoInvocation]
      /\ UNCHANGED <<op, wire>>
  BY DEF KeyInv, KeyFacts, KnownKeys, AdapterRefuses, RaiseAfterSend, Active
<1>2. /\ proc'[p] = NoInvocation
      /\ \A q \in Proc \ {p} : proc'[q] = proc[q]
  BY <1>1 DEF LedgerTypeOK
<1> HIDE DEF k
<1>3. CASE Transition(k, "failed")
  <2>1. /\ "failed" \in InvocationTransitions[call[k].state] /\ call[k].state # "absent"
        /\ call'[k].state = "failed" /\ call'[k].cost = call[k].cost
        /\ call'[k].providerId = call[k].providerId
        /\ entry' = entry
        /\ \A j \in Key \ {k} : call'[j] = call[j]
    BY <1>1, <1>3, MoveEffect
  <2>2. call[k].state \in {"started", "unknown"}
    BY <1>1, <2>1, Reach DEF LedgerTypeOK, Row
  <2>3. /\ call[k].cost = Unreported
        /\ \A q \in Proc \ {p} : Active(q) => proc[q].key # k
    BY <1>1, <2>2 DEF KeyFacts, OpenIsUncharged, OneCaller, k
  <2>4. QED
    BY <1>1, <1>2, <2>1, <2>2, <2>3
       DEF KeyFacts, KnownKeys, FreshRow, OneCaller, BegunIsUnsent, UnidentifiedIsOpen,
           OpenIsUncharged, AskedIsIdentified, NeverCancelled, AtMostOnceSent,
           LedgerConsistent, Active, NoInvocation
<1>4. CASE UNCHANGED <<call, entry>>
  BY <1>1, <1>2, <1>4
     DEF KeyFacts, KnownKeys, FreshRow, OneCaller, BegunIsUnsent, UnidentifiedIsOpen,
         OpenIsUncharged, AskedIsIdentified, NeverCancelled, AtMostOnceSent,
         LedgerConsistent, Active, NoInvocation
<1>5. QED
  BY <1>1, <1>3, <1>4

\* begin_call keeps the facts: it starts a row that was fresh and that nobody works on.
LEMMA BeginFacts ==
  ASSUME KeyInv, NEW p \in Proc, BeginCall(p) PROVE KeyFacts'
<1> DEFINE k == proc[p].key
<1>1. /\ LedgerTypeOK /\ KeyFacts /\ k \in Key
      /\ call[k].state \in {"absent", "planned"}
      /\ call' = [call EXCEPT ![k].state = "started"]
      /\ proc' = [proc EXCEPT ![p].pc = "begun"]
      /\ UNCHANGED <<entry, op, wire>>
  BY DEF KeyInv, KeyFacts, KnownKeys, BeginCall, Startable
<1>2. /\ proc'[p].pc = "begun" /\ proc'[p].key = k
      /\ \A q \in Proc \ {p} : proc'[q] = proc[q]
  BY <1>1 DEF LedgerTypeOK, Invocation
<1>3. /\ call'[k].state = "started" /\ call'[k].cost = call[k].cost
      /\ call'[k].providerId = call[k].providerId
      /\ call'[k].unavailable = call[k].unavailable
      /\ \A j \in Key \ {k} : call'[j] = call[j]
  BY <1>1 DEF LedgerTypeOK, Row
<1> HIDE DEF k
<1>4. QED
  BY <1>1, <1>2, <1>3
     DEF KeyFacts, KnownKeys, FreshRow, OneCaller, BegunIsUnsent, UnidentifiedIsOpen,
         OpenIsUncharged, AskedIsIdentified, NeverCancelled, AtMostOnceSent,
         LedgerConsistent, Active

\* A result is written down, by the process or by resolve-call: the row was
\* open, and for a process the cost it had was none.
LEMMA WriteFacts ==
  ASSUME KeyInv, NEW k \in Key, NEW target \in {"completed", "failed", "unknown"}, NEW c,
         WriteResult(k, target, c)
  PROVE  /\ call[k].state \in {"started", "unknown"} /\ entry[k] = Unreported
         /\ FreshRow' <=> \A j \in Key : call[j].state \in {"absent", "planned"} =>
              wire'[j].sent = 0 /\ \A p \in Proc : Active(p)' => proc'[p].key # j
         /\ NeverCancelled' /\ LedgerConsistent'
<1>1. LedgerTypeOK /\ KeyFacts
  BY DEF KeyInv
<1>2. /\ target \in InvocationTransitions[call[k].state] /\ call[k].state # "absent"
      /\ call'[k].state = target /\ call'[k].cost = c
      /\ call'[k].providerId = call[k].providerId
      /\ entry'[k] = IF Charges(target, c) THEN c ELSE entry[k]
      /\ \A j \in Key \ {k} : call'[j] = call[j] /\ entry'[j] = entry[j]
  BY <1>1, WriteEffect
<1>3. call[k].state \in {"started", "unknown"}
  BY <1>1, <1>2, Reach DEF LedgerTypeOK, Row
<1>4. entry[k] = Unreported
  BY <1>1, <1>3 DEF KeyFacts, LedgerConsistent
<1>5. FreshRow' <=> \A j \in Key : call[j].state \in {"absent", "planned"} =>
        wire'[j].sent = 0 /\ \A p \in Proc : Active(p)' => proc'[p].key # j
  BY <1>1, <1>2, <1>3 DEF KeyFacts, FreshRow
<1>6. NeverCancelled' /\ LedgerConsistent'
  BY <1>1, <1>2, <1>4 DEF KeyFacts, NeverCancelled, LedgerConsistent, Charges
<1>7. QED
  BY <1>3, <1>4, <1>5, <1>6

\* Recording an outcome keeps them: it writes an open row and frees its process.
LEMMA OutcomeFacts ==
  ASSUME KeyInv, NEW p \in Proc, RecordOutcome(p) PROVE KeyFacts'
<1> DEFINE k == proc[p].key
<1>1. /\ LedgerTypeOK /\ KeyFacts /\ Active(p) /\ k \in Key /\ call[k].providerId
      /\ proc' = [proc EXCEPT ![p] = NoInvocation]
      /\ UNCHANGED <<op, wire>>
  BY DEF KeyInv, KeyFacts, KnownKeys, RecordOutcome, Active
<1>2. PICK target \in {"completed", "failed", "unknown"}, c \in Reported(k) : WriteResult(k, target, c)
  BY DEF RecordOutcome, Outcomes
<1>3. /\ proc'[p] = NoInvocation
      /\ \A q \in Proc \ {p} : proc'[q] = proc[q]
  BY <1>1 DEF LedgerTypeOK
<1>4. \A q \in Proc \ {p} : Active(q) => proc[q].key # k
  BY <1>1 DEF KeyFacts, OneCaller
<1> HIDE DEF k
<1>5. /\ call'[k].providerId = call[k].providerId
      /\ \A j \in Key \ {k} : call'[j] = call[j]
  BY <1>1, <1>2, WriteEffect
<1>6. FreshRow' /\ NeverCancelled' /\ LedgerConsistent'
  <2>1. \A j \in Key : call[j].state \in {"absent", "planned"} =>
          wire'[j].sent = 0 /\ \A q \in Proc : Active(q)' => proc'[q].key # j
    BY <1>1, <1>3 DEF KeyFacts, FreshRow, Active, NoInvocation
  <2>2. QED
    BY <1>1, <1>2, <2>1, WriteFacts
<1>7. KnownKeys' /\ OneCaller' /\ AtMostOnceSent'
  BY <1>1, <1>3 DEF KeyFacts, KnownKeys, OneCaller, AtMostOnceSent, Active, NoInvocation
<1>8. BegunIsUnsent' /\ UnidentifiedIsOpen' /\ OpenIsUncharged'
  BY <1>1, <1>3, <1>4, <1>5
     DEF KeyFacts, KnownKeys, BegunIsUnsent, UnidentifiedIsOpen, OpenIsUncharged,
         Active, NoInvocation
<1>9. AskedIsIdentified'
  BY <1>1, <1>5 DEF KeyFacts, KnownKeys, AskedIsIdentified
<1>10. QED
  BY <1>6, <1>7, <1>8, <1>9 DEF KeyFacts

\* Sending keeps them: the one caller of a key sends it, and nothing was sent before.
LEMMA SendFacts ==
  ASSUME KeyInv, NEW p \in Proc, Send(p) PROVE KeyFacts'
<1> DEFINE k == proc[p].key
<1>1. /\ LedgerTypeOK /\ KeyFacts /\ k \in Key /\ proc[p].pc = "begun"
      /\ wire' = [wire EXCEPT ![k].sent = @ + 1]
      /\ proc' = [proc EXCEPT ![p].pc = "waiting"]
      /\ UNCHANGED <<call, entry, op>>
  BY DEF KeyInv, KeyFacts, KnownKeys, Send
<1>2. /\ proc'[p].pc = "waiting" /\ proc'[p].key = k
      /\ \A q \in Proc \ {p} : proc'[q] = proc[q]
  BY <1>1 DEF LedgerTypeOK, Invocation
<1>3. /\ wire'[k].sent = 1
      /\ \A j \in Key \ {k} : wire'[j] = wire[j]
  BY <1>1 DEF LedgerTypeOK, KeyFacts, BegunIsUnsent
<1> HIDE DEF k
<1>4. \A q \in Proc \ {p} : Active(q) => proc[q].key # k
  BY <1>1 DEF KeyFacts, OneCaller, Active, k
<1>5. call[k].state \notin {"absent", "planned"}
  BY <1>1 DEF KeyFacts, FreshRow, Active, k
<1>6. QED
  BY <1>1, <1>2, <1>3, <1>4, <1>5
     DEF KeyFacts, KnownKeys, FreshRow, OneCaller, BegunIsUnsent, UnidentifiedIsOpen,
         OpenIsUncharged, AskedIsIdentified, NeverCancelled, AtMostOnceSent,
         LedgerConsistent, Active, k

\* Recording the provider's request id keeps them.
LEMMA ReportIdFacts ==
  ASSUME KeyInv, NEW p \in Proc, ReportId(p) PROVE KeyFacts'
<1> DEFINE k == proc[p].key
<1>1. /\ LedgerTypeOK /\ KeyFacts /\ k \in Key /\ proc[p].pc = "waiting"
      /\ call' = [call EXCEPT ![k].providerId = TRUE]
      /\ UNCHANGED <<entry, proc, op, wire>>
  BY DEF KeyInv, KeyFacts, KnownKeys, ReportId
<1>2. /\ call'[k].providerId /\ call'[k].state = call[k].state
      /\ call'[k].cost = call[k].cost
      /\ \A j \in Key \ {k} : call'[j] = call[j]
  BY <1>1 DEF LedgerTypeOK, Row
<1>3. \A q \in Proc \ {p} : Active(q) => proc[q].key # k
  BY <1>1 DEF KeyFacts, OneCaller, Active
<1>4. call[k].state \notin {"absent", "planned"}
  BY <1>1 DEF KeyFacts, FreshRow, Active
<1> HIDE DEF k
<1>5. QED
  BY <1>1, <1>2, <1>3, <1>4
     DEF KeyFacts, KnownKeys, FreshRow, OneCaller, BegunIsUnsent, UnidentifiedIsOpen,
         OpenIsUncharged, AskedIsIdentified, NeverCancelled, AtMostOnceSent,
         LedgerConsistent, Active, k

\* The other steps of a process change nothing but its own record.
LEMMA QuietFacts ==
  ASSUME KeyInv, NEW p \in Proc,
         BeginRefused(p) \/ RecordRejected(p) \/ Crash(p) \/ \E k \in Key : Check(p, k)
  PROVE  KeyFacts'
<1>1. LedgerTypeOK /\ KeyFacts /\ UNCHANGED <<call, entry, op, wire>>
  BY DEF KeyInv, BeginRefused, RecordRejected, Crash, Check
<1>2. /\ \A q \in Proc \ {p} : proc'[q] = proc[q]
      /\ proc'[p].pc \in {"idle", "checked"}
      /\ proc'[p].pc # "idle" => proc'[p].key \in Key
  BY <1>1 DEF LedgerTypeOK, BeginRefused, RecordRejected, Crash, Check, NoInvocation
<1>3. QED
  BY <1>1, <1>2
     DEF KeyFacts, KnownKeys, FreshRow, OneCaller, BegunIsUnsent, UnidentifiedIsOpen,
         OpenIsUncharged, AskedIsIdentified, NeverCancelled, AtMostOnceSent,
         LedgerConsistent, Active

\* What the commands do to their own record does not concern the keys, but
\* for the call that is resolved.
LEMMA CommandQuietFacts ==
  ASSUME KeyInv, NEW o \in Operator,
         StopRun(o) \/ ListStarted(o) \/ MarkRejected(o) \/ QueryUnknown(o) \/ CommandCrash(o)
  PROVE  KeyFacts'
<1>1. LedgerTypeOK /\ KeyFacts /\ UNCHANGED <<call, entry, proc, wire>>
  BY DEF KeyInv, StopRun, ListStarted, MarkRejected, QueryUnknown, CommandCrash
<1>2. \A x \in Operator \ {o} : op'[x] = op[x]
  BY <1>1 DEF LedgerTypeOK, StopRun, ListStarted, MarkRejected, QueryUnknown, CommandCrash
<1>3. op'[o].pc = "resolving" => op'[o].key \in Key /\ call[op'[o].key].providerId
  <2>1. op[o] \in Command /\ op \in [Operator -> Command]
    BY <1>1 DEF LedgerTypeOK
  <2>2. CASE StopRun(o)
    BY <2>1, <2>2 DEF StopRun, NoCommand
  <2>3. CASE ListStarted(o)
    BY <2>1, <2>3 DEF ListStarted, Command
  <2>4. CASE MarkRejected(o)
    BY <2>1, <2>4 DEF MarkRejected, Command
  <2>5. CASE QueryUnknown(o)
    <3>1. PICK k \in Key : /\ call[k].providerId
                           /\ \E c \in Reported(k) :
                                op' = [op EXCEPT ![o] = [NoCommand EXCEPT !.pc = "resolving",
                                                                          !.key = k, !.cost = c]]
      BY <2>5 DEF QueryUnknown
    <3>2. PICK c : op' = [op EXCEPT ![o] = [NoCommand EXCEPT !.pc = "resolving",
                                                             !.key = k, !.cost = c]]
      BY <3>1
    <3>3. op'[o].key = k
      BY <2>1, <3>2 DEF NoCommand
    <3>4. QED
      BY <3>1, <3>3
  <2>6. CASE CommandCrash(o)
    BY <2>1, <2>6 DEF CommandCrash, NoCommand
  <2>7. QED
    BY <2>2, <2>3, <2>4, <2>5, <2>6
<1>4. KnownKeys' /\ AskedIsIdentified'
  BY <1>1, <1>2, <1>3 DEF KeyFacts, KnownKeys, AskedIsIdentified
<1>5. QED
  BY <1>1, <1>4
     DEF KeyFacts, FreshRow, OneCaller, BegunIsUnsent, UnidentifiedIsOpen,
         OpenIsUncharged, NeverCancelled, AtMostOnceSent, LedgerConsistent, Active

\* A freeze keeps them: it turns a STARTED row into an UNKNOWN one.
LEMMA MarkFacts ==
  ASSUME KeyInv, NEW o \in Operator, MarkUnknown(o) PROVE KeyFacts'
<1>1. LedgerTypeOK /\ KeyFacts /\ UNCHANGED <<proc, wire>> /\ op[o].pc = "marking"
  BY DEF KeyInv, MarkUnknown
<1>2. PICK k \in op[o].todo :
        /\ Transition(k, "unknown")
        /\ op' = [op EXCEPT ![o] =
             [@ EXCEPT !.pc = IF op[o].todo = {k} THEN "done" ELSE "marking",
                       !.todo = op[o].todo \ {k}]]
  BY DEF MarkUnknown
<1>3. k \in Key
  BY <1>1 DEF LedgerTypeOK, Command
<1>4. /\ "unknown" \in InvocationTransitions[call[k].state] /\ call[k].state # "absent"
      /\ call'[k].state = "unknown" /\ call'[k].cost = call[k].cost
      /\ call'[k].providerId = call[k].providerId
      /\ entry' = entry
      /\ \A j \in Key \ {k} : call'[j] = call[j]
  BY <1>1, <1>2, <1>3, MoveEffect
<1>5. call[k].state = "started"
  BY <1>1, <1>3, <1>4, Reach DEF LedgerTypeOK, Row
<1>6. /\ op'[o].pc # "resolving"
      /\ \A x \in Operator \ {o} : op'[x] = op[x]
  BY <1>1, <1>2 DEF LedgerTypeOK, Command
<1>7. KnownKeys' /\ AskedIsIdentified'
  BY <1>1, <1>3, <1>4, <1>6 DEF KeyFacts, KnownKeys, AskedIsIdentified
<1>8. FreshRow' /\ NeverCancelled' /\ LedgerConsistent'
  BY <1>1, <1>3, <1>4, <1>5 DEF KeyFacts, FreshRow, NeverCancelled, LedgerConsistent, Active
<1>9. BegunIsUnsent' /\ UnidentifiedIsOpen' /\ OpenIsUncharged'
  BY <1>1, <1>3, <1>4, <1>5
     DEF KeyFacts, KnownKeys, BegunIsUnsent, UnidentifiedIsOpen, OpenIsUncharged, Active
<1>10. QED
  BY <1>1, <1>7, <1>8, <1>9 DEF KeyFacts, OneCaller, AtMostOnceSent, Active

\* A resolution keeps them: it settles a row that bears a request id.
LEMMA ResolveFacts ==
  ASSUME KeyInv, NEW o \in Operator, Resolve(o) PROVE KeyFacts'
<1> DEFINE k == op[o].key
           c == op[o].cost
<1>1. /\ LedgerTypeOK /\ KeyFacts /\ k \in Key /\ call[k].providerId
      /\ WriteResult(k, "completed", c) \/ UNCHANGED <<call, entry>>
      /\ op' = [op EXCEPT ![o] = NoCommand]
      /\ UNCHANGED <<proc, wire>>
  BY DEF KeyInv, KeyFacts, KnownKeys, AskedIsIdentified, Resolve
<1>2. op'[o] = NoCommand /\ \A x \in Operator \ {o} : op'[x] = op[x]
  BY <1>1 DEF LedgerTypeOK
<1> HIDE DEF k, c
<1>3. CASE WriteResult(k, "completed", c)
  <2>1. /\ call'[k].state = "completed"
        /\ call'[k].providerId = call[k].providerId
        /\ \A j \in Key \ {k} : call'[j] = call[j]
    BY <1>1, <1>3, WriteEffect
  <2>2. FreshRow' /\ NeverCancelled' /\ LedgerConsistent'
    <3>1. \A j \in Key : call[j].state \in {"absent", "planned"} =>
            wire'[j].sent = 0 /\ \A p \in Proc : Active(p)' => proc'[p].key # j
      BY <1>1 DEF KeyFacts, FreshRow, Active
    <3>2. QED
      BY <1>1, <1>3, <3>1, WriteFacts
  <2>3. KnownKeys' /\ AskedIsIdentified'
    <3>1. \A x \in Operator : op'[x].pc = "resolving" => x # o /\ op'[x] = op[x]
      BY <1>2 DEF NoCommand
    <3>2. KnownKeys'
      BY <1>1, <3>1 DEF KeyFacts, KnownKeys
    <3>3. \A j \in Key : call'[j].providerId = call[j].providerId
      BY <2>1
    <3>4. AskedIsIdentified'
      BY <1>1, <3>1, <3>3 DEF KeyFacts, KnownKeys, AskedIsIdentified
    <3>5. QED
      BY <3>2, <3>4
  <2>4. BegunIsUnsent' /\ UnidentifiedIsOpen' /\ OpenIsUncharged'
    BY <1>1, <2>1
       DEF KeyFacts, KnownKeys, BegunIsUnsent, UnidentifiedIsOpen, OpenIsUncharged, Active
  <2>5. QED
    BY <1>1, <2>2, <2>3, <2>4 DEF KeyFacts, OneCaller, AtMostOnceSent, Active
<1>4. CASE UNCHANGED <<call, entry>>
  BY <1>1, <1>2, <1>4
     DEF KeyFacts, KnownKeys, FreshRow, OneCaller, BegunIsUnsent, UnidentifiedIsOpen,
         OpenIsUncharged, AskedIsIdentified, NeverCancelled, AtMostOnceSent,
         LedgerConsistent, Active, NoCommand
<1>5. QED
  BY <1>1, <1>3, <1>4

\* The provider answers.
LEMMA ProviderFacts ==
  ASSUME KeyInv, NEW k \in Key, ProviderDone(k) PROVE KeyFacts'
<1>1. LedgerTypeOK /\ KeyFacts /\ UNCHANGED <<call, entry, proc, op>>
  BY DEF KeyInv, ProviderDone
<1>2. PICK b : wire' = [wire EXCEPT ![k] = [@ EXCEPT !.done = TRUE, !.bill = b]]
  BY DEF ProviderDone
<1>3. \A j \in Key : wire'[j].sent = wire[j].sent
  BY <1>1, <1>2 DEF LedgerTypeOK
<1>4. QED
  BY <1>1, <1>3
     DEF KeyFacts, KnownKeys, FreshRow, OneCaller, BegunIsUnsent, UnidentifiedIsOpen,
         OpenIsUncharged, AskedIsIdentified, NeverCancelled, AtMostOnceSent,
         LedgerConsistent, Active

\* Every step keeps the invariant of the keys.
LEMMA KeyInvStep == KeyInv /\ [Next]_vars => KeyInv'
<1> SUFFICES ASSUME KeyInv, [Next]_vars PROVE KeyInv'
  OBVIOUS
<1>1. LedgerTypeOK /\ KnownKeys
  BY DEF KeyInv, KeyFacts
<1>2. ASSUME NEW p \in Proc, (\E k \in Key : Check(p, k)) \/ InvokeStep(p) \/ Crash(p)
      PROVE  KeyInv'
  <2>1. LedgerTypeOK'
    BY <1>1, <1>2, InvokeTyped DEF KnownKeys
  <2>2. KeyFacts'
    BY <1>2, QuietFacts, BeginFacts, SettleFacts, SendFacts, ReportIdFacts, OutcomeFacts
       DEF InvokeStep
  <2>3. QED
    BY <2>1, <2>2 DEF KeyInv
<1>3. ASSUME NEW k \in Key, ProviderDone(k) PROVE KeyInv'
  BY <1>1, <1>3, ProviderTyped, ProviderFacts DEF KeyInv
<1>4. ASSUME NEW o \in Operator,
             StopRun(o) \/ CommandStep(o) \/ QueryUnknown(o) \/ CommandCrash(o)
      PROVE  KeyInv'
  <2>1. LedgerTypeOK'
    BY <1>1, <1>4, CommandTyped DEF KnownKeys
  <2>2. KeyFacts'
    BY <1>4, CommandQuietFacts, MarkFacts, ResolveFacts DEF CommandStep
  <2>3. QED
    BY <2>1, <2>2 DEF KeyInv
<1>5. ASSUME UNCHANGED ledgerVars PROVE KeyInv'
  BY <1>5 DEF ledgerVars, KeyInv, LedgerTypeOK,
         KeyFacts, KnownKeys, FreshRow, OneCaller, BegunIsUnsent, UnidentifiedIsOpen,
         OpenIsUncharged, AskedIsIdentified, NeverCancelled, AtMostOnceSent,
         LedgerConsistent, Active
<1>6. QED
  BY <1>2, <1>3, <1>4, <1>5 DEF Next, RunStep, vars, ledgerVars

-----------------------------------------------------------------------------
(***************************************************************************)
(* The theorems.                                                           *)
(***************************************************************************)
LEMMA RowStep == [Next]_vars => [RunNext]_runVars
<1> SUFFICES ASSUME Next PROVE [RunNext]_runVars
  BY DEF vars, runVars
<1>1. ASSUME NEW o \in Operator, StopRun(o) PROVE RunNext
  BY <1>1 DEF StopRun, RunNext, TerminalRunStates
<1>2. QED
  BY <1>1 DEF Next, RunStep, InvokeStep, CommandStep, Check, BeginCall, BeginRefused,
         AdapterRefuses, Send, ReportId, RaiseAfterSend, RecordOutcome, RecordRejected,
         Crash, ProviderDone, ListStarted, MarkUnknown, MarkRejected, QueryUnknown,
         Resolve, CommandCrash

(* The ledger's invariant, and the run's, hold in every reachable state.   *)
THEOREM LedgerInvariant == Spec => [](RunInv /\ KeyInv)
<1>1. Init => RunInv /\ KeyInv
  BY RunInvInit, KeyInvInit DEF Init
<1>2. (RunInv /\ KeyInv) /\ [Next]_vars => (RunInv /\ KeyInv)'
  BY RunInvStep, KeyInvStep, RowStep
<1>3. QED
  BY <1>1, <1>2, PTL DEF Spec

(* Every row of model_calls and cost_entries, and what each process holds, *)
(* has its type; what an adapter reports is never booked as anything else  *)
(* than a cost.                                                            *)
THEOREM TypeCorrect == Spec => []TypeOK
<1>1. RunInv /\ KeyInv => TypeOK
  BY DEF RunInv, KeyInv, LedgerTypeOK, TypeOK
<1>2. QED
  BY <1>1, LedgerInvariant, PTL

(* No sequence of retries, freezes, crashes and resolutions sends a        *)
(* request key to the provider twice.                                      *)
THEOREM SentAtMostOnce == Spec => []AtMostOnceSent
<1>1. RunInv /\ KeyInv => AtMostOnceSent
  BY DEF KeyInv, KeyFacts
<1>2. QED
  BY <1>1, LedgerInvariant, PTL

(* model_calls and cost_entries agree on what every call has cost.         *)
THEOREM TablesAgree == Spec => []LedgerConsistent
<1>1. RunInv /\ KeyInv => LedgerConsistent
  BY DEF KeyInv, KeyFacts
<1>2. QED
  BY <1>1, LedgerInvariant, PTL

(* A finished run's row never changes again, whatever invocations and      *)
(* commands do.                                                            *)
THEOREM LedgerKeepsVerdict == Spec => VerdictFinal
<1>1. RunInv /\ [RunNext]_runVars => [finished => UNCHANGED runVars]_runVars
  BY FinishedStep
<1>2. QED
  BY <1>1, RowStep, LedgerInvariant, PTL DEF Spec, VerdictFinal
=============================================================================
