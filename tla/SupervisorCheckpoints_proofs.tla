-------------------- MODULE SupervisorCheckpoints_proofs --------------------
(* Proofs about SupervisorCheckpoints, for any notifiers, supervisors,     *)
(* notices and bounds.                                                     *)
EXTENDS SupervisorCheckpoints, SequenceTheorems, FiniteSetTheorems, TLAPS

\* A row is added, or one row is written.
Adds(row) ==
  /\ rows' \in Seq(Row) /\ DOMAIN rows' = 1 .. Len(rows) + 1
  /\ Len(rows') = Len(rows) + 1
  /\ \A q \in DOMAIN rows : rows'[q] = rows[q]
  /\ rows'[Len(rows) + 1] = row

Writes(r, row) ==
  /\ rows' \in Seq(Row) /\ DOMAIN rows' = DOMAIN rows /\ Len(rows') = Len(rows)
  /\ \A q \in DOMAIN rows : q # r => rows'[q] = rows[q]
  /\ rows'[r] = row

NewRow(notice, event, n) ==
  [notice |-> notice, event |-> event, decision |-> Undecided,
   stands |-> {n}, known |-> {}]

\* What Record does to the table and to the event log.
Recorded(notice, n) ==
  \/ \E r \in Repeated(notice) :
       /\ Writes(r, [rows[r] EXCEPT !.stands = @ \cup {n}])
       /\ events' = events
  \/ /\ Repeated(notice) = {} /\ Len(rows) < MaxCheckpoints
     /\ Adds(NewRow(notice, events, n))
     /\ events' = events + 1
  \/ /\ Repeated(notice) = {} /\ Len(rows) >= MaxCheckpoints /\ Sentinel = {}
     /\ Adds(NewRow(Limit, events + 1, n))
     /\ events' = events + 2
  \/ /\ Repeated(notice) = {} /\ Len(rows) >= MaxCheckpoints
     /\ \E r \in Sentinel :
          /\ Writes(r, [rows[r] EXCEPT !.event = events + 1, !.decision = Undecided,
                                       !.stands = @ \cup {n}, !.known = {}])
          /\ events' = events + 2

(* The rows of a table, one by one.                                        *)
LEMMA RowFacts ==
  ASSUME rows \in Seq(Row)
  PROVE  /\ DOMAIN rows = 1 .. Len(rows) /\ Len(rows) \in Nat
         /\ \A r \in DOMAIN rows : rows[r] \in Row
  BY LenProperties, ElementOfSeq

(* Appending a row to the table.                                           *)
LEMMA AddRow ==
  ASSUME rows \in Seq(Row), NEW row \in Row, rows' = Append(rows, row)
  PROVE  Adds(row)
<1>1. DOMAIN rows = 1 .. Len(rows)
  BY RowFacts
<1>2. /\ rows' \in Seq(Row) /\ Len(rows') = Len(rows) + 1
      /\ \A i \in 1 .. Len(rows) : rows'[i] = rows[i]
      /\ rows'[Len(rows) + 1] = row
  BY AppendProperties
<1>3. DOMAIN rows' = 1 .. Len(rows')
  BY <1>2, LenProperties
<1> QED
  BY <1>1, <1>2, <1>3 DEF Adds

(* Writing one row of the table.                                           *)
LEMMA WriteRow ==
  ASSUME rows \in Seq(Row), NEW r \in DOMAIN rows, NEW row \in Row,
         rows' = [rows EXCEPT ![r] = row]
  PROVE  Writes(r, row)
<1>1. DOMAIN rows = 1 .. Len(rows)
  BY RowFacts
<1>2. /\ rows' \in Seq(Row) /\ Len(rows') = Len(rows)
      /\ \A j \in 1 .. Len(rows) : rows'[j] = IF j = r THEN row ELSE rows[j]
  BY <1>1, ExceptSeq
<1>3. DOMAIN rows' = 1 .. Len(rows')
  BY <1>2, LenProperties
<1> QED
  BY <1>1, <1>2, <1>3 DEF Writes

(* A wake-up repeats a row, adds one, or goes into the sentinel.           *)
LEMMA RecordEffect ==
  ASSUME rows \in Seq(Row), events \in Nat, NEW notice \in Notice \cup {Limit},
         NEW n \in Nat, Record(notice, n)
  PROVE  Recorded(notice, n) /\ events' \in Nat
<1> USE CheckpointAssumption
<1>0. /\ Len(rows) \in Nat
      /\ \A r \in DOMAIN rows : rows[r] \in Row
  BY RowFacts
<1>1. CASE \E r \in Repeated(notice) :
             /\ rows' = [rows EXCEPT ![r].stands = @ \cup {n}]
             /\ UNCHANGED events
  <2>1. PICK r \in Repeated(notice) :
             /\ rows' = [rows EXCEPT ![r].stands = @ \cup {n}]
             /\ UNCHANGED events
    BY <1>1
  <2> DEFINE row == [rows[r] EXCEPT !.stands = @ \cup {n}]
  <2>2. r \in DOMAIN rows
    BY DEF Repeated, RowsOf
  <2>3. row \in Row
    BY <1>0, <2>2 DEF Row
  <2>4. rows' = [rows EXCEPT ![r] = row]
    BY <2>1, <2>2
  <2>5. Writes(r, row)
    BY <2>2, <2>3, <2>4, WriteRow
  <2> QED
    BY <2>1, <2>5 DEF Recorded
<1>2. CASE Repeated(notice) = {} /\ Len(rows) < MaxCheckpoints /\ Insert(notice, events, n)
  <2>1. NewRow(notice, events, n) \in Row
    BY DEF NewRow, Row
  <2>2. rows' = Append(rows, NewRow(notice, events, n)) /\ events' = events + 1
    BY <1>2 DEF Insert, NewRow
  <2>3. Adds(NewRow(notice, events, n))
    BY <2>1, <2>2, AddRow
  <2>4. Recorded(notice, n)
    BY <1>2, <2>2, <2>3 DEF Recorded
  <2> QED
    BY <2>2, <2>4
<1>3. CASE /\ Repeated(notice) = {} /\ ~(Len(rows) < MaxCheckpoints)
           /\ Sentinel = {} /\ Insert(Limit, LimitEvent, n)
  <2>1. NewRow(Limit, events + 1, n) \in Row
    BY DEF NewRow, Row
  <2>2. rows' = Append(rows, NewRow(Limit, events + 1, n)) /\ events' = events + 2
    BY <1>3 DEF Insert, NewRow, LimitEvent
  <2>3. Adds(NewRow(Limit, events + 1, n))
    BY <2>1, <2>2, AddRow
  <2>4. Len(rows) >= MaxCheckpoints
    BY <1>0, <1>3
  <2> QED
    BY <1>3, <2>2, <2>3, <2>4 DEF Recorded
<1>4. CASE /\ Repeated(notice) = {} /\ ~(Len(rows) < MaxCheckpoints)
           /\ \E r \in Sentinel :
                /\ rows' = [rows EXCEPT ![r].event = LimitEvent, ![r].decision = Undecided,
                                        ![r].stands = @ \cup {n}, ![r].known = {}]
                /\ events' = events + 2
  <2>1. PICK r \in Sentinel :
                /\ rows' = [rows EXCEPT ![r].event = LimitEvent, ![r].decision = Undecided,
                                        ![r].stands = @ \cup {n}, ![r].known = {}]
                /\ events' = events + 2
    BY <1>4
  <2> DEFINE row == [rows[r] EXCEPT !.event = events + 1, !.decision = Undecided,
                                    !.stands = @ \cup {n}, !.known = {}]
  <2>2. r \in DOMAIN rows
    BY DEF Sentinel, RowsOf
  <2>3. row \in Row
    <3>1. rows[r] \in Row
      BY <1>0, <2>2
    <3>2. rows[r].stands \cup {n} \in SUBSET Nat
      BY <3>1 DEF Row
    <3>3. events + 1 \in Nat /\ {} \in SUBSET Nat
      OBVIOUS
    <3> QED
      BY <3>1, <3>2, <3>3 DEF Row
  <2>4. rows' = [rows EXCEPT ![r] = row]
    BY <2>1, <2>2 DEF LimitEvent
  <2>5. Writes(r, row)
    BY <2>2, <2>3, <2>4, WriteRow
  <2>6. Len(rows) >= MaxCheckpoints
    BY <1>0, <1>4
  <2>7. events' = events + 2 /\ events' \in Nat
    BY <2>1
  <2>8. Recorded(notice, n)
    <3> HIDE DEF row
    <3>1. row = [rows[r] EXCEPT !.event = events + 1, !.decision = Undecided,
                                !.stands = @ \cup {n}, !.known = {}]
      BY DEF row
    <3> QED
      BY <1>4, <2>5, <2>6, <2>7, <3>1 DEF Recorded
  <2> QED
    BY <2>7, <2>8
<1> QED
  BY <1>1, <1>2, <1>3, <1>4 DEF Record, RecordInSentinel

(* The terminal checkpoint is one more row.                                *)
LEMMA FinalizeEffect ==
  ASSUME rows \in Seq(Row), events \in Nat, FinalizeRun
  PROVE  /\ Adds(NewRow(Terminal, events, 0)) /\ RowsOf(Terminal) = {}
         /\ events' = events + 2
<1>1. NewRow(Terminal, events, 0) \in Row
  BY DEF NewRow, Row
<1>2. rows' = Append(rows, NewRow(Terminal, events, 0)) /\ events' = events + 2
  BY DEF FinalizeRun, NewRow
<1> QED
  BY <1>1, <1>2, AddRow DEF FinalizeRun

\* What an accepted decision does.
Decided(s, item, action) ==
  /\ item \in supervisor[s].shown /\ item[1] \in DOMAIN rows
  /\ IsPending(item[1]) /\ rows[item[1]].event <= supervisor[s].after
  /\ Writes(item[1], [rows[item[1]] EXCEPT
        !.decision = [action |-> action, cursor |-> supervisor[s].after],
        !.known = item[2]])
  /\ events' = events + 1
  /\ UNCHANGED supervisor

\* What a refused decision does.
Refused(s, item) ==
  /\ supervisor' = [supervisor EXCEPT ![s].shown = @ \ {item}]
  /\ UNCHANGED <<rows, events>>

(* The digest's rows are rows of the table.                                *)
ShownExist == \A s \in Supervisor : \A item \in supervisor[s].shown : item[1] \in DOMAIN rows

(* A decision is written to a pending row, or has no effect on the table.  *)
LEMMA DecideEffect ==
  ASSUME TypeOK, ShownExist, NEW s \in Supervisor, Decide(s)
  PROVE  \E item \in supervisor[s].shown, action \in Action :
           Decided(s, item, action) \/ Refused(s, item)
<1>1. PICK item \in supervisor[s].shown, action \in Action :
        LET r == item[1]
            decision == [action |-> action, cursor |-> supervisor[s].after] IN
        \/ /\ Decidable(r, decision)
           /\ rows' = [rows EXCEPT ![r].decision = decision, ![r].known = item[2]]
           /\ events' = events + 1
           /\ UNCHANGED supervisor
        \/ /\ ~Decidable(r, decision)
           /\ SetSupervisor(s, [supervisor[s] EXCEPT !.shown = @ \ {item}])
           /\ UNCHANGED <<rows, events>>
  BY DEF Decide
<1> DEFINE r == item[1]
           decision == [action |-> action, cursor |-> supervisor[s].after]
           row == [rows[r] EXCEPT !.decision = decision, !.known = item[2]]
<1>2. /\ rows \in Seq(Row) /\ supervisor[s] \in SupervisorProcess
      /\ r \in DOMAIN rows /\ supervisor \in [Supervisor -> SupervisorProcess]
  BY DEF TypeOK, ShownExist
<1>3. item[2] \in SUBSET Nat /\ supervisor[s].after \in Nat
  BY <1>2 DEF SupervisorProcess
<1>4. rows[r] \in Row
  BY <1>2, RowFacts
<1>5. decision \in Decision /\ decision.cursor = supervisor[s].after
  BY <1>3 DEF Decision
<1>6. CASE Decidable(r, decision) /\ rows' = [rows EXCEPT ![r].decision = decision, ![r].known = item[2]]
           /\ events' = events + 1 /\ UNCHANGED supervisor
  <2>1. row \in Row
    BY <1>3, <1>4, <1>5 DEF Row
  <2>2. rows' = [rows EXCEPT ![r] = row]
    BY <1>6, <1>2
  <2>3. Writes(r, row)
    BY <1>2, <2>1, <2>2, WriteRow
  <2>4. IsPending(r) /\ rows[r].event <= supervisor[s].after
    BY <1>6, <1>5, <1>3, <1>4 DEF Decidable, Accepts, Row
  <2> QED
    BY <1>2, <1>6, <2>3, <2>4 DEF Decided
<1>7. CASE SetSupervisor(s, [supervisor[s] EXCEPT !.shown = @ \ {item}])
           /\ UNCHANGED <<rows, events>>
  BY <1>2, <1>7 DEF Refused, SetSupervisor
<1> QED
  BY <1>1, <1>6, <1>7

(* A supervisor's fields are set to values of their types.                 *)
LEMMA SupervisorUpdate ==
  ASSUME supervisor \in [Supervisor -> SupervisorProcess], NEW s \in Supervisor,
         NEW fields \in SupervisorProcess, SetSupervisor(s, fields)
  PROVE  /\ supervisor' \in [Supervisor -> SupervisorProcess]
         /\ supervisor'[s] = fields
         /\ \A z \in Supervisor : z # s => supervisor'[z] = supervisor[z]
  BY DEF SetSupervisor

\* A process that wakes has an occurrence to wake for.
Waking ==
  \A p \in Notifier : notifier[p].pc # "idle" =>
    notifier[p].notice \in Notice /\ notifier[p].occurrence \in 1 .. occurrences

(* Every step keeps the types, whatever the supervisor has been shown.     *)
LEMMA TypeStep == TypeOK /\ ShownExist /\ [Next]_vars => TypeOK'
<1> SUFFICES ASSUME TypeOK, ShownExist, [Next]_vars PROVE TypeOK'
  OBVIOUS
<1> USE CheckpointAssumption
<1>0. /\ rows \in Seq(Row) /\ events \in Nat
      /\ notifier \in [Notifier -> NotifierProcess]
      /\ supervisor \in [Supervisor -> SupervisorProcess]
      /\ occurrences \in 0 .. MaxOccurrences /\ crashes \in 0 .. MaxCrashes
  BY DEF TypeOK
<1>1. ASSUME NEW p \in Notifier, Arise(p) PROVE TypeOK'
  <2>1. PICK notice \in Notice :
          notifier' = [notifier EXCEPT ![p] =
            [pc |-> "wake", notice |-> notice, occurrence |-> occurrences + 1]]
    BY <1>1 DEF Arise
  <2>2. notifier' \in [Notifier -> NotifierProcess]
    BY <1>0, <2>1 DEF NotifierProcess
  <2>3. occurrences' \in 0 .. MaxOccurrences /\ events' \in Nat
    BY <1>0, <1>1 DEF Arise
  <2> QED
    BY <1>0, <1>1, <2>2, <2>3 DEF Arise, TypeOK
<1>2. ASSUME NEW p \in Notifier, Wake(p) PROVE TypeOK'
  <2>1. notifier[p].notice \in Notice \cup {Limit} /\ notifier[p].occurrence \in Nat
    BY <1>0 DEF NotifierProcess
  <2>2. Recorded(notifier[p].notice, notifier[p].occurrence) /\ events' \in Nat
    BY <1>0, <1>2, <2>1, RecordEffect DEF Wake
  <2>3. rows' \in Seq(Row)
    BY <2>2 DEF Recorded, Adds, Writes
  <2>4. notifier' \in [Notifier -> NotifierProcess]
    BY <1>0, <1>2 DEF Wake, NotifierProcess
  <2> QED
    BY <1>0, <1>2, <2>2, <2>3, <2>4 DEF Wake, TypeOK
<1>3. ASSUME NEW p \in Notifier, Settle(p) \/ Crash(p) PROVE TypeOK'
  <2>1. Idle \in NotifierProcess
    BY DEF Idle, NotifierProcess
  <2>2. notifier' \in [Notifier -> NotifierProcess]
    <3>1. [notifier[p] EXCEPT !.pc = "wake"] \in NotifierProcess
      BY <1>0 DEF NotifierProcess
    <3>2. \/ notifier' = [notifier EXCEPT ![p] = Idle]
          \/ notifier' = [notifier EXCEPT ![p] = [notifier[p] EXCEPT !.pc = "wake"]]
      BY <1>0, <1>3 DEF Settle, Crash
    <3> QED
      BY <1>0, <2>1, <3>1, <3>2
  <2>3. crashes' \in 0 .. MaxCrashes
    BY <1>0, <1>3 DEF Settle, Crash
  <2> QED
    BY <1>0, <1>3, <2>2, <2>3 DEF Settle, Crash, TypeOK
<1>4. CASE FinalizeRun
  <2>1. rows' \in Seq(Row) /\ events' \in Nat
    BY <1>0, <1>4, FinalizeEffect DEF Adds
  <2> QED
    BY <1>0, <1>4, <2>1 DEF FinalizeRun, TypeOK
<1>5. ASSUME NEW s \in Supervisor, ReadCursor(s) PROVE TypeOK'
  <2>1. [supervisor[s] EXCEPT !.pc = "check", !.cursor = events] \in SupervisorProcess
    BY <1>0 DEF SupervisorProcess
  <2>2. supervisor' \in [Supervisor -> SupervisorProcess]
    BY <1>0, <1>5, <2>1, SupervisorUpdate DEF ReadCursor
  <2> QED
    BY <1>0, <1>5, <2>2 DEF ReadCursor, TypeOK
<1>6. ASSUME NEW s \in Supervisor, CheckPending(s) PROVE TypeOK'
  <2> DEFINE fields == IF Pending # {}
               THEN [supervisor[s] EXCEPT !.pc = "digest", !.cursor = 0]
               ELSE [supervisor[s] EXCEPT !.pc = "idle", !.cursor = 0,
                                            !.after = supervisor[s].cursor]
  <2>1. fields \in SupervisorProcess
    BY <1>0 DEF SupervisorProcess
  <2>2. SetSupervisor(s, fields)
    BY <1>6 DEF CheckPending
  <2>3. supervisor' \in [Supervisor -> SupervisorProcess]
    BY <1>0, <2>1, <2>2, SupervisorUpdate
  <2> QED
    BY <1>0, <1>6, <2>3 DEF CheckPending, TypeOK
<1>7. ASSUME NEW s \in Supervisor, Digest(s) PROVE TypeOK'
  <2> DEFINE shown == {<<r, rows[r].stands>> : r \in Pending}
             told == IF WakeRequired(s)
                     THEN supervisor[s].told \cup UNION {item[2] : item \in shown}
                     ELSE supervisor[s].told
             fields == [supervisor[s] EXCEPT !.pc = "idle", !.cursor = 0,
                          !.after = events, !.shown = shown, !.told = told]
  <2>1. \A r \in Pending : r \in Nat /\ rows[r].stands \in SUBSET Nat
    BY <1>0, RowFacts DEF Pending, Row
  <2>2. shown \subseteq Nat \X SUBSET Nat
    BY <2>1
  <2>3. \A item \in shown : item[2] \subseteq Nat
    BY <2>1
  <2>4. told \subseteq Nat
    <3>1. UNION {item[2] : item \in shown} \subseteq Nat
      BY <2>3
    <3>2. supervisor[s].told \subseteq Nat
      BY <1>0 DEF SupervisorProcess
    <3> QED
      BY <3>1, <3>2
  <2>5. fields \in SupervisorProcess
    <3> HIDE DEF shown, told
    <3> QED
      BY <1>0, <2>2, <2>4 DEF SupervisorProcess
  <2>6. SetSupervisor(s, fields)
    BY <1>7 DEF Digest
  <2>7. supervisor' \in [Supervisor -> SupervisorProcess]
    BY <1>0, <2>5, <2>6, SupervisorUpdate
  <2> QED
    BY <1>0, <1>7, <2>7 DEF Digest, TypeOK
<1>8. ASSUME NEW s \in Supervisor, Decide(s) PROVE TypeOK'
  <2>1. PICK item \in supervisor[s].shown, action \in Action :
          Decided(s, item, action) \/ Refused(s, item)
    BY <1>8, DecideEffect
  <2>2. CASE Decided(s, item, action)
    BY <1>0, <1>8, <2>2 DEF Decided, Writes, Decide, TypeOK
  <2>3. CASE Refused(s, item)
    <3>1. supervisor' \in [Supervisor -> SupervisorProcess]
      BY <1>0, <2>3 DEF Refused, SupervisorProcess
    <3> QED
      BY <1>0, <1>8, <2>3, <3>1 DEF Refused, Decide, TypeOK
  <2> QED
    BY <2>1, <2>2, <2>3
<1>9. CASE UNCHANGED vars
  BY <1>0, <1>9 DEF vars, TypeOK
<1> QED
  BY <1>1, <1>2, <1>3, <1>4, <1>5, <1>6, <1>7, <1>8, <1>9 DEF Next

-----------------------------------------------------------------------------
(* The parts of the inductive invariant.                                   *)

\* How many rows there are, and that the two extra ones are unique.
Bounded ==
  /\ Len(rows) <= MaxCheckpoints + 2
  /\ Sentinel = {} \/ RowsOf(Terminal) = {} => Len(rows) <= MaxCheckpoints + 1
  /\ Sentinel = {} /\ RowsOf(Terminal) = {} => Len(rows) <= MaxCheckpoints
  /\ Sentinel # {} => Len(rows) >= MaxCheckpoints
  /\ \A q, r \in DOMAIN rows :
       rows[q].notice = rows[r].notice /\ rows[q].notice \in {Limit, Terminal} => q = r

\* Nobody is ahead of the event log.
Watermarks ==
  /\ \A r \in DOMAIN rows : rows[r].event <= events
  /\ \A s \in Supervisor : supervisor[s].after <= events /\ supervisor[s].cursor <= events
  /\ \A s \in Supervisor : supervisor[s].pc = "check" => supervisor[s].after <= supervisor[s].cursor

\* A digest whose cursor has reached the pending sentinel shows it as it is.
Fresh ==
  \A s \in Supervisor : \A item \in supervisor[s].shown :
    item[1] \in Sentinel \cap Pending /\ rows[item[1]].event <= supervisor[s].after
      => item[2] = rows[item[1]].stands

\* What a supervisor was woken for is in a row it has got past, or in the sentinel.
Told ==
  \A s \in Supervisor : \A n \in supervisor[s].told : \E q \in DOMAIN rows :
    n \in rows[q].stands /\ (rows[q].notice = Limit \/ rows[q].event <= supervisor[s].after)

\* A row that stands for occurrences that still matter.
Open == {r \in DOMAIN rows : IsPending(r) \/ r \in Sentinel}

\* Each occurrence belongs to one process, and to rows of its own notice or to
\* the sentinel; at most one of these is open.
Recordings ==
  /\ \A p, q \in Notifier : p # q /\ notifier[p].pc # "idle" /\ notifier[q].pc # "idle" =>
       notifier[p].occurrence # notifier[q].occurrence
  /\ \A r \in DOMAIN rows : IF rows[r].notice = Terminal THEN rows[r].stands = {0}
                            ELSE rows[r].stands \subseteq 1 .. occurrences
  /\ \A q, r \in Pending : rows[q].notice = rows[r].notice => q = r
  /\ \A p \in Notifier : \A r \in DOMAIN rows :
       notifier[p].pc # "idle" /\ notifier[p].occurrence \in rows[r].stands =>
         \/ rows[r].notice = notifier[p].notice
         \/ rows[r].notice = Limit /\ Repeated(notifier[p].notice) = {}
  /\ \A q, r \in Open : q # r => rows[q].stands \cap rows[r].stands = {}

CheckpointInv ==
  /\ TypeOK /\ ShownExist /\ Waking /\ Bounded /\ Watermarks /\ Fresh /\ Told
  /\ DecisionsAreInformed /\ OverflowWakes /\ Recordings

-----------------------------------------------------------------------------
(* The steps, by what they change.                                         *)

Woken(p) ==
  /\ notifier[p].pc = "wake"
  /\ Recorded(notifier[p].notice, notifier[p].occurrence)
  /\ UNCHANGED <<supervisor, occurrences>>

Finalized ==
  /\ Adds(NewRow(Terminal, events, 0)) /\ RowsOf(Terminal) = {}
  /\ events' = events + 2
  /\ UNCHANGED <<supervisor, notifier, occurrences>>

\* A poll of s.
Polled(s) ==
  /\ rows' = rows /\ events' = events
  /\ \A z \in Supervisor : z # s => supervisor'[z] = supervisor[z]
  /\ \/ /\ supervisor'[s].after = supervisor[s].after
        /\ supervisor'[s].shown \subseteq supervisor[s].shown
        /\ supervisor'[s].told = supervisor[s].told
        /\ supervisor'[s].cursor \in {0, events, supervisor[s].cursor}
        /\ supervisor'[s].pc = "check" =>
             \/ supervisor'[s].cursor = events
             \/ supervisor[s].pc = "check" /\ supervisor'[s].cursor = supervisor[s].cursor
     \/ /\ Pending = {}
        /\ supervisor[s].pc = "check" /\ supervisor'[s].pc = "idle"
        /\ supervisor'[s].after = supervisor[s].cursor
        /\ supervisor'[s].shown = supervisor[s].shown
        /\ supervisor'[s].told = supervisor[s].told
        /\ supervisor'[s].cursor = 0
     \/ /\ supervisor'[s].after = events /\ supervisor'[s].pc = "idle"
        /\ supervisor'[s].shown = {<<r, rows[r].stands>> : r \in Pending}
        /\ supervisor[s].told \subseteq supervisor'[s].told
        /\ \A n \in supervisor'[s].told \ supervisor[s].told : \E r \in Pending : n \in rows[r].stands
        /\ WakeRequired(s) => \A r \in Pending : rows[r].stands \subseteq supervisor'[s].told
        /\ supervisor'[s].cursor = 0

\* An event of a process that waits for nobody.
Passed == /\ rows' = rows /\ supervisor' = supervisor
          /\ events' \in Nat /\ events' >= events

(* Every step wakes, finalizes, polls, decides or passes.                  *)
LEMMA StepEffect ==
  ASSUME TypeOK, ShownExist, [Next]_vars
  PROVE  \/ \E p \in Notifier : Woken(p) /\ events' \in Nat
         \/ Finalized
         \/ \E s \in Supervisor : Polled(s) /\ UNCHANGED <<notifier, occurrences>>
         \/ \E s \in Supervisor : \E item \in supervisor[s].shown, action \in Action :
              Decided(s, item, action) /\ UNCHANGED <<notifier, occurrences>>
         \/ Passed
<1>0. /\ rows \in Seq(Row) /\ events \in Nat
      /\ notifier \in [Notifier -> NotifierProcess]
      /\ supervisor \in [Supervisor -> SupervisorProcess]
  BY DEF TypeOK
<1>1. ASSUME NEW p \in Notifier, Arise(p) \/ Settle(p) \/ Crash(p) PROVE Passed
  BY <1>0, <1>1 DEF Arise, Settle, Crash, Passed
<1>2. ASSUME NEW p \in Notifier, Wake(p) PROVE Woken(p) /\ events' \in Nat
  <2>1. notifier[p].notice \in Notice \cup {Limit} /\ notifier[p].occurrence \in Nat
    BY <1>0 DEF NotifierProcess
  <2>2. Recorded(notifier[p].notice, notifier[p].occurrence) /\ events' \in Nat
    BY <1>0, <1>2, <2>1, RecordEffect DEF Wake
  <2> QED
    BY <1>2, <2>2 DEF Wake, Woken
<1>3. CASE FinalizeRun
  BY <1>0, <1>3, FinalizeEffect DEF FinalizeRun, Finalized
<1>4. ASSUME NEW s \in Supervisor, ReadCursor(s) PROVE Polled(s)
  BY <1>0, <1>4 DEF ReadCursor, SetSupervisor, Polled, SupervisorProcess
<1>5. ASSUME NEW s \in Supervisor, CheckPending(s) PROVE Polled(s)
  <2>1. CASE Pending # {}
    BY <1>0, <1>5, <2>1 DEF CheckPending, SetSupervisor, Polled, SupervisorProcess
  <2>2. CASE Pending = {}
    BY <1>0, <1>5, <2>2 DEF CheckPending, SetSupervisor, Polled, SupervisorProcess
  <2> QED
    BY <2>1, <2>2
<1>6. ASSUME NEW s \in Supervisor, Digest(s) PROVE Polled(s)
  <2> DEFINE shown == {<<r, rows[r].stands>> : r \in Pending}
             told == IF WakeRequired(s)
                     THEN supervisor[s].told \cup UNION {item[2] : item \in shown}
                     ELSE supervisor[s].told
             fields == [supervisor[s] EXCEPT !.pc = "idle", !.cursor = 0,
                          !.after = events, !.shown = shown, !.told = told]
  <2>1. supervisor' = [supervisor EXCEPT ![s] = fields]
    BY <1>6 DEF Digest, SetSupervisor
  <2>2. /\ supervisor'[s] = fields
        /\ \A z \in Supervisor : z # s => supervisor'[z] = supervisor[z]
    BY <1>0, <2>1
  <2>3. /\ fields.after = events /\ fields.shown = shown /\ fields.told = told
        /\ fields.cursor = 0 /\ fields.pc = "idle"
    <3> HIDE DEF shown, told
    <3> QED
      BY <1>0 DEF SupervisorProcess
  <2>4. supervisor[s].told \subseteq told
    OBVIOUS
  <2>5. ASSUME WakeRequired(s), NEW r \in Pending PROVE rows[r].stands \subseteq told
    <3>1. <<r, rows[r].stands>> \in shown /\ <<r, rows[r].stands>>[2] = rows[r].stands
      OBVIOUS
    <3>2. rows[r].stands \in {item[2] : item \in shown}
      BY <3>1
    <3> QED
      BY <2>5, <3>2
  <2>6. rows' = rows /\ events' = events
    BY <1>6 DEF Digest
  <2>7. \A n \in told \ supervisor[s].told : \E r \in Pending : n \in rows[r].stands
    <3> SUFFICES ASSUME NEW n \in told \ supervisor[s].told
                 PROVE  \E r \in Pending : n \in rows[r].stands
      OBVIOUS
    <3>1. PICK item \in shown : n \in item[2]
      OBVIOUS
    <3>2. PICK r \in Pending : item = <<r, rows[r].stands>>
      OBVIOUS
    <3> QED
      BY <3>1, <3>2
  <2> QED
    <3> HIDE DEF fields, told
    <3> QED
      BY <2>2, <2>3, <2>4, <2>5, <2>6, <2>7 DEF Polled
<1>7. ASSUME NEW s \in Supervisor, Decide(s)
      PROVE  \/ Polled(s)
             \/ \E item \in supervisor[s].shown, action \in Action : Decided(s, item, action)
  <2>1. PICK item \in supervisor[s].shown, action \in Action :
          Decided(s, item, action) \/ Refused(s, item)
    BY <1>7, DecideEffect
  <2>2. CASE Refused(s, item)
    BY <1>0, <2>2 DEF Refused, Polled, SupervisorProcess
  <2> QED
    BY <2>1, <2>2
<1>8. ASSUME NEW s \in Supervisor, ReadCursor(s) \/ CheckPending(s) \/ Digest(s) \/ Decide(s)
      PROVE  UNCHANGED <<notifier, occurrences>>
  BY <1>8 DEF ReadCursor, CheckPending, Digest, Decide
<1>9. CASE UNCHANGED vars
  BY <1>0, <1>9 DEF vars, Passed
<1> QED
  BY <1>1, <1>2, <1>3, <1>4, <1>5, <1>6, <1>7, <1>8, <1>9 DEF Next

(* Who waits to wake: as before, or for an occurrence that has just arisen. *)
LEMMA NotifierStep ==
  ASSUME TypeOK, [Next]_vars
  PROVE  /\ occurrences' \in Nat /\ occurrences' >= occurrences
         /\ \/ \A p \in Notifier : notifier'[p].pc # "idle" =>
                 /\ notifier[p].pc # "idle"
                 /\ notifier'[p].notice = notifier[p].notice
                 /\ notifier'[p].occurrence = notifier[p].occurrence
            \/ \E p \in Notifier :
                 /\ notifier'[p].occurrence = occurrences + 1
                 /\ notifier'[p].notice \in Notice
                 /\ occurrences' = occurrences + 1 /\ rows' = rows
                 /\ \A q \in Notifier : q # p => notifier'[q] = notifier[q]
<1>0. /\ notifier \in [Notifier -> NotifierProcess] /\ occurrences \in Nat
  BY CheckpointAssumption DEF TypeOK
<1>1. ASSUME NEW p \in Notifier, Arise(p)
      PROVE  /\ notifier'[p].occurrence = occurrences + 1
             /\ notifier'[p].notice \in Notice
             /\ occurrences' = occurrences + 1 /\ rows' = rows
             /\ \A q \in Notifier : q # p => notifier'[q] = notifier[q]
  BY <1>0, <1>1 DEF Arise
<1>2. ASSUME NEW p \in Notifier, Wake(p) \/ Settle(p) \/ Crash(p)
      PROVE  /\ occurrences' = occurrences
             /\ \A q \in Notifier : notifier'[q].pc # "idle" =>
                 /\ notifier[q].pc # "idle"
                 /\ notifier'[q].notice = notifier[q].notice
                 /\ notifier'[q].occurrence = notifier[q].occurrence
  BY <1>0, <1>2 DEF Wake, Settle, Crash, Idle, NotifierProcess
<1>3. ASSUME NEW s \in Supervisor, ReadCursor(s) \/ CheckPending(s) \/ Digest(s) \/ Decide(s)
      PROVE  UNCHANGED <<notifier, occurrences>>
  BY <1>3 DEF ReadCursor, CheckPending, Digest, Decide
<1>4. CASE FinalizeRun \/ UNCHANGED vars
  BY <1>0, <1>4 DEF FinalizeRun, vars
<1> QED
  BY <1>0, <1>1, <1>2, <1>3, <1>4 DEF Next

(* The sets of rows after a row has been added.                            *)
LEMMA AddsEffect ==
  ASSUME rows \in Seq(Row), NEW row, Adds(row)
  PROVE  /\ Len(rows) \in Nat /\ Len(rows') = Len(rows) + 1
         /\ DOMAIN rows = 1 .. Len(rows) /\ DOMAIN rows' = 1 .. Len(rows) + 1
         /\ \A q \in DOMAIN rows : rows'[q] = rows[q] /\ (IsPending(q)' <=> IsPending(q))
         /\ rows'[Len(rows) + 1] = row
         /\ \A notice : RowsOf(notice)' = IF row.notice = notice
              THEN RowsOf(notice) \cup {Len(rows) + 1} ELSE RowsOf(notice)
         /\ Pending' = IF row.decision = Undecided
              THEN Pending \cup {Len(rows) + 1} ELSE Pending
<1>1. /\ Len(rows) \in Nat /\ DOMAIN rows = 1 .. Len(rows)
  BY RowFacts
<1>2. /\ Len(rows') = Len(rows) + 1 /\ DOMAIN rows' = 1 .. Len(rows) + 1
      /\ \A q \in DOMAIN rows : rows'[q] = rows[q]
      /\ rows'[Len(rows) + 1] = row
  BY DEF Adds
<1>3. \A q \in 1 .. Len(rows) + 1 : q \in 1 .. Len(rows) \/ q = Len(rows) + 1
  BY <1>1
<1>4. Len(rows) + 1 \notin 1 .. Len(rows) /\ 1 .. Len(rows) \subseteq 1 .. Len(rows) + 1
      /\ Len(rows) + 1 \in 1 .. Len(rows) + 1
  BY <1>1
<1>5. ASSUME NEW notice
      PROVE  RowsOf(notice)' = IF row.notice = notice
              THEN RowsOf(notice) \cup {Len(rows) + 1} ELSE RowsOf(notice)
  BY <1>1, <1>2, <1>3, <1>4 DEF RowsOf
<1>6. Pending' = IF row.decision = Undecided
              THEN Pending \cup {Len(rows) + 1} ELSE Pending
  BY <1>1, <1>2, <1>3, <1>4 DEF Pending, IsPending
<1> QED
  BY <1>1, <1>2, <1>5, <1>6 DEF IsPending

(* The sets of rows after one has been written, its notice kept.           *)
LEMMA WritesEffect ==
  ASSUME rows \in Seq(Row), NEW r \in DOMAIN rows, NEW row, Writes(r, row),
         row.notice = rows[r].notice
  PROVE  /\ Len(rows) \in Nat /\ Len(rows') = Len(rows)
         /\ DOMAIN rows = 1 .. Len(rows) /\ DOMAIN rows' = DOMAIN rows
         /\ \A q \in DOMAIN rows : q # r => rows'[q] = rows[q]
         /\ rows'[r] = row
         /\ \A q \in DOMAIN rows : rows'[q].notice = rows[q].notice
         /\ \A notice : RowsOf(notice)' = RowsOf(notice)
         /\ Pending' = IF row.decision = Undecided THEN Pending \cup {r} ELSE Pending \ {r}
<1>1. /\ Len(rows) \in Nat /\ DOMAIN rows = 1 .. Len(rows)
  BY RowFacts
<1>2. /\ Len(rows') = Len(rows) /\ DOMAIN rows' = DOMAIN rows
      /\ \A q \in DOMAIN rows : q # r => rows'[q] = rows[q]
      /\ rows'[r] = row
  BY DEF Writes
<1>3. \A q \in DOMAIN rows : rows'[q].notice = rows[q].notice
  BY <1>2
<1>4. \A notice : RowsOf(notice)' = RowsOf(notice)
  BY <1>2, <1>3 DEF RowsOf
<1>5. Pending' = IF row.decision = Undecided THEN Pending \cup {r} ELSE Pending \ {r}
  BY <1>2 DEF Pending, IsPending
<1> QED
  BY <1>1, <1>2, <1>3, <1>4, <1>5

(* The four ways to record a wake-up, field by field.                      *)
LEMMA WokenEffect ==
  ASSUME TypeOK, NEW p \in Notifier, Woken(p)
  PROVE  LET notice == notifier[p].notice
             n == notifier[p].occurrence IN
         \/ \E r \in Repeated(notice) : \E row \in Row :
              /\ Writes(r, row) /\ r \in DOMAIN rows /\ IsPending(r)
              /\ row.notice = rows[r].notice /\ rows[r].notice = notice
              /\ row.event = rows[r].event
              /\ row.decision = Undecided /\ row.stands = rows[r].stands \cup {n}
              /\ row.known = rows[r].known /\ events' = events
         \/ \E row \in Row :
              /\ Adds(row) /\ Repeated(notice) = {} /\ Len(rows) < MaxCheckpoints
              /\ row.notice = notice /\ row.event = events /\ row.decision = Undecided
              /\ row.stands = {n} /\ events' = events + 1
         \/ \E row \in Row :
              /\ Adds(row) /\ Repeated(notice) = {} /\ Len(rows) >= MaxCheckpoints
              /\ Sentinel = {}
              /\ row.notice = Limit /\ row.event = events + 1 /\ row.decision = Undecided
              /\ row.stands = {n} /\ events' = events + 2
         \/ \E r \in Sentinel : \E row \in Row :
              /\ Repeated(notice) = {} /\ Len(rows) >= MaxCheckpoints
              /\ Writes(r, row) /\ r \in DOMAIN rows
              /\ row.notice = rows[r].notice /\ rows[r].notice = Limit
              /\ row.event = events + 1
              /\ row.decision = Undecided /\ row.stands = rows[r].stands \cup {n}
              /\ events' = events + 2
<1> DEFINE notice == notifier[p].notice
           n == notifier[p].occurrence
<1>0. /\ rows \in Seq(Row) /\ events \in Nat /\ notice \in Notice \cup {Limit} /\ n \in Nat
      /\ \A r \in DOMAIN rows : rows[r] \in Row
  BY RowFacts DEF TypeOK, NotifierProcess
<1>1. Recorded(notice, n)
  BY DEF Woken
<1> HIDE DEF notice, n
<1>2. ASSUME NEW r \in Repeated(notice),
             Writes(r, [rows[r] EXCEPT !.stands = @ \cup {n}]), events' = events
      PROVE  \E row \in Row :
              /\ Writes(r, row) /\ r \in DOMAIN rows /\ IsPending(r)
              /\ row.notice = rows[r].notice /\ rows[r].notice = notice
              /\ row.event = rows[r].event
              /\ row.decision = Undecided /\ row.stands = rows[r].stands \cup {n}
              /\ row.known = rows[r].known /\ events' = events
  <2> DEFINE row == [rows[r] EXCEPT !.stands = @ \cup {n}]
  <2>1. r \in DOMAIN rows /\ rows[r].notice = notice /\ IsPending(r)
    BY DEF Repeated, RowsOf
  <2>2. /\ row \in Row /\ row.notice = rows[r].notice /\ row.event = rows[r].event
        /\ row.decision = rows[r].decision /\ row.stands = rows[r].stands \cup {n}
        /\ row.known = rows[r].known
    BY <1>0, <2>1 DEF Row
  <2>3. Writes(r, row)
    BY <1>2
  <2> HIDE DEF row
  <2> QED
    BY <1>2, <2>1, <2>2, <2>3 DEF IsPending
<1>3. ASSUME NEW r \in Sentinel,
             Writes(r, [rows[r] EXCEPT !.event = events + 1, !.decision = Undecided,
                                       !.stands = @ \cup {n}, !.known = {}])
      PROVE  \E row \in Row :
              /\ Writes(r, row) /\ r \in DOMAIN rows
              /\ row.notice = rows[r].notice /\ rows[r].notice = Limit
              /\ row.event = events + 1
              /\ row.decision = Undecided /\ row.stands = rows[r].stands \cup {n}
  <2> DEFINE row == [rows[r] EXCEPT !.event = events + 1, !.decision = Undecided,
                                    !.stands = @ \cup {n}, !.known = {}]
  <2>1. r \in DOMAIN rows /\ rows[r].notice = Limit
    BY DEF Sentinel, RowsOf
  <2>2. rows[r] \in Row /\ rows[r].stands \cup {n} \in SUBSET Nat /\ events + 1 \in Nat
    BY <1>0, <2>1 DEF Row
  <2>3. /\ row \in Row /\ row.notice = rows[r].notice /\ row.event = events + 1
        /\ row.decision = Undecided /\ row.stands = rows[r].stands \cup {n}
    BY <2>2 DEF Row
  <2>4. Writes(r, row)
    BY <1>3
  <2> HIDE DEF row
  <2> QED
    BY <2>1, <2>3, <2>4
<1>4. ASSUME NEW subject \in Notice \cup {Limit}, NEW event \in Nat
      PROVE  LET row == NewRow(subject, event, n) IN
             /\ row \in Row /\ row.notice = subject /\ row.event = event
             /\ row.decision = Undecided /\ row.stands = {n}
  BY <1>0 DEF NewRow, Row
<1>5. events + 1 \in Nat
  BY <1>0
<1>6. CASE \E r \in Repeated(notice) :
             /\ Writes(r, [rows[r] EXCEPT !.stands = @ \cup {n}])
             /\ events' = events
  BY <1>2, <1>6 DEF notice, n
<1>7. CASE /\ Repeated(notice) = {} /\ Len(rows) < MaxCheckpoints
           /\ Adds(NewRow(notice, events, n)) /\ events' = events + 1
  BY <1>0, <1>4, <1>7 DEF notice, n
<1>8. CASE /\ Repeated(notice) = {} /\ Len(rows) >= MaxCheckpoints /\ Sentinel = {}
           /\ Adds(NewRow(Limit, events + 1, n)) /\ events' = events + 2
  BY <1>4, <1>5, <1>8 DEF notice, n
<1>9. CASE /\ Repeated(notice) = {} /\ Len(rows) >= MaxCheckpoints
           /\ \E r \in Sentinel :
                /\ Writes(r, [rows[r] EXCEPT !.event = events + 1, !.decision = Undecided,
                                             !.stands = @ \cup {n}, !.known = {}])
                /\ events' = events + 2
  BY <1>3, <1>9 DEF notice, n
<1> QED
  BY <1>1, <1>6, <1>7, <1>8, <1>9 DEF Recorded

(* The terminal row, field by field.                                       *)
LEMMA FinalizedEffect ==
  ASSUME TypeOK, Finalized
  PROVE  \E row \in Row :
           /\ Adds(row) /\ RowsOf(Terminal) = {} /\ events' = events + 2
           /\ row.notice = Terminal /\ row.event = events
           /\ row.decision = Undecided /\ row.stands = {0}
           /\ UNCHANGED <<supervisor, notifier, occurrences>>
<1>1. /\ NewRow(Terminal, events, 0) \in Row
      /\ NewRow(Terminal, events, 0).notice = Terminal
      /\ NewRow(Terminal, events, 0).event = events
      /\ NewRow(Terminal, events, 0).decision = Undecided
      /\ NewRow(Terminal, events, 0).stands = {0}
  BY DEF NewRow, Row, TypeOK
<1> QED
  BY <1>1 DEF Finalized

(* A decision, field by field.                                             *)
LEMMA DecidedEffect ==
  ASSUME TypeOK, NEW s \in Supervisor, NEW item \in supervisor[s].shown,
         NEW action \in Action, Decided(s, item, action)
  PROVE  \E r \in DOMAIN rows, row \in Row :
           /\ r = item[1] /\ IsPending(r) /\ rows[r].event <= supervisor[s].after
           /\ Writes(r, row) /\ row.notice = rows[r].notice /\ row.event = rows[r].event
           /\ row.decision # Undecided /\ row.stands = rows[r].stands /\ row.known = item[2]
           /\ events' = events + 1 /\ supervisor' = supervisor
<1> DEFINE r == item[1]
           decision == [action |-> action, cursor |-> supervisor[s].after]
           row == [rows[r] EXCEPT !.decision = decision, !.known = item[2]]
<1>1. /\ r \in DOMAIN rows /\ IsPending(r) /\ rows[r].event <= supervisor[s].after
      /\ Writes(r, row) /\ events' = events + 1 /\ supervisor' = supervisor
  BY DEF Decided
<1>2. /\ rows[r] \in Row /\ supervisor[s] \in SupervisorProcess
  BY <1>1, RowFacts DEF TypeOK
<1>3. item[2] \in SUBSET Nat /\ decision \in Decision
  BY <1>2 DEF SupervisorProcess, Decision
<1>4. decision # Undecided
  BY <1>3, UndecidedAssumption
<1> HIDE DEF decision
<1>5. /\ row \in Row /\ row.notice = rows[r].notice /\ row.event = rows[r].event
      /\ row.decision = decision /\ row.stands = rows[r].stands /\ row.known = item[2]
  BY <1>2, <1>3 DEF Row
<1> HIDE DEF row
<1> QED
  BY <1>1, <1>4, <1>5

-----------------------------------------------------------------------------
(* Every step keeps every part.                                            *)

(* Who waits to wake has an occurrence.                                    *)
LEMMA WakingStep == TypeOK /\ Waking /\ [Next]_vars => Waking'
<1> SUFFICES ASSUME TypeOK, Waking, [Next]_vars, NEW p \in Notifier, notifier'[p].pc # "idle"
             PROVE  /\ notifier'[p].notice \in Notice
                    /\ notifier'[p].occurrence \in 1 .. occurrences'
  BY DEF Waking
<1>1. occurrences \in Nat
  BY CheckpointAssumption DEF TypeOK
<1>2. occurrences' \in Nat /\ occurrences' >= occurrences
  BY NotifierStep
<1> QED
  BY <1>1, <1>2, NotifierStep DEF Waking

(* The table stays bounded.                                                *)
LEMMA BoundedStep ==
  TypeOK /\ ShownExist /\ Waking /\ Bounded /\ [Next]_vars => Bounded'
<1> SUFFICES ASSUME TypeOK, ShownExist, Waking, Bounded, [Next]_vars PROVE Bounded'
  OBVIOUS
<1> USE CheckpointAssumption
<1>0. rows \in Seq(Row) /\ Limit # Terminal
      /\ Sentinel = RowsOf(Limit) /\ Sentinel' = RowsOf(Limit)'
  BY DEF TypeOK, Sentinel, Limit, Terminal
<1>1. ASSUME NEW row \in Row, Adds(row),
             \/ row.notice \in Notice /\ Len(rows) < MaxCheckpoints
             \/ row.notice = Limit /\ Sentinel = {} /\ Len(rows) >= MaxCheckpoints
             \/ row.notice = Terminal /\ RowsOf(Terminal) = {}
      PROVE  Bounded'
  <2>1. /\ Len(rows) \in Nat /\ Len(rows') = Len(rows) + 1
        /\ DOMAIN rows = 1 .. Len(rows) /\ DOMAIN rows' = 1 .. Len(rows) + 1
        /\ \A q \in DOMAIN rows : rows'[q] = rows[q]
        /\ rows'[Len(rows) + 1] = row
        /\ \A notice : RowsOf(notice)' = IF row.notice = notice
              THEN RowsOf(notice) \cup {Len(rows) + 1} ELSE RowsOf(notice)
    BY <1>0, <1>1, AddsEffect
  <2>2. /\ Len(rows') <= MaxCheckpoints + 2
        /\ Sentinel' = {} \/ RowsOf(Terminal)' = {} => Len(rows') <= MaxCheckpoints + 1
        /\ Sentinel' = {} /\ RowsOf(Terminal)' = {} => Len(rows') <= MaxCheckpoints
        /\ Sentinel' # {} => Len(rows') >= MaxCheckpoints
    <3>1. /\ RowsOf(Limit)' = IF row.notice = Limit
              THEN RowsOf(Limit) \cup {Len(rows) + 1} ELSE RowsOf(Limit)
          /\ RowsOf(Terminal)' = IF row.notice = Terminal
              THEN RowsOf(Terminal) \cup {Len(rows) + 1} ELSE RowsOf(Terminal)
      BY <2>1
    <3>2. /\ Len(rows) <= MaxCheckpoints + 2
          /\ Sentinel = {} \/ RowsOf(Terminal) = {} => Len(rows) <= MaxCheckpoints + 1
          /\ Sentinel = {} /\ RowsOf(Terminal) = {} => Len(rows) <= MaxCheckpoints
          /\ Sentinel # {} => Len(rows) >= MaxCheckpoints
      BY DEF Bounded
    <3>3. CASE row.notice \in Notice /\ Len(rows) < MaxCheckpoints
      <4>1. Sentinel' = {} /\ RowsOf(Terminal)' = RowsOf(Terminal)
        BY <1>0, <2>1, <3>1, <3>2, <3>3
      <4> QED
        BY <2>1, <3>3, <4>1
    <3>4. CASE row.notice = Limit /\ Sentinel = {} /\ Len(rows) >= MaxCheckpoints
      <4>1. Sentinel' # {} /\ RowsOf(Terminal)' = RowsOf(Terminal)
        BY <1>0, <3>1, <3>4
      <4> QED
        BY <2>1, <3>2, <3>4, <4>1
    <3>5. CASE row.notice = Terminal /\ RowsOf(Terminal) = {}
      <4>1. Sentinel' = Sentinel /\ RowsOf(Terminal)' # {}
        BY <1>0, <3>1, <3>5
      <4> QED
        BY <2>1, <3>2, <3>5, <4>1
    <3> QED
      BY <1>1, <3>3, <3>4, <3>5
  <2>3. ASSUME NEW q \in DOMAIN rows', NEW r \in DOMAIN rows',
               rows'[q].notice = rows'[r].notice, rows'[q].notice \in {Limit, Terminal}, q # r
        PROVE  FALSE
    <3>1. \A z \in DOMAIN rows' : z \in DOMAIN rows \/ z = Len(rows) + 1
      BY <2>1
    <3>2. CASE q \in DOMAIN rows /\ r \in DOMAIN rows
      BY <2>1, <2>3, <3>2 DEF Bounded
    <3>3. ASSUME NEW z \in DOMAIN rows, rows[z].notice = row.notice,
                 row.notice \in {Limit, Terminal}
          PROVE  FALSE
      <4>1. z \in RowsOf(row.notice)
        BY <3>3 DEF RowsOf
      <4> QED
        BY <1>0, <1>1, <3>3, <4>1
    <3> QED
      BY <2>1, <2>3, <3>1, <3>2, <3>3
  <2> QED
    BY <2>2, <2>3 DEF Bounded
<1>2. ASSUME NEW r \in DOMAIN rows, NEW row \in Row, Writes(r, row),
             row.notice = rows[r].notice
      PROVE  Bounded'
  <2>1. /\ Len(rows') = Len(rows) /\ DOMAIN rows' = DOMAIN rows
        /\ \A q \in DOMAIN rows : rows'[q].notice = rows[q].notice
        /\ \A notice : RowsOf(notice)' = RowsOf(notice)
    BY <1>0, <1>2, WritesEffect
  <2>2. RowsOf(Limit)' = RowsOf(Limit) /\ RowsOf(Terminal)' = RowsOf(Terminal)
    BY <2>1
  <2>3. \A q, z \in DOMAIN rows' :
          rows'[q].notice = rows'[z].notice /\ rows'[q].notice \in {Limit, Terminal} => q = z
    BY <2>1 DEF Bounded
  <2> QED
    BY <1>0, <2>1, <2>2, <2>3 DEF Bounded
<1>3. ASSUME NEW p \in Notifier, Woken(p) PROVE Bounded'
  <2>1. notifier[p].notice \in Notice
    BY <1>3 DEF Woken, Waking
  <2> QED
    BY <1>1, <1>2, <1>3, <2>1, WokenEffect
<1>4. CASE Finalized
  BY <1>1, <1>4, FinalizedEffect
<1>5. ASSUME NEW s \in Supervisor, NEW item \in supervisor[s].shown, NEW action \in Action,
             Decided(s, item, action)
      PROVE  Bounded'
  BY <1>2, <1>5, DecidedEffect
<1>6. ASSUME rows' = rows PROVE Bounded'
  BY <1>6 DEF Bounded, Sentinel, RowsOf
<1> QED
  BY <1>3, <1>4, <1>5, <1>6, StepEffect DEF Polled, Passed

(* Nobody gets ahead of the event log.                                     *)
LEMMA WatermarksStep == TypeOK /\ ShownExist /\ Watermarks /\ [Next]_vars => Watermarks'
<1> SUFFICES ASSUME TypeOK, ShownExist, Watermarks, [Next]_vars PROVE Watermarks'
  OBVIOUS
<1>0. /\ rows \in Seq(Row) /\ events \in Nat
      /\ \A r \in DOMAIN rows : rows[r] \in Row
      /\ \A r \in DOMAIN rows : rows[r].event \in Nat
      /\ \A s \in Supervisor : supervisor[s].after \in Nat /\ supervisor[s].cursor \in Nat
  BY RowFacts DEF TypeOK, Row, SupervisorProcess
<1>1. ASSUME NEW row \in Row, Adds(row), events' \in Nat, events' >= events,
             row.event <= events', supervisor' = supervisor
      PROVE  Watermarks'
  <2>1. /\ DOMAIN rows = 1 .. Len(rows) /\ DOMAIN rows' = 1 .. Len(rows) + 1
        /\ Len(rows) \in Nat
        /\ \A q \in DOMAIN rows : rows'[q] = rows[q]
        /\ rows'[Len(rows) + 1] = row
    BY <1>0, <1>1, AddsEffect
  <2>2. \A q \in DOMAIN rows' : rows'[q].event <= events'
    <3> TAKE q \in DOMAIN rows'
    <3>1. q \in DOMAIN rows \/ q = Len(rows) + 1
      BY <2>1
    <3> QED
      BY <1>0, <1>1, <2>1, <3>1 DEF Watermarks
  <2> QED
    BY <1>0, <1>1, <2>2 DEF Watermarks
<1>2. ASSUME NEW r \in DOMAIN rows, NEW row \in Row, Writes(r, row),
             row.notice = rows[r].notice, events' \in Nat, events' >= events,
             row.event <= events', supervisor' = supervisor
      PROVE  Watermarks'
  <2>1. /\ DOMAIN rows' = DOMAIN rows
        /\ \A q \in DOMAIN rows : q # r => rows'[q] = rows[q]
        /\ rows'[r] = row
    BY <1>0, <1>2, WritesEffect
  <2>2. \A q \in DOMAIN rows' : rows'[q].event <= events'
    BY <1>0, <1>2, <2>1 DEF Watermarks
  <2> QED
    BY <1>0, <1>2, <2>2 DEF Watermarks
<1>3. ASSUME NEW p \in Notifier, Woken(p) PROVE Watermarks'
  <2>1. supervisor' = supervisor
    BY <1>3 DEF Woken
  <2>2. \A r \in DOMAIN rows : rows[r].event <= events
    BY DEF Watermarks
  <2>3. /\ events + 1 \in Nat /\ events + 2 \in Nat /\ events + 2 >= events
        /\ events + 1 >= events /\ events >= events /\ events + 1 <= events + 2
        /\ events <= events + 1
    BY <1>0
  <2> QED
    BY <1>0, <1>1, <1>2, <1>3, <2>1, <2>2, <2>3, WokenEffect
<1>4. CASE Finalized
  <2>1. PICK row \in Row : /\ Adds(row) /\ events' = events + 2 /\ row.event = events
                           /\ supervisor' = supervisor
    BY <1>4, FinalizedEffect
  <2> QED
    BY <1>0, <1>1, <2>1
<1>5. ASSUME NEW s \in Supervisor, NEW item \in supervisor[s].shown, NEW action \in Action,
             Decided(s, item, action)
      PROVE  Watermarks'
  <2>1. PICK r \in DOMAIN rows, row \in Row :
           /\ Writes(r, row) /\ row.notice = rows[r].notice /\ row.event = rows[r].event
           /\ events' = events + 1 /\ supervisor' = supervisor
    BY <1>5, DecidedEffect
  <2>2. row.event <= events' /\ events' \in Nat /\ events' >= events
    BY <1>0, <2>1 DEF Watermarks
  <2> QED
    BY <1>2, <2>1, <2>2
<1>6. ASSUME NEW s \in Supervisor, Polled(s) PROVE Watermarks'
  BY <1>0, <1>6 DEF Polled, Watermarks
<1>7. CASE Passed
  BY <1>0, <1>7 DEF Passed, Watermarks
<1> QED
  BY <1>3, <1>4, <1>5, <1>6, <1>7, StepEffect

(* What a supervisor was woken for is not forgotten.                       *)
LEMMA ToldStep == TypeOK /\ ShownExist /\ Watermarks /\ Told /\ [Next]_vars => Told'
<1> SUFFICES ASSUME TypeOK, ShownExist, Watermarks, Told, [Next]_vars PROVE Told'
  OBVIOUS
<1>0. /\ rows \in Seq(Row) /\ events \in Nat
      /\ \A r \in DOMAIN rows : rows[r].event \in Nat
      /\ \A s \in Supervisor : supervisor[s].after \in Nat /\ supervisor[s].cursor \in Nat
  BY RowFacts DEF TypeOK, Row, SupervisorProcess
<1> DEFINE Kept == \A q \in DOMAIN rows :
             /\ q \in DOMAIN rows' /\ rows[q].stands \subseteq rows'[q].stands
             /\ rows'[q].notice = rows[q].notice
             /\ rows[q].notice = Limit \/ rows'[q].event = rows[q].event
<1>1. ASSUME Kept, supervisor' = supervisor PROVE Told'
  <2> SUFFICES ASSUME NEW s \in Supervisor, NEW n \in supervisor[s].told
               PROVE  \E q \in DOMAIN rows' :
                        /\ n \in rows'[q].stands
                        /\ rows'[q].notice = Limit \/ rows'[q].event <= supervisor[s].after
    BY <1>1 DEF Told
  <2>1. PICK q \in DOMAIN rows :
                        /\ n \in rows[q].stands
                        /\ rows[q].notice = Limit \/ rows[q].event <= supervisor[s].after
    BY DEF Told
  <2> QED
    BY <1>1, <2>1
<1>2. ASSUME NEW row, Adds(row) PROVE Kept
  BY <1>0, <1>2, AddsEffect
<1>3. ASSUME NEW r \in DOMAIN rows, NEW row, Writes(r, row), row.notice = rows[r].notice,
             rows[r].stands \subseteq row.stands,
             row.notice = Limit \/ row.event = rows[r].event
      PROVE  Kept
  BY <1>3 DEF Writes
<1> HIDE DEF Kept
<1>4. ASSUME NEW p \in Notifier, Woken(p) PROVE Told'
  <2>1. supervisor' = supervisor
    BY <1>4 DEF Woken
  <2>2. \A S, n : S \subseteq S \cup {n}
    OBVIOUS
  <2>3. Kept
    BY <1>2, <1>3, <1>4, <2>2, WokenEffect
  <2> QED
    BY <1>1, <2>1, <2>3
<1>5. CASE Finalized
  BY <1>1, <1>2, <1>5 DEF Finalized
<1>6. ASSUME NEW s \in Supervisor, NEW item \in supervisor[s].shown, NEW action \in Action,
             Decided(s, item, action)
      PROVE  Told'
  <2>1. PICK r \in DOMAIN rows, row \in Row :
           /\ Writes(r, row) /\ row.notice = rows[r].notice /\ row.event = rows[r].event
           /\ row.stands = rows[r].stands /\ supervisor' = supervisor
    BY <1>6, DecidedEffect
  <2> QED
    BY <1>1, <1>3, <2>1
<1>7. ASSUME NEW s \in Supervisor, Polled(s) PROVE Told'
  <2>1. supervisor'[s].after >= supervisor[s].after /\ supervisor'[s].after \in Nat
    BY <1>0, <1>7 DEF Polled, Watermarks
  <2>2. ASSUME NEW n \in supervisor'[s].told
        PROVE  \E q \in DOMAIN rows :
                 /\ n \in rows[q].stands
                 /\ rows[q].notice = Limit \/ rows[q].event <= supervisor'[s].after
    <3>1. CASE n \in supervisor[s].told
      BY <1>0, <2>1, <3>1 DEF Told
    <3>2. CASE n \notin supervisor[s].told
      <4>1. supervisor'[s].after = events /\ \E r \in Pending : n \in rows[r].stands
        BY <1>7, <2>2, <3>2 DEF Polled
      <4> QED
        BY <4>1 DEF Pending, Watermarks
    <3> QED
      BY <3>1, <3>2
  <2> QED
    BY <1>7, <2>2 DEF Polled, Told
<1>8. CASE Passed
  BY <1>8 DEF Passed, Told
<1> QED
  BY <1>4, <1>5, <1>6, <1>7, <1>8, StepEffect

(* What a digest has shown stays in the table.                             *)
LEMMA ShownStep == TypeOK /\ ShownExist /\ [Next]_vars => ShownExist'
<1> SUFFICES ASSUME TypeOK, ShownExist, [Next]_vars PROVE ShownExist'
  OBVIOUS
<1>0. rows \in Seq(Row)
  BY DEF TypeOK
<1>1. ASSUME DOMAIN rows \subseteq DOMAIN rows', supervisor' = supervisor PROVE ShownExist'
  BY <1>1 DEF ShownExist
<1>2. ASSUME NEW row, Adds(row) PROVE DOMAIN rows \subseteq DOMAIN rows'
  BY <1>0, <1>2, AddsEffect
<1>3. ASSUME NEW r, NEW row, Writes(r, row) PROVE DOMAIN rows \subseteq DOMAIN rows'
  BY <1>3 DEF Writes
<1>4. ASSUME NEW p \in Notifier, Woken(p) PROVE ShownExist'
  BY <1>1, <1>2, <1>3, <1>4 DEF Woken, Recorded
<1>5. CASE Finalized
  BY <1>1, <1>2, <1>5 DEF Finalized
<1>6. ASSUME NEW s \in Supervisor, NEW item \in supervisor[s].shown, NEW action \in Action,
             Decided(s, item, action)
      PROVE  ShownExist'
  BY <1>1, <1>3, <1>6 DEF Decided
<1>7. ASSUME NEW s \in Supervisor, Polled(s) PROVE ShownExist'
  <2>1. \A item \in supervisor'[s].shown : item[1] \in DOMAIN rows
    BY <1>7 DEF Polled, ShownExist, Pending
  <2> QED
    BY <1>7, <2>1 DEF Polled, ShownExist
<1>8. CASE Passed
  BY <1>1, <1>8 DEF Passed
<1> QED
  BY <1>4, <1>5, <1>6, <1>7, <1>8, StepEffect

(* What a digest has shown of the pending sentinel stays current as long as *)
(* its cursor has reached the sentinel.                                    *)
LEMMA FreshStep ==
  TypeOK /\ ShownExist /\ Waking /\ Bounded /\ Watermarks /\ Fresh /\ [Next]_vars => Fresh'
<1> SUFFICES ASSUME TypeOK, ShownExist, Waking, Bounded, Watermarks, Fresh, [Next]_vars
             PROVE  Fresh'
  OBVIOUS
<1>0. /\ rows \in Seq(Row) /\ events \in Nat
      /\ \A r \in DOMAIN rows : rows[r].event \in Nat
      /\ \A s \in Supervisor : supervisor[s].after \in Nat /\ supervisor[s].cursor \in Nat
      /\ \A r \in Pending : r \in DOMAIN rows
      /\ \A r \in Sentinel : r \in DOMAIN rows /\ rows[r].notice = Limit
  BY RowFacts DEF TypeOK, Row, SupervisorProcess, Pending, Sentinel, RowsOf
<1>1. ASSUME NEW row \in Row, Adds(row), supervisor' = supervisor PROVE Fresh'
  <2>1. /\ Len(rows) \in Nat /\ DOMAIN rows = 1 .. Len(rows)
        /\ \A q \in DOMAIN rows : rows'[q] = rows[q]
        /\ Sentinel' \subseteq Sentinel \cup {Len(rows) + 1}
        /\ Pending' \subseteq Pending \cup {Len(rows) + 1}
    BY <1>0, <1>1, AddsEffect DEF Sentinel
  <2>2. \A s \in Supervisor : \A item \in supervisor[s].shown : item[1] # Len(rows) + 1
    BY <2>1 DEF ShownExist
  <2> QED
    BY <1>0, <1>1, <2>1, <2>2 DEF Fresh
<1>2. ASSUME NEW r \in DOMAIN rows, NEW row \in Row, Writes(r, row), row.notice = rows[r].notice,
             supervisor' = supervisor,
             \/ rows[r].notice # Limit
             \/ row.event = events + 1
             \/ row.decision # Undecided
      PROVE  Fresh'
  <2>1. /\ \A q \in DOMAIN rows : q # r => rows'[q] = rows[q]
        /\ rows'[r] = row /\ Sentinel' = Sentinel
        /\ Pending' = IF row.decision = Undecided THEN Pending \cup {r} ELSE Pending \ {r}
    BY <1>0, <1>2, WritesEffect DEF Sentinel
  <2>2. ASSUME NEW s \in Supervisor, row.event = events + 1 PROVE ~(row.event <= supervisor[s].after)
    BY <1>0, <2>2 DEF Watermarks
  <2> SUFFICES ASSUME NEW s \in Supervisor, NEW item \in supervisor[s].shown,
                      item[1] \in Sentinel, item[1] \in Pending',
                      rows'[item[1]].event <= supervisor[s].after
               PROVE  item[2] = rows'[item[1]].stands
    BY <1>2, <2>1 DEF Fresh
  <2>3. item[1] # r
    BY <1>0, <1>2, <2>1, <2>2
  <2> QED
    BY <1>0, <2>1, <2>3 DEF Fresh
<1>3. ASSUME NEW p \in Notifier, Woken(p) PROVE Fresh'
  <2>1. notifier[p].notice # Limit /\ supervisor' = supervisor
    BY <1>3, CheckpointAssumption DEF Woken, Waking
  <2> QED
    BY <1>1, <1>2, <1>3, <2>1, WokenEffect
<1>4. CASE Finalized
  BY <1>1, <1>4, FinalizedEffect
<1>5. ASSUME NEW s \in Supervisor, NEW item \in supervisor[s].shown, NEW action \in Action,
             Decided(s, item, action)
      PROVE  Fresh'
  BY <1>2, <1>5, DecidedEffect
<1>6. ASSUME NEW s \in Supervisor, Polled(s) PROVE Fresh'
  <2>1. Sentinel' = Sentinel /\ Pending' = Pending /\ rows' = rows
    BY <1>6 DEF Polled, Sentinel, RowsOf, Pending, IsPending
  <2> SUFFICES ASSUME NEW item \in supervisor'[s].shown, item[1] \in Sentinel \cap Pending,
                      rows[item[1]].event <= supervisor'[s].after
               PROVE  item[2] = rows[item[1]].stands
    BY <1>6, <2>1 DEF Polled, Fresh
  <2>2. CASE supervisor'[s].shown = {<<r, rows[r].stands>> : r \in Pending}
    BY <2>2
  <2>3. CASE /\ supervisor'[s].after = supervisor[s].after
             /\ supervisor'[s].shown \subseteq supervisor[s].shown
    BY <2>3 DEF Fresh
  <2> QED
    BY <1>6, <2>2, <2>3 DEF Polled
<1>7. CASE Passed
  BY <1>7 DEF Passed, Fresh, Sentinel, RowsOf, Pending, IsPending
<1> QED
  BY <1>3, <1>4, <1>5, <1>6, <1>7, StepEffect

(* A decision on the sentinel knows all it stands for.                     *)
LEMMA InformedStep ==
  TypeOK /\ ShownExist /\ Waking /\ Fresh /\ DecisionsAreInformed /\ [Next]_vars
    => DecisionsAreInformed'
<1> SUFFICES ASSUME TypeOK, ShownExist, Waking, Fresh, DecisionsAreInformed, [Next]_vars
             PROVE  DecisionsAreInformed'
  OBVIOUS
<1>0. /\ rows \in Seq(Row) /\ Sentinel = RowsOf(Limit) /\ Sentinel' = RowsOf(Limit)'
      /\ \A r \in DOMAIN rows : IsPending(r) <=> rows[r].decision = Undecided
      /\ \A r \in RowsOf(Limit) : r \in DOMAIN rows /\ rows[r].notice = Limit
  BY DEF TypeOK, Sentinel, IsPending, RowsOf
<1>1. ASSUME NEW row \in Row, Adds(row), row.decision = Undecided PROVE DecisionsAreInformed'
  BY <1>0, <1>1, AddsEffect DEF DecisionsAreInformed, IsPending
<1>2. ASSUME NEW r \in DOMAIN rows, NEW row \in Row, Writes(r, row), row.notice = rows[r].notice,
             \/ row.decision = Undecided
             \/ row.notice = Limit => row.stands = row.known
      PROVE  DecisionsAreInformed'
  BY <1>0, <1>2, WritesEffect DEF DecisionsAreInformed, IsPending
<1>3. ASSUME NEW p \in Notifier, Woken(p) PROVE DecisionsAreInformed'
  BY <1>1, <1>2, <1>3, WokenEffect
<1>4. CASE Finalized
  BY <1>1, <1>4, FinalizedEffect
<1>5. ASSUME NEW s \in Supervisor, NEW item \in supervisor[s].shown, NEW action \in Action,
             Decided(s, item, action)
      PROVE  DecisionsAreInformed'
  <2>1. PICK r \in DOMAIN rows, row \in Row :
           /\ r = item[1] /\ IsPending(r) /\ rows[r].event <= supervisor[s].after
           /\ Writes(r, row) /\ row.notice = rows[r].notice
           /\ row.stands = rows[r].stands /\ row.known = item[2]
    BY <1>5, DecidedEffect
  <2>2. row.notice = Limit => row.stands = row.known
    BY <2>1 DEF Fresh, Sentinel, RowsOf, Pending
  <2> QED
    BY <1>2, <2>1, <2>2
<1>6. ASSUME rows' = rows PROVE DecisionsAreInformed'
  BY <1>6 DEF DecisionsAreInformed, RowsOf, IsPending
<1> QED
  BY <1>3, <1>4, <1>5, <1>6, StepEffect DEF Polled, Passed

(* Every supervisor has been woken for the pending sentinel or will be.    *)
LEMMA OverflowStep ==
  TypeOK /\ ShownExist /\ Waking /\ Watermarks /\ OverflowWakes /\ [Next]_vars
    => OverflowWakes'
<1> SUFFICES ASSUME TypeOK, ShownExist, Waking, Watermarks, OverflowWakes, [Next]_vars
             PROVE  OverflowWakes'
  OBVIOUS
<1>0. /\ rows \in Seq(Row) /\ events \in Nat
      /\ \A r \in DOMAIN rows : rows[r].event \in Nat
      /\ \A s \in Supervisor : supervisor[s].after \in Nat /\ supervisor[s].cursor \in Nat
      /\ \A r \in Pending : r \in DOMAIN rows
      /\ \A r \in RowsOf(Limit) : r \in DOMAIN rows /\ rows[r].notice = Limit
      /\ \A s \in Supervisor : ~(events + 1 <= supervisor[s].after)
                             /\ events + 1 > supervisor[s].after
  BY RowFacts DEF TypeOK, Row, SupervisorProcess, Pending, RowsOf, Watermarks
<1>1. ASSUME NEW row \in Row, Adds(row), supervisor' = supervisor,
             row.notice = Limit => row.event = events + 1
      PROVE  OverflowWakes'
  <2>1. /\ Len(rows) \in Nat /\ DOMAIN rows = 1 .. Len(rows)
        /\ \A q \in DOMAIN rows : rows'[q] = rows[q]
        /\ rows'[Len(rows) + 1] = row
        /\ RowsOf(Limit)' = IF row.notice = Limit THEN RowsOf(Limit) \cup {Len(rows) + 1}
                            ELSE RowsOf(Limit)
        /\ Pending' \subseteq Pending \cup {Len(rows) + 1}
    BY <1>0, <1>1, AddsEffect
  <2>2. Len(rows) + 1 \notin DOMAIN rows
    BY <2>1
  <2> QED
    BY <1>0, <1>1, <2>1, <2>2 DEF OverflowWakes, Reaches
<1>2. ASSUME NEW r \in DOMAIN rows, NEW row \in Row, Writes(r, row), row.notice = rows[r].notice,
             supervisor' = supervisor,
             \/ rows[r].notice # Limit
             \/ row.event = events + 1
             \/ row.decision # Undecided
      PROVE  OverflowWakes'
  <2>1. /\ \A q \in DOMAIN rows : q # r => rows'[q] = rows[q]
        /\ rows'[r] = row /\ RowsOf(Limit)' = RowsOf(Limit)
        /\ Pending' = IF row.decision = Undecided THEN Pending \cup {r} ELSE Pending \ {r}
    BY <1>0, <1>2, WritesEffect
  <2> QED
    BY <1>0, <1>2, <2>1 DEF OverflowWakes, Reaches
<1>3. ASSUME NEW p \in Notifier, Woken(p) PROVE OverflowWakes'
  <2>1. notifier[p].notice # Limit /\ supervisor' = supervisor
    BY <1>3, CheckpointAssumption DEF Woken, Waking
  <2> QED
    BY <1>1, <1>2, <1>3, <2>1, WokenEffect
<1>4. CASE Finalized
  <2>1. Limit # Terminal
    BY DEF Limit, Terminal
  <2> QED
    BY <1>1, <1>4, <2>1, FinalizedEffect
<1>5. ASSUME NEW s \in Supervisor, NEW item \in supervisor[s].shown, NEW action \in Action,
             Decided(s, item, action)
      PROVE  OverflowWakes'
  BY <1>2, <1>5, DecidedEffect
<1>6. ASSUME NEW s \in Supervisor, Polled(s) PROVE OverflowWakes'
  <2>1. RowsOf(Limit)' = RowsOf(Limit) /\ Pending' = Pending /\ rows' = rows
    BY <1>6 DEF Polled, RowsOf, Pending, IsPending
  <2> SUFFICES ASSUME NEW r \in RowsOf(Limit) \cap Pending
               PROVE  \/ rows[r].event > supervisor'[s].after
                      \/ rows[r].stands \subseteq supervisor'[s].told
    BY <1>6, <2>1 DEF Polled, OverflowWakes, Reaches
  <2>2. \/ rows[r].event > supervisor[s].after
        \/ rows[r].stands \subseteq supervisor[s].told
    BY DEF OverflowWakes, Reaches
  <2>3. CASE supervisor'[s].after = supervisor[s].after /\ supervisor'[s].told = supervisor[s].told
    BY <2>2, <2>3
  <2>4. CASE /\ supervisor[s].told \subseteq supervisor'[s].told
             /\ WakeRequired(s) => \A q \in Pending : rows[q].stands \subseteq supervisor'[s].told
    BY <2>2, <2>4 DEF WakeRequired
  <2> QED
    BY <1>6, <2>3, <2>4 DEF Polled
<1>7. CASE Passed
  BY <1>7 DEF Passed, OverflowWakes, Reaches, RowsOf, Pending, IsPending
<1> QED
  BY <1>3, <1>4, <1>5, <1>6, <1>7, StepEffect

\* Nobody has started to wake for a new occurrence.
NobodyNew ==
  /\ occurrences' \in Nat /\ occurrences' >= occurrences
  /\ \A p \in Notifier : notifier'[p].pc # "idle" =>
       /\ notifier[p].pc # "idle"
       /\ notifier'[p].notice = notifier[p].notice
       /\ notifier'[p].occurrence = notifier[p].occurrence

(* A new row for an occurrence that no open row stands for.                *)
LEMMA RecordingsAdd ==
  ASSUME TypeOK, Waking, Bounded, Recordings, NobodyNew, NEW row \in Row, Adds(row),
         row.decision = Undecided,
         \/ row.notice = Terminal /\ row.stands = {0} /\ RowsOf(Terminal) = {}
         \/ \E p \in Notifier :
              /\ notifier[p].pc # "idle" /\ row.stands = {notifier[p].occurrence}
              /\ Repeated(notifier[p].notice) = {}
              /\ \/ row.notice = notifier[p].notice /\ Len(rows) < MaxCheckpoints
                 \/ /\ row.notice = Limit /\ Sentinel = {} /\ Len(rows) >= MaxCheckpoints
  PROVE  Recordings'
<1> USE CheckpointAssumption
<1> DEFINE new == Len(rows) + 1
<1>0. /\ Len(rows) \in Nat /\ occurrences \in Nat /\ rows \in Seq(Row)
      /\ Limit # Terminal /\ Sentinel = RowsOf(Limit)
  BY RowFacts DEF TypeOK, Limit, Terminal, Sentinel
<1>1. /\ DOMAIN rows = 1 .. Len(rows) /\ DOMAIN rows' = 1 .. Len(rows) + 1
      /\ \A q \in DOMAIN rows : rows'[q] = rows[q]
      /\ rows'[new] = row
      /\ \A notice : RowsOf(notice)' = IF row.notice = notice
           THEN RowsOf(notice) \cup {new} ELSE RowsOf(notice)
      /\ Pending' = Pending \cup {new}
  BY <1>0, AddsEffect
<1>2. /\ new \notin DOMAIN rows /\ \A q \in DOMAIN rows' : q \in DOMAIN rows \/ q = new
  BY <1>0, <1>1
<1> HIDE DEF new
<1>3. Open' = Open \cup {new}
  <2>1. Open = Pending \cup RowsOf(Limit) /\ Open' = (Pending \cup RowsOf(Limit))'
    BY DEF Open, Pending, Sentinel, RowsOf
  <2> QED
    BY <1>1, <2>1
<1>4. \A p \in Notifier : notifier[p].pc # "idle" =>
        /\ notifier[p].notice \in Notice /\ notifier[p].notice # Limit
        /\ notifier[p].notice # Terminal
        /\ notifier[p].occurrence \in 1 .. occurrences
  BY DEF Waking
\* No open row stands for what the new row stands for.
<1>5. ASSUME NEW q \in Open PROVE rows[q].stands \cap row.stands = {}
  <2>0. q \in DOMAIN rows
    BY DEF Open
  <2>1. CASE row.notice = Terminal /\ row.stands = {0} /\ RowsOf(Terminal) = {}
    <3>1. rows[q].notice # Terminal
      BY <2>0, <2>1 DEF RowsOf
    <3>2. rows[q].stands \subseteq 1 .. occurrences
      BY <2>0, <3>1 DEF Recordings
    <3> QED
      BY <2>1, <3>2
  <2>2. ASSUME NEW p \in Notifier, notifier[p].pc # "idle",
               Repeated(notifier[p].notice) = {},
               notifier[p].occurrence \in rows[q].stands,
               Len(rows) < MaxCheckpoints \/ Sentinel = {}
        PROVE  FALSE
    <3>1. CASE rows[q].notice = notifier[p].notice
      <4>1. q \notin Sentinel
        BY <1>4, <2>2, <3>1 DEF Sentinel, RowsOf
      <4>2. q \in Repeated(notifier[p].notice)
        BY <2>0, <3>1, <4>1 DEF Open, Repeated, RowsOf
      <4> QED
        BY <2>2, <4>2
    <3>2. CASE rows[q].notice = Limit
      <4>1. q \in Sentinel
        BY <2>0, <3>2 DEF Sentinel, RowsOf
      <4>2. Len(rows) >= MaxCheckpoints
        BY <4>1 DEF Bounded
      <4> QED
        BY <1>0, <2>2, <4>1, <4>2
    <3> QED
      BY <2>0, <2>2, <3>1, <3>2 DEF Recordings
  <2> QED
    BY <2>1, <2>2
\* No pending row bears the notice of the new row.
<1>6. ASSUME NEW q \in Pending, rows[q].notice = row.notice PROVE FALSE
  <2>0. q \in DOMAIN rows /\ IsPending(q)
    BY DEF Pending
  <2>1. q \in RowsOf(row.notice)
    BY <1>6, <2>0 DEF RowsOf
  <2> QED
    BY <1>0, <2>0, <2>1 DEF Repeated
<1>7. \A p, q \in Notifier : p # q /\ notifier'[p].pc # "idle" /\ notifier'[q].pc # "idle" =>
        notifier'[p].occurrence # notifier'[q].occurrence
  BY DEF NobodyNew, Recordings
<1>8. \A r \in DOMAIN rows' : IF rows'[r].notice = Terminal THEN rows'[r].stands = {0}
                              ELSE rows'[r].stands \subseteq 1 .. occurrences'
  <2>1. IF row.notice = Terminal THEN row.stands = {0} ELSE row.stands \subseteq 1 .. occurrences
    BY <1>0, <1>4
  <2>2. 1 .. occurrences \subseteq 1 .. occurrences'
    BY <1>0 DEF NobodyNew
  <2>3. \A r \in DOMAIN rows : IF rows[r].notice = Terminal THEN rows[r].stands = {0}
                                ELSE rows[r].stands \subseteq 1 .. occurrences
    BY DEF Recordings
  <2> QED
    BY <1>1, <1>2, <2>1, <2>2, <2>3
<1>9. \A q, r \in Pending' : rows'[q].notice = rows'[r].notice => q = r
  <2>1. \A q \in Pending : q \in DOMAIN rows
    BY DEF Pending
  <2> QED
    BY <1>1, <1>6, <2>1 DEF Recordings
<1>10. ASSUME NEW p \in Notifier, NEW r \in DOMAIN rows',
              notifier'[p].pc # "idle", notifier'[p].occurrence \in rows'[r].stands
       PROVE  \/ rows'[r].notice = notifier'[p].notice
              \/ rows'[r].notice = Limit /\ Repeated(notifier[p].notice)' = {}
  <2>1. /\ notifier[p].pc # "idle" /\ notifier'[p].notice = notifier[p].notice
        /\ notifier'[p].occurrence = notifier[p].occurrence
    BY <1>10 DEF NobodyNew
  <2>2. ASSUME Repeated(notifier[p].notice) = {}, row.notice # notifier[p].notice
        PROVE  Repeated(notifier[p].notice)' = {}
    <3>1. Repeated(notifier[p].notice)' =
            {z \in DOMAIN rows' : rows'[z].notice = notifier'[p].notice /\ z \in Pending'}
      BY DEF Repeated, RowsOf, Pending
    <3>2. ASSUME NEW z \in DOMAIN rows', rows'[z].notice = notifier'[p].notice, z \in Pending'
          PROVE  FALSE
      <4>1. z # new
        BY <1>1, <2>1, <2>2, <3>2
      <4>2. z \in DOMAIN rows /\ rows[z].notice = notifier[p].notice /\ z \in Pending
        BY <1>1, <1>2, <2>1, <3>2, <4>1
      <4> QED
        BY <2>2, <4>2 DEF Repeated, RowsOf, Pending
    <3> QED
      BY <3>1, <3>2
  <2>3. CASE r = new
    <3>1. PICK p2 \in Notifier :
              /\ notifier[p2].pc # "idle" /\ row.stands = {notifier[p2].occurrence}
              /\ Repeated(notifier[p2].notice) = {}
              /\ \/ row.notice = notifier[p2].notice /\ Len(rows) < MaxCheckpoints
                 \/ /\ row.notice = Limit /\ Sentinel = {} /\ Len(rows) >= MaxCheckpoints
      <4>1. ~(row.stands = {0})
        BY <1>1, <1>4, <1>10, <2>1, <2>3, <1>0
      <4> QED
        BY <4>1
    <3>2. p2 = p
      BY <1>1, <1>10, <2>1, <2>3, <3>1 DEF Recordings
    <3> QED
      BY <1>1, <1>4, <2>1, <2>2, <2>3, <3>1, <3>2
  <2>4. CASE r \in DOMAIN rows
    <3>1. \/ rows[r].notice = notifier[p].notice
          \/ rows[r].notice = Limit /\ Repeated(notifier[p].notice) = {}
      BY <1>1, <1>10, <2>1, <2>4 DEF Recordings
    <3>2. ASSUME rows[r].notice = Limit, row.notice = notifier[p].notice PROVE FALSE
      <4>1. r \in Sentinel
        BY <2>4, <3>2 DEF Sentinel, RowsOf
      <4>2. Len(rows) >= MaxCheckpoints
        BY <4>1 DEF Bounded
      <4> QED
        BY <1>0, <1>4, <2>1, <3>2, <4>2
    <3> QED
      BY <1>1, <2>1, <2>2, <2>4, <3>1, <3>2
  <2> QED
    BY <1>2, <2>3, <2>4
<1>11. \A q, r \in Open' : q # r => rows'[q].stands \cap rows'[r].stands = {}
  <2>1. \A q \in Open : q \in DOMAIN rows
    BY DEF Open
  <2>2. \A q, r \in Open : q # r => rows[q].stands \cap rows[r].stands = {}
    BY DEF Recordings
  <2> QED
    BY <1>1, <1>3, <1>5, <2>1, <2>2
<1>12. \A p \in Notifier : \A r \in DOMAIN rows' :
         notifier'[p].pc # "idle" /\ notifier'[p].occurrence \in rows'[r].stands =>
           \/ rows'[r].notice = notifier'[p].notice
           \/ rows'[r].notice = Limit /\ Repeated(notifier[p].notice)' = {}
  BY <1>10
<1> HIDE DEF NobodyNew
<1> QED
  BY <1>7, <1>8, <1>9, <1>11, <1>12 DEF Recordings

(* A row is decided, or written for an occurrence that is open nowhere else. *)
LEMMA RecordingsWrite ==
  ASSUME TypeOK, Waking, Bounded, Recordings, NobodyNew, NEW r \in DOMAIN rows,
         NEW row \in Row, Writes(r, row), row.notice = rows[r].notice,
         \/ row.decision # Undecided /\ row.stands = rows[r].stands
         \/ \E p \in Notifier :
              /\ notifier[p].pc # "idle"
              /\ row.stands = rows[r].stands \cup {notifier[p].occurrence}
              /\ \/ r \in Repeated(notifier[p].notice)
                 \/ r \in Sentinel /\ Repeated(notifier[p].notice) = {}
  PROVE  Recordings'
<1>0. /\ occurrences \in Nat /\ rows \in Seq(Row) /\ Limit # Terminal
      /\ \A p \in Notifier : notifier[p].pc # "idle" =>
           /\ notifier[p].notice \in Notice /\ notifier[p].notice # Limit
           /\ notifier[p].notice # Terminal
           /\ notifier[p].occurrence \in 1 .. occurrences
  BY CheckpointAssumption DEF TypeOK, Limit, Terminal, Waking
<1>1. /\ DOMAIN rows' = DOMAIN rows
      /\ \A q \in DOMAIN rows : q # r => rows'[q] = rows[q]
      /\ rows'[r] = row
      /\ \A q \in DOMAIN rows : rows'[q].notice = rows[q].notice
      /\ \A notice : RowsOf(notice)' = RowsOf(notice)
      /\ Pending' = IF row.decision = Undecided THEN Pending \cup {r} ELSE Pending \ {r}
  BY <1>0, WritesEffect
<1>2. /\ \A q : q \in Pending <=> q \in DOMAIN rows /\ IsPending(q)
      /\ \A q : q \in Sentinel <=> q \in DOMAIN rows /\ rows[q].notice = Limit
      /\ \A q, notice : q \in Repeated(notice) <=>
           q \in DOMAIN rows /\ rows[q].notice = notice /\ IsPending(q)
  BY DEF Pending, Sentinel, RowsOf, Repeated
<1>3. row.decision = Undecided => r \in Pending \/ r \in Sentinel
  BY <1>2
<1>4. Open' \subseteq Open
  <2>1. Open = Pending \cup RowsOf(Limit) /\ Open' = (Pending \cup RowsOf(Limit))'
    BY DEF Open, Pending, Sentinel, RowsOf
  <2>2. row.decision = Undecided => r \in Pending \cup RowsOf(Limit)
    BY <1>3 DEF Sentinel
  <2> QED
    BY <1>1, <2>1, <2>2
\* Nobody else has the occurrence.
<1>5. ASSUME NEW p \in Notifier, notifier[p].pc # "idle", NEW q \in DOMAIN rows,
             notifier[p].occurrence \in rows[q].stands,
             \/ r \in Repeated(notifier[p].notice)
             \/ r \in Sentinel /\ Repeated(notifier[p].notice) = {}
      PROVE  q = r \/ q \notin Open
  <2>1. \/ rows[q].notice = notifier[p].notice
        \/ rows[q].notice = Limit /\ Repeated(notifier[p].notice) = {}
    BY <1>5 DEF Recordings
  <2>2. CASE r \in Repeated(notifier[p].notice)
    <3>1. rows[q].notice = rows[r].notice /\ rows[q].notice # Limit /\ r \in Pending
      BY <1>0, <1>2, <1>5, <2>1, <2>2
    <3>2. q \in Open => q \in Pending
      BY <1>2, <3>1 DEF Open
    <3> QED
      BY <3>1, <3>2 DEF Recordings
  <2>3. CASE r \in Sentinel /\ Repeated(notifier[p].notice) = {}
    <3>1. CASE rows[q].notice = Limit
      BY <1>2, <2>3, <3>1 DEF Bounded
    <3>2. CASE rows[q].notice = notifier[p].notice
      <4>1. q \notin Sentinel
        BY <1>0, <1>2, <1>5, <3>2
      <4> QED
        BY <1>2, <2>3, <3>2, <4>1 DEF Open
    <3> QED
      BY <2>1, <3>1, <3>2
  <2> QED
    BY <1>5, <2>2, <2>3
<1>6. \A p, q \in Notifier : p # q /\ notifier'[p].pc # "idle" /\ notifier'[q].pc # "idle" =>
        notifier'[p].occurrence # notifier'[q].occurrence
  BY DEF NobodyNew, Recordings
<1>7. \A q \in DOMAIN rows' : IF rows'[q].notice = Terminal THEN rows'[q].stands = {0}
                              ELSE rows'[q].stands \subseteq 1 .. occurrences'
  <2>1. 1 .. occurrences \subseteq 1 .. occurrences'
    BY <1>0 DEF NobodyNew
  <2>2. \A q \in DOMAIN rows : IF rows[q].notice = Terminal THEN rows[q].stands = {0}
                                ELSE rows[q].stands \subseteq 1 .. occurrences
    BY DEF Recordings
  <2>3. IF row.notice = Terminal THEN row.stands = {0} ELSE row.stands \subseteq 1 .. occurrences
    <3>1. CASE row.stands = rows[r].stands
      BY <2>2, <3>1
    <3>2. ASSUME NEW p \in Notifier, notifier[p].pc # "idle",
                 row.stands = rows[r].stands \cup {notifier[p].occurrence},
                 r \in Repeated(notifier[p].notice) \/ r \in Sentinel
          PROVE  row.notice # Terminal /\ row.stands \subseteq 1 .. occurrences
      BY <1>0, <1>2, <2>2, <3>2
    <3> QED
      BY <3>1, <3>2
  <2> QED
    BY <1>1, <2>1, <2>2, <2>3
<1>8. \A q, z \in Pending' : rows'[q].notice = rows'[z].notice => q = z
  <2> SUFFICES ASSUME NEW q \in Pending', NEW z \in Pending', rows'[q].notice = rows'[z].notice
               PROVE  q = z
    OBVIOUS
  <2>1. q \in DOMAIN rows /\ z \in DOMAIN rows /\ rows[q].notice = rows[z].notice
    BY <1>1, <1>2
  <2>2. CASE rows[q].notice = Limit
    BY <2>1, <2>2 DEF Bounded
  <2>3. CASE rows[q].notice # Limit
    <3>1. q \in Pending /\ z \in Pending
      BY <1>1, <1>2, <1>3, <2>1, <2>3
    <3> QED
      BY <2>1, <3>1 DEF Recordings
  <2> QED
    BY <2>2, <2>3
<1>9. ASSUME NEW p \in Notifier, NEW q \in DOMAIN rows,
             notifier'[p].pc # "idle", notifier'[p].occurrence \in rows'[q].stands
      PROVE  \/ rows'[q].notice = notifier'[p].notice
             \/ rows'[q].notice = Limit /\ Repeated(notifier[p].notice)' = {}
  <2>1. /\ notifier[p].pc # "idle" /\ notifier'[p].notice = notifier[p].notice
        /\ notifier'[p].occurrence = notifier[p].occurrence
    BY <1>9 DEF NobodyNew
  <2>2. ASSUME Repeated(notifier[p].notice) = {} PROVE Repeated(notifier[p].notice)' = {}
    <3>1. Repeated(notifier[p].notice)' =
            {z \in DOMAIN rows' : rows'[z].notice = notifier'[p].notice /\ z \in Pending'}
      BY DEF Repeated, RowsOf, Pending
    <3>2. ASSUME NEW z \in DOMAIN rows, rows[z].notice = notifier[p].notice, z \in Pending'
          PROVE  FALSE
      <4>1. z # r \/ r \in Pending
        BY <1>0, <1>1, <1>2, <1>3, <2>1, <3>2
      <4>2. z \in Pending
        BY <1>1, <3>2, <4>1
      <4> QED
        BY <1>2, <2>2, <3>2, <4>2
    <3> QED
      BY <1>1, <2>1, <3>1, <3>2
  <2>3. CASE notifier[p].occurrence \in rows[q].stands
    <3>1. \/ rows[q].notice = notifier[p].notice
          \/ rows[q].notice = Limit /\ Repeated(notifier[p].notice) = {}
      BY <2>1, <2>3 DEF Recordings
    <3> QED
      BY <1>1, <2>1, <2>2, <3>1
  <2>4. CASE notifier[p].occurrence \notin rows[q].stands
    <3>1. q = r /\ notifier[p].occurrence \in row.stands
      BY <1>1, <1>9, <2>1, <2>4
    <3>2. PICK p2 \in Notifier :
              /\ notifier[p2].pc # "idle"
              /\ row.stands = rows[r].stands \cup {notifier[p2].occurrence}
              /\ \/ r \in Repeated(notifier[p2].notice)
                 \/ r \in Sentinel /\ Repeated(notifier[p2].notice) = {}
      BY <2>4, <3>1
    <3>3. p2 = p
      BY <2>1, <2>4, <3>1, <3>2 DEF Recordings
    <3> QED
      BY <1>1, <1>2, <2>1, <2>2, <3>1, <3>2, <3>3
  <2> QED
    BY <2>3, <2>4
<1>10. \A q, z \in Open' : q # z => rows'[q].stands \cap rows'[z].stands = {}
  <2>1. \A q \in Open' : q \in Open /\ q \in DOMAIN rows
    BY <1>4 DEF Open
  <2>2. \A q, z \in Open : q # z => rows[q].stands \cap rows[z].stands = {}
    BY DEF Recordings
  <2>3. r \in Open' => r \in Open
    BY <1>4
  <2>4. \A q \in Open : r \in Open /\ q # r => rows[q].stands \cap row.stands = {}
    <3> SUFFICES ASSUME NEW q \in Open, r \in Open, q # r
                 PROVE  rows[q].stands \cap row.stands = {}
      OBVIOUS
    <3>1. q \in DOMAIN rows /\ rows[q].stands \cap rows[r].stands = {}
      BY <2>2 DEF Open
    <3>2. CASE row.stands = rows[r].stands
      BY <3>1, <3>2
    <3>3. ASSUME NEW p \in Notifier, notifier[p].pc # "idle",
                 row.stands = rows[r].stands \cup {notifier[p].occurrence},
                 \/ r \in Repeated(notifier[p].notice)
                 \/ r \in Sentinel /\ Repeated(notifier[p].notice) = {}
          PROVE  rows[q].stands \cap row.stands = {}
      BY <1>5, <3>1, <3>3
    <3> QED
      BY <3>2, <3>3
  <2> QED
    BY <1>1, <2>1, <2>2, <2>4
<1> QED
  BY <1>1, <1>6, <1>7, <1>8, <1>9, <1>10 DEF Recordings

(* Every occurrence stays with one process and at most one open row.       *)
LEMMA RecordingsStep ==
  TypeOK /\ ShownExist /\ Waking /\ Bounded /\ Recordings /\ [Next]_vars => Recordings'
<1> SUFFICES ASSUME TypeOK, ShownExist, Waking, Bounded, Recordings, [Next]_vars
             PROVE  Recordings'
  OBVIOUS
<1>0. occurrences \in Nat
  BY CheckpointAssumption DEF TypeOK
<1>1. ASSUME NEW p \in Notifier, notifier'[p].occurrence = occurrences + 1,
             notifier'[p].notice \in Notice,
             occurrences' = occurrences + 1, rows' = rows,
             \A q \in Notifier : q # p => notifier'[q] = notifier[q]
      PROVE  Recordings'
  <2>1. /\ Pending' = Pending /\ Open' = Open
        /\ \A q \in Notifier \ {p} :
             Repeated(notifier[q].notice)' = Repeated(notifier[q].notice)
    BY <1>1 DEF Pending, IsPending, Open, Sentinel, RowsOf, Repeated
  <2>2. \A q \in Notifier \ {p} : notifier[q].pc # "idle" =>
          notifier[q].occurrence # occurrences + 1
    BY <1>0 DEF Waking
  <2>3. \A r \in DOMAIN rows : occurrences + 1 \notin rows[r].stands
    BY <1>0 DEF Recordings
  <2>4. 1 .. occurrences \subseteq 1 .. occurrences + 1
    BY <1>0
  <2>5. \A q, z \in Notifier : q # z /\ notifier'[q].pc # "idle" /\ notifier'[z].pc # "idle" =>
          notifier'[q].occurrence # notifier'[z].occurrence
    BY <1>1, <2>2 DEF Recordings
  <2>6. \A r \in DOMAIN rows : IF rows[r].notice = Terminal THEN rows[r].stands = {0}
                                ELSE rows[r].stands \subseteq 1 .. occurrences'
    BY <1>1, <2>4 DEF Recordings
  <2>7. \A q \in Notifier : \A r \in DOMAIN rows :
          notifier'[q].pc # "idle" /\ notifier'[q].occurrence \in rows[r].stands =>
            \/ rows[r].notice = notifier'[q].notice
            \/ rows[r].notice = Limit /\ Repeated(notifier[q].notice)' = {}
    BY <1>1, <2>1, <2>3 DEF Recordings
  <2>8. /\ \A q, r \in Pending : rows[q].notice = rows[r].notice => q = r
        /\ \A q, r \in Open : q # r => rows[q].stands \cap rows[r].stands = {}
    BY DEF Recordings
  <2> QED
    BY <1>1, <2>1, <2>5, <2>6, <2>7, <2>8 DEF Recordings
<1>2. ASSUME NobodyNew PROVE Recordings'
  <2>1. ASSUME NEW p \in Notifier, Woken(p) PROVE Recordings'
    <3>1. notifier[p].pc # "idle"
      BY <2>1 DEF Woken
    <3>2. \A r \in Repeated(notifier[p].notice) : r \in DOMAIN rows
      BY DEF Repeated, RowsOf
    <3> QED
      BY <1>2, <2>1, <3>1, <3>2, WokenEffect, RecordingsAdd, RecordingsWrite
  <2>2. CASE Finalized
    BY <1>2, <2>2, FinalizedEffect, RecordingsAdd
  <2>3. ASSUME NEW s \in Supervisor, NEW item \in supervisor[s].shown, NEW action \in Action,
               Decided(s, item, action)
        PROVE  Recordings'
    <3>1. PICK r \in DOMAIN rows, row \in Row :
             /\ Writes(r, row) /\ row.notice = rows[r].notice
             /\ row.decision # Undecided /\ row.stands = rows[r].stands
      BY <2>3, DecidedEffect
    <3> QED
      BY <1>2, <3>1, RecordingsWrite
  <2>4. ASSUME rows' = rows PROVE Recordings'
    <3>1. /\ Pending' = Pending /\ Open' = Open
          /\ \A p \in Notifier : notifier'[p].notice = notifier[p].notice =>
               Repeated(notifier[p].notice)' = Repeated(notifier[p].notice)
      BY <2>4 DEF Pending, IsPending, Open, Sentinel, RowsOf, Repeated
    <3>2. 1 .. occurrences \subseteq 1 .. occurrences'
      BY <1>0, <1>2 DEF NobodyNew
    <3>3. \A p, q \in Notifier : p # q /\ notifier'[p].pc # "idle" /\ notifier'[q].pc # "idle" =>
            notifier'[p].occurrence # notifier'[q].occurrence
      BY <1>2 DEF NobodyNew, Recordings
    <3>4. \A r \in DOMAIN rows : IF rows[r].notice = Terminal THEN rows[r].stands = {0}
                                  ELSE rows[r].stands \subseteq 1 .. occurrences'
      BY <3>2 DEF Recordings
    <3>5. \A p \in Notifier : \A r \in DOMAIN rows :
            notifier'[p].pc # "idle" /\ notifier'[p].occurrence \in rows[r].stands =>
              \/ rows[r].notice = notifier'[p].notice
              \/ rows[r].notice = Limit /\ Repeated(notifier[p].notice)' = {}
      BY <1>2, <3>1 DEF NobodyNew, Recordings
    <3>6. /\ \A q, r \in Pending : rows[q].notice = rows[r].notice => q = r
          /\ \A q, r \in Open : q # r => rows[q].stands \cap rows[r].stands = {}
      BY DEF Recordings
    <3> QED
      BY <2>4, <3>1, <3>3, <3>4, <3>5, <3>6 DEF Recordings
  <2> QED
    BY <2>1, <2>2, <2>3, <2>4, StepEffect DEF Polled, Passed
<1>3. \/ NobodyNew
      \/ \E p \in Notifier :
           /\ notifier'[p].occurrence = occurrences + 1
           /\ notifier'[p].notice \in Notice
           /\ occurrences' = occurrences + 1 /\ rows' = rows
           /\ \A q \in Notifier : q # p => notifier'[q] = notifier[q]
  BY NotifierStep DEF NobodyNew
<1> QED
  BY <1>1, <1>2, <1>3

-----------------------------------------------------------------------------
(* The initial states satisfy the invariant.                               *)
LEMMA CheckpointInit == Init => CheckpointInv
<1> SUFFICES ASSUME Init PROVE CheckpointInv
  OBVIOUS
<1> USE CheckpointAssumption DEF Init
<1>1. rows \in Seq(Row) /\ Len(rows) = 0 /\ DOMAIN rows = {}
  BY EmptySeq, LenProperties
<1>2. TypeOK
  <2>1. Idle \in NotifierProcess
    BY DEF Idle, NotifierProcess
  <2>2. [pc |-> "idle", cursor |-> 0, after |-> 0, shown |-> {}, told |-> {}] \in SupervisorProcess
    BY DEF SupervisorProcess
  <2> QED
    BY <1>1, <2>1, <2>2 DEF TypeOK
<1>3. ShownExist /\ Waking /\ Watermarks /\ Fresh /\ Told
  BY <1>1 DEF ShownExist, Waking, Idle, Watermarks, Fresh, Told
<1>4. Sentinel = {} /\ RowsOf(Terminal) = {} /\ RowsOf(Limit) = {} /\ Pending = {} /\ Open = {}
  BY <1>1 DEF Sentinel, RowsOf, Pending, Open
<1>5. Bounded /\ DecisionsAreInformed /\ OverflowWakes
  BY <1>1, <1>4 DEF Bounded, DecisionsAreInformed, OverflowWakes
<1>6. Recordings
  BY <1>1, <1>4 DEF Recordings, Idle
<1> QED
  BY <1>2, <1>3, <1>5, <1>6 DEF CheckpointInv

(* The inductive invariant of the checkpoint table.                        *)
THEOREM CheckpointInvariant == Spec => []CheckpointInv
<1>1. Init => CheckpointInv
  BY CheckpointInit
<1>2. CheckpointInv /\ [Next]_vars => CheckpointInv'
  BY TypeStep, ShownStep, WakingStep, BoundedStep, WatermarksStep, FreshStep, ToldStep, InformedStep,
     OverflowStep, RecordingsStep DEF CheckpointInv
<1> QED
  BY <1>1, <1>2, PTL DEF Spec

(* The checkpoints and the processes around them keep their types.         *)
THEOREM CheckpointTypeCorrect == Spec => []TypeOK
<1>1. CheckpointInv => TypeOK
  BY DEF CheckpointInv
<1> QED
  BY <1>1, CheckpointInvariant, PTL

(* However often supervisors are woken, the table has at most two rows more *)
(* than the limit.                                                         *)
THEOREM TableIsBounded == Spec => []RowsBounded
<1>1. CheckpointInv => RowsBounded
  <2> SUFFICES ASSUME CheckpointInv PROVE RowsBounded
    OBVIOUS
  <2>1. ASSUME NEW S, \A q, r \in S : q = r PROVE Cardinality(S) <= 1
    <3>1. CASE S = {}
      BY <3>1, FS_EmptySet
    <3>2. CASE S # {}
      <4>1. PICK x \in S : S = {x}
        BY <2>1, <3>2
      <4> QED
        BY <4>1, FS_Singleton
    <3> QED
      BY <3>1, <3>2
  <2>2. /\ \A q, r \in Sentinel : q = r
        /\ \A q, r \in RowsOf(Terminal) : q = r
    BY DEF CheckpointInv, Bounded, Sentinel, RowsOf
  <2> QED
    BY <2>1, <2>2 DEF CheckpointInv, Bounded, RowsBounded
<1> QED
  BY <1>1, CheckpointInvariant, PTL

(* No decision on the sentinel was taken on an older version of it.        *)
THEOREM SentinelDecisionsInformed == Spec => []DecisionsAreInformed
<1>1. CheckpointInv => DecisionsAreInformed
  BY DEF CheckpointInv
<1> QED
  BY <1>1, CheckpointInvariant, PTL

(* Beyond the limit every supervisor is woken for what the sentinel stands *)
(* for, or its next poll does it.                                          *)
THEOREM OverflowReaches == Spec => []OverflowWakes
<1>1. CheckpointInv => OverflowWakes
  BY DEF CheckpointInv
<1> QED
  BY <1>1, CheckpointInvariant, PTL

(* A wake-up that is replayed after a crash leaves one pending row, and    *)
(* below the limit this row wakes nobody for what they were woken for      *)
(* already, unless a row for it was decided since.                         *)
THEOREM ReplayIsIdempotent == Spec => []ReplayedOnce
<1>1. CheckpointInv => ReplayedOnce
  <2> SUFFICES ASSUME CheckpointInv PROVE ReplayedOnce
    OBVIOUS
  <2>1. \A q, r \in Pending : q # r => rows[q].stands \cap rows[r].stands = {}
    BY DEF CheckpointInv, Recordings, Open, Pending
  <2>2. ASSUME NEW s \in Supervisor, NEW r \in Pending \ Sentinel,
               NEW n \in rows[r].stands \cap supervisor[s].told,
               rows[r].event > supervisor[s].after
        PROVE  \E q \in DOMAIN rows \ {r} : n \in rows[q].stands /\ ~IsPending(q)
    <3>1. /\ r \in DOMAIN rows /\ rows[r].notice # Limit
          /\ rows[r].event \in Nat /\ supervisor[s].after \in Nat
      BY RowFacts DEF CheckpointInv, TypeOK, Row, SupervisorProcess, Pending, Sentinel, RowsOf
    <3>2. PICK q \in DOMAIN rows :
            n \in rows[q].stands /\ (rows[q].notice = Limit \/ rows[q].event <= supervisor[s].after)
      BY DEF CheckpointInv, Told
    <3>3. q # r
      BY <2>2, <3>1, <3>2
    <3>4. q \notin Pending
      BY <2>1, <3>2, <3>3
    <3> QED
      BY <3>2, <3>3, <3>4 DEF Pending
  <2> QED
    BY <2>1, <2>2 DEF ReplayedOnce
<1> QED
  BY <1>1, CheckpointInvariant, PTL

(* No step takes a decision back, except to open the sentinel again.       *)
THEOREM DecisionsAreFinal == Spec => DecisionsStand
<1>1. CheckpointInv /\ [Next]_vars =>
        \A r \in DOMAIN rows : ~IsPending(r) =>
          \/ rows'[r] = rows[r]
          \/ r \in Sentinel /\ rows'[r].decision = Undecided
  <2> SUFFICES ASSUME CheckpointInv, [Next]_vars, NEW r \in DOMAIN rows, ~IsPending(r)
               PROVE  \/ rows'[r] = rows[r]
                      \/ r \in Sentinel /\ rows'[r].decision = Undecided
    OBVIOUS
  <2>1. TypeOK /\ ShownExist
    BY DEF CheckpointInv
  <2>2. ASSUME NEW row, Adds(row) PROVE rows'[r] = rows[r]
    BY <2>2 DEF Adds
  <2>3. ASSUME NEW q, NEW row, Writes(q, row), q # r PROVE rows'[r] = rows[r]
    BY <2>3 DEF Writes
  <2>4. ASSUME NEW row, Writes(r, row) PROVE rows'[r] = row
    BY <2>4 DEF Writes
  <2>5. ASSUME NEW p \in Notifier, Woken(p)
        PROVE  \/ rows'[r] = rows[r]
               \/ r \in Sentinel /\ rows'[r].decision = Undecided
    BY <2>1, <2>2, <2>3, <2>4, <2>5, WokenEffect
  <2>6. CASE Finalized
    BY <2>2, <2>6 DEF Finalized
  <2>7. ASSUME NEW s \in Supervisor, NEW item \in supervisor[s].shown, NEW action \in Action,
               Decided(s, item, action)
        PROVE  rows'[r] = rows[r]
    BY <2>3, <2>7 DEF Decided
  <2> QED
    BY <2>1, <2>5, <2>6, <2>7, StepEffect DEF Polled, Passed
<1> QED
  BY <1>1, CheckpointInvariant, PTL DEF Spec, DecisionsStand
=============================================================================
