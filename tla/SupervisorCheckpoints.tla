------------------------ MODULE SupervisorCheckpoints ------------------------
(***************************************************************************)
(* The supervisor's checkpoints of one run: the table                      *)
(* supervisor_checkpoints, the run's event log as far as its sequence      *)
(* number goes, the processes that wake the supervisor (a runner, a freeze *)
(* or a cancel), and supervisors that poll with supervisor-next and answer *)
(* with supervisor-record.                                                 *)
(*                                                                         *)
(* A notice is a reason with its bounded content; two occurrences of the   *)
(* same condition may bear the same notice.  Occurrences are numbered, for *)
(* the properties only, and a row stands for the occurrences recorded in   *)
(* it.  A decision is its action and its cursor; one with another plan     *)
(* hash or unknown fields is refused without effect and left out.          *)
(***************************************************************************)
EXTENDS Naturals, Sequences, FiniteSets

CONSTANTS
  Notifier,        \* processes that wake the supervisor
  Supervisor,      \* supervisors, or threads of one
  Notice,          \* reasons with their content
  Action,          \* pause, resume, escalate
  MaxCheckpoints,  \* policy.max_supervisor_checkpoints
  Undecided,       \* decision_json NULL
  MaxOccurrences,  \* bound: conditions that arise
  MaxCrashes       \* bound: crashes of notifiers

\* The reasons of the sentinel and of the terminal checkpoint.
Limit == "checkpoint_limit_reached"
Terminal == "run_finished"

ASSUME CheckpointAssumption ==
  /\ MaxCheckpoints \in Nat \ {0}
  /\ Limit \notin Notice /\ Terminal \notin Notice
  /\ MaxOccurrences \in Nat /\ MaxCrashes \in Nat

Decision == [action : Action, cursor : Nat]

ASSUME UndecidedAssumption == Undecided \notin Decision

VARIABLES
  rows,        \* supervisor_checkpoints, in the order of sequence
  events,      \* the latest event sequence of the run
  notifier,    \* the processes that wake
  supervisor,  \* the processes that poll and decide
  occurrences, crashes   \* counters for the bounds

vars == <<rows, events, notifier, supervisor, occurrences, crashes>>

\* stands: the occurrences the row was recorded for; known: those of them the
\* supervisor had been shown when it took the decision.
Row == [notice : Notice \cup {Limit, Terminal}, event : Nat,
        decision : Decision \cup {Undecided},
        stands : SUBSET Nat, known : SUBSET Nat]

\* shown: the pending rows of the last digest, each with what it stood for;
\* told: the occurrences a digest with wake_required has shown.
SupervisorProcess ==
  [pc : {"idle", "check", "digest"}, cursor : Nat, after : Nat,
   shown : SUBSET (Nat \X SUBSET Nat), told : SUBSET Nat]

NotifierProcess ==
  [pc : {"idle", "wake", "settle"}, notice : Notice \cup {Limit}, occurrence : Nat]

Idle == [pc |-> "idle", notice |-> Limit, occurrence |-> 0]

Init ==
  /\ rows = <<>>
  /\ events = 1   \* run.created
  /\ notifier = [p \in Notifier |-> Idle]
  /\ supervisor = [s \in Supervisor |->
       [pc |-> "idle", cursor |-> 0, after |-> 0, shown |-> {}, told |-> {}]]
  /\ occurrences = 0 /\ crashes = 0

IsPending(r) == rows[r].decision = Undecided
Pending == {r \in DOMAIN rows : IsPending(r)}
RowsOf(notice) == {r \in DOMAIN rows : rows[r].notice = notice}

-----------------------------------------------------------------------------
(* record_supervisor_checkpoint with idempotent set, in one transaction.   *)

\* Mutant: at the limit a notice that is still pending is dropped like any other.
RepeatedBelowLimit(notice) ==
  {r \in RowsOf(notice) : IsPending(r) /\ Len(rows) < MaxCheckpoints}

\* The pending rows that bear the notice already.
Repeated(notice) == {r \in RowsOf(notice) : IsPending(r)}

\* Mutant: a reason that is not among the supervisor's wake events.
InsertUnknown(notice, event, n) ==
  /\ rows' = Append(rows, [notice |-> "limit", event |-> event,
                           decision |-> Undecided, stands |-> {n}, known |-> {}])
  /\ events' = event + 1

\* _insert_supervisor_checkpoint_row: the row bears the latest event before its
\* own, checkpoint_recorded.
Insert(notice, event, n) ==
  /\ rows' = Append(rows, [notice |-> notice, event |-> event,
                           decision |-> Undecided, stands |-> {n}, known |-> {}])
  /\ events' = event + 1

\* Mutant: a sentinel that was acknowledged is not used again.
SentinelPending == {r \in RowsOf(Limit) : IsPending(r)}

\* The sentinel, acknowledged or not.
Sentinel == RowsOf(Limit)

\* Mutant: the cursor is read before the event checkpoint_limit_reached is
\* written.
LimitEventLate == events

\* The sentinel's cursor: the event checkpoint_limit_reached is written first.
LimitEvent == events + 1

\* _record_checkpoint_limit_sentinel
RecordInSentinel(n) ==
  \/ /\ Sentinel = {}
     /\ Insert(Limit, LimitEvent, n)
  \/ \E r \in Sentinel :
       /\ rows' = [rows EXCEPT ![r].event = LimitEvent, ![r].decision = Undecided,
                               ![r].stands = @ \cup {n}, ![r].known = {}]
       /\ events' = events + 2   \* checkpoint_limit_reached, sentinel_refreshed

Record(notice, n) ==
  \/ \E r \in Repeated(notice) :
       /\ rows' = [rows EXCEPT ![r].stands = @ \cup {n}]
       /\ UNCHANGED events
  \/ /\ Repeated(notice) = {}
     /\ IF Len(rows) < MaxCheckpoints THEN Insert(notice, events, n)
        ELSE RecordInSentinel(n)

-----------------------------------------------------------------------------
(* Waking the supervisor.                                                  *)

\* A call becomes UNKNOWN, a review blocks, a user freezes the run: events are
\* written before the supervisor is woken, in transactions of their own.
Arise(p) ==
  /\ notifier[p].pc = "idle"
  /\ occurrences < MaxOccurrences
  /\ occurrences' = occurrences + 1
  /\ events' = events + 1
  /\ \E notice \in Notice :
       notifier' = [notifier EXCEPT ![p] =
         [pc |-> "wake", notice |-> notice, occurrence |-> occurrences + 1]]
  /\ UNCHANGED <<rows, supervisor, crashes>>

\* _wake_supervisor
Wake(p) ==
  /\ notifier[p].pc = "wake"
  /\ Record(notifier[p].notice, notifier[p].occurrence)
  /\ notifier' = [notifier EXCEPT ![p].pc = "settle"]
  /\ UNCHANGED <<supervisor, occurrences, crashes>>

\* The run is paused or the task fails, the condition is over; the events of this
\* are those of the next Arise.
Settle(p) ==
  /\ notifier[p].pc = "settle"
  /\ notifier' = [notifier EXCEPT ![p] = Idle]
  /\ UNCHANGED <<rows, events, supervisor, occurrences, crashes>>

\* The process dies; a resumed run may meet the same condition again.
Crash(p) ==
  /\ notifier[p].pc # "idle" /\ crashes < MaxCrashes
  /\ crashes' = crashes + 1
  /\ \/ notifier' = [notifier EXCEPT ![p] = Idle]
     \/ notifier' = [notifier EXCEPT ![p].pc = "wake"]
  /\ UNCHANGED <<rows, events, supervisor, occurrences>>

\* finalize_run: the terminal checkpoint is recorded once and bypasses the
\* limit.  Also the event run.state_changed.
FinalizeRun ==
  /\ RowsOf(Terminal) = {}
  /\ rows' = Append(rows, [notice |-> Terminal, event |-> events,
                           decision |-> Undecided, stands |-> {0}, known |-> {}])
  /\ events' = events + 2
  /\ UNCHANGED <<notifier, supervisor, occurrences, crashes>>

-----------------------------------------------------------------------------
(* supervisor-next: the cursor is read, then the pending rows, then, if    *)
(* there are any, the digest in one snapshot.  The next poll starts after  *)
(* the cursor that was printed.                                            *)

SetSupervisor(s, fields) == supervisor' = [supervisor EXCEPT ![s] = fields]

ReadCursor(s) ==
  /\ supervisor[s].pc = "idle"
  /\ SetSupervisor(s, [supervisor[s] EXCEPT !.pc = "check", !.cursor = events])
  /\ UNCHANGED <<rows, events, notifier, occurrences, crashes>>

CheckPending(s) ==
  /\ supervisor[s].pc = "check"
  /\ SetSupervisor(s, IF Pending # {}
       THEN [supervisor[s] EXCEPT !.pc = "digest", !.cursor = 0]
       ELSE [supervisor[s] EXCEPT !.pc = "idle", !.cursor = 0,
                                    !.after = supervisor[s].cursor])
  /\ UNCHANGED <<rows, events, notifier, occurrences, crashes>>

WakeRequired(s) == \E r \in Pending : rows[r].event > supervisor[s].after

\* supervisor_digest
Digest(s) ==
  LET shown == {<<r, rows[r].stands>> : r \in Pending} IN
  /\ supervisor[s].pc = "digest"
  /\ SetSupervisor(s, [supervisor[s] EXCEPT
       !.pc = "idle", !.cursor = 0, !.after = events, !.shown = shown,
       !.told = IF WakeRequired(s) THEN @ \cup UNION {item[2] : item \in shown} ELSE @])
  /\ UNCHANGED <<rows, events, notifier, occurrences, crashes>>

-----------------------------------------------------------------------------
(* supervisor-record: acknowledge_supervisor_checkpoint.                   *)

\* Mutant: a decision may be as old as it likes.
AcceptsAnyCursor(r, decision) == decision.cursor <= events

\* _validate_supervisor_decision
Accepts(r, decision) ==
  decision.cursor <= events /\ decision.cursor >= rows[r].event

\* Mutant: a later decision replaces an earlier one.
DecidableAgain(r, decision) == Accepts(r, decision)

\* A row that has been acknowledged keeps its decision; the same one again is no
\* error, another one is.
Decidable(r, decision) == Accepts(r, decision) /\ IsPending(r)

\* The supervisor decides on a row of its digest and quotes the digest's cursor.
Decide(s) ==
  \E item \in supervisor[s].shown, action \in Action :
    LET r == item[1]
        decision == [action |-> action, cursor |-> supervisor[s].after] IN
    /\ supervisor[s].pc = "idle"
    /\ \/ /\ Decidable(r, decision)
          /\ rows' = [rows EXCEPT ![r].decision = decision, ![r].known = item[2]]
          /\ events' = events + 1
          /\ UNCHANGED supervisor
       \/ /\ ~Decidable(r, decision)
          /\ SetSupervisor(s, [supervisor[s] EXCEPT !.shown = @ \ {item}])
          /\ UNCHANGED <<rows, events>>
    /\ UNCHANGED <<notifier, occurrences, crashes>>

-----------------------------------------------------------------------------
Next ==
  \/ \E p \in Notifier : Arise(p) \/ Wake(p) \/ Settle(p) \/ Crash(p)
  \/ FinalizeRun
  \/ \E s \in Supervisor :
       ReadCursor(s) \/ CheckPending(s) \/ Digest(s) \/ Decide(s)

Spec == Init /\ [][Next]_vars

-----------------------------------------------------------------------------
TypeOK ==
  /\ rows \in Seq(Row)
  /\ events \in Nat
  /\ notifier \in [Notifier -> NotifierProcess]
  /\ supervisor \in [Supervisor -> SupervisorProcess]
  /\ occurrences \in 0..MaxOccurrences
  /\ crashes \in 0..MaxCrashes

(* However often a run wakes its supervisor, and whatever is acknowledged  *)
(* in between, the table has at most MaxCheckpoints rows, one sentinel and *)
(* one terminal checkpoint more.                                           *)
RowsBounded ==
  /\ Len(rows) <= MaxCheckpoints + 2
  /\ Cardinality(Sentinel) <= 1 /\ Cardinality(RowsOf(Terminal)) <= 1

(* An accepted decision on the sentinel was taken in the knowledge of      *)
(* every occurrence the sentinel stands for: one that was read against an  *)
(* older version of it is refused, however the polls and the overflows     *)
(* interleave.                                                             *)
DecisionsAreInformed ==
  \A r \in RowsOf(Limit) : ~IsPending(r) => rows[r].stands = rows[r].known

\* The supervisor's next poll requires a wake, or an earlier one has for all the
\* occurrences the row stands for.
Reaches(s, r) ==
  rows[r].event > supervisor[s].after \/ rows[r].stands \subseteq supervisor[s].told

(* Beyond the limit nobody misses a wake: while the sentinel is pending a  *)
(* supervisor has been woken for all it stands for or its next poll does   *)
(* it, whatever happened between the reads of its last poll.               *)
OverflowWakes ==
  \A s \in Supervisor : \A r \in RowsOf(Limit) \cap Pending : Reaches(s, r)

(* The same for every pending row (SUPERVISOR_MANDATORY_WAKE_EVENTS: what  *)
(* must always wake the supervisor).                                       *)
EveryWakeReaches ==
  \A s \in Supervisor : \A r \in Pending : Reaches(s, r)

(* A notification that is replayed after a crash, as long as its row is    *)
(* undecided, adds no second row: no two pending rows stand for one        *)
(* occurrence.  So a pending row below the limit wakes nobody again for an *)
(* occurrence they were woken for, unless that was another row, decided    *)
(* since.  Of the sentinel this is not claimed: a replay beyond the limit  *)
(* opens it again and moves its cursor (see ReplayWakesNobody).            *)
ReplayedOnce ==
  /\ \A q, r \in Pending : q # r => rows[q].stands \cap rows[r].stands = {}
  /\ \A s \in Supervisor : \A r \in Pending \ Sentinel :
       \A n \in rows[r].stands \cap supervisor[s].told :
         rows[r].event > supervisor[s].after =>
           \E q \in DOMAIN rows \ {r} : n \in rows[q].stands /\ ~IsPending(q)

(* A wake-up that is replayed produces no second wake event (what the      *)
(* docstring of record_supervisor_checkpoint says of its flag idempotent): *)
(* a row that stands for nothing new keeps its cursor.  It holds below the *)
(* limit; the sentinel is refreshed by every wake-up, a replayed one too.  *)
ReplayWakesNobody ==
  [][\A r \in DOMAIN rows :
       rows'[r].stands = rows[r].stands => rows'[r].event = rows[r].event]_vars

(* A decision stands, whatever else is decided, repeated or recorded later; *)
(* only the sentinel is opened again, for an overflow.                     *)
DecisionsStand ==
  [][\A r \in DOMAIN rows : ~IsPending(r) =>
       \/ rows'[r] = rows[r]
       \/ r \in Sentinel /\ rows'[r].decision = Undecided]_vars
=============================================================================
