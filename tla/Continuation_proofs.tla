--------------------------- MODULE Continuation_proofs ---------------------------
(* Proofs about Continuation, for any drivers, sessions, inherited chains   *)
(* and bounds.                                                             *)
EXTENDS Continuation, SequenceTheorems, TLAPS

-----------------------------------------------------------------------------
(* The parts of the inductive invariant.                                   *)

\* The base call and its continuations: all but the last segment have run out of
\* steps, and each was started in the session of the one before.
Chain ==
  /\ Len(segments) <= MaxContinuations + 1
  /\ \A i \in DOMAIN segments : i < Len(segments) => HasFailed(i, "step_limit")
  /\ \A i \in DOMAIN segments : i > 1 /\ segments[i].state # "planned" =>
       segments[i].session = segments[i - 1].request

Live(i) == segments[i].state \in {"started", "unknown"}
InCall(p) == driver[p].pc \in {"call", "wait"}

\* What a driver has decided to begin continues the last failed segment, and the
\* call it waits for is its own.
Drivers ==
  /\ \A p \in Driver : driver[p].pc \in {"loop", "look"} => segments # <<>>
  /\ \A p \in Driver : driver[p].pc = "begin" =>
       LET i == driver[p].index IN
       /\ i \in Index /\ i <= Len(segments) + 1
       /\ i > 1 => HasFailed(i - 1, "step_limit") /\ segments[i - 1].request = driver[p].session
       /\ i > 1 /\ StateOf(i) = "planned" => segments[i].session = driver[p].session
  /\ \A p \in Driver : InCall(p) => driver[p].index \in DOMAIN segments /\ Live(driver[p].index)
  /\ \A p, q \in Driver : p # q /\ InCall(p) /\ InCall(q) => driver[p].index # driver[q].index

\* A segment that was given to a worker is no longer planned.
Invocations ==
  \A i \in Index :
    /\ invoked[i] <= 1
    /\ invoked[i] > 0 => i \in DOMAIN segments /\ segments[i].state # "planned"

\* Once a worker has strayed there is no segment to begin.
Strayed ==
  scope = "worker" =>
    /\ segments # <<>> /\ \A i \in DOMAIN segments : segments[i].state # "planned"
    /\ \A p \in Driver : driver[p].pc = "begin" => driver[p].index \in DOMAIN segments

ContinuationInv == TypeOK /\ Chain /\ Drivers /\ Invocations /\ Strayed

-----------------------------------------------------------------------------
(* The steps, by what they change.                                         *)

\* One segment is written and no more.
Writes(i, row) ==
  /\ segments' \in Seq(Segment) /\ Len(segments') = Len(segments)
  /\ DOMAIN segments' = DOMAIN segments
  /\ \A j \in DOMAIN segments : j # i => segments'[j] = segments[j]
  /\ segments'[i] = row

\* A segment that is planned or absent is started.
Starts(p, row) ==
  LET i == driver[p].index IN
  /\ segments' \in Seq(Segment) /\ Startable(i)
  /\ row.state = "started"
  /\ i \in DOMAIN segments => row.session = segments[i].session
  /\ i \notin DOMAIN segments => row.session = driver[p].session
  /\ Len(segments') = IF i \in DOMAIN segments THEN Len(segments) ELSE Len(segments) + 1
  /\ DOMAIN segments' = DOMAIN segments \cup {i}
  /\ \A j \in DOMAIN segments : j # i => segments'[j] = segments[j]
  /\ segments'[i] = row

\* The started calls are marked.
Marks ==
  /\ segments' \in Seq(Segment) /\ Len(segments') = Len(segments)
  /\ DOMAIN segments' = DOMAIN segments
  /\ \A j \in DOMAIN segments :
       /\ segments'[j].state = IF segments[j].state = "started" THEN "unknown"
                               ELSE segments[j].state
       /\ segments'[j].kind = segments[j].kind
       /\ segments'[j].request = segments[j].request
       /\ segments'[j].session = segments[j].session

\* Only p moves.
Moves(p) == \A q \in Driver : q # p => driver'[q] = driver[q]

(* The segments, one by one.                                               *)
LEMMA SegmentFacts ==
  ASSUME segments \in Seq(Segment)
  PROVE  /\ DOMAIN segments = 1 .. Len(segments) /\ Len(segments) \in Nat
         /\ \A i \in DOMAIN segments : segments[i] \in Segment
         /\ segments # <<>> <=> Len(segments) > 0
         /\ Len(segments) > 0 => Len(segments) \in DOMAIN segments
<1>1. DOMAIN segments = 1 .. Len(segments) /\ Len(segments) \in Nat
  BY LenProperties
<1>2. \A i \in DOMAIN segments : segments[i] \in Segment
  BY <1>1, ElementOfSeq
<1>3. segments # <<>> <=> Len(segments) > 0
  BY <1>1, EmptySeq
<1> QED
  BY <1>1, <1>2, <1>3

(* Writing one segment.                                                    *)
LEMMA WriteSegment ==
  ASSUME segments \in Seq(Segment), NEW i \in DOMAIN segments, NEW row \in Segment,
         segments' = [segments EXCEPT ![i] = row]
  PROVE  Writes(i, row)
<1>1. DOMAIN segments = 1 .. Len(segments)
  BY SegmentFacts
<1>2. /\ segments' \in Seq(Segment) /\ Len(segments') = Len(segments)
      /\ \A j \in 1 .. Len(segments) : segments'[j] = IF j = i THEN row ELSE segments[j]
  BY <1>1, ExceptSeq
<1>3. DOMAIN segments' = 1 .. Len(segments')
  BY <1>2, LenProperties
<1> QED
  BY <1>1, <1>2, <1>3 DEF Writes

(* Going on moves one driver and keeps its segment.                        *)
LEMMA GotoEffect ==
  ASSUME driver \in [Driver -> Process], NEW p \in Driver,
         NEW pc \in {"off", "drive", "loop", "look", "begin", "call", "wait", "pause", "finalize"},
         Goto(p, pc)
  PROVE  /\ driver' \in [Driver -> Process] /\ Moves(p)
         /\ driver'[p].pc = pc /\ driver'[p].index = driver[p].index
         /\ driver'[p].session = driver[p].session
  BY DEF Goto, Moves, Process

(* A driver that leaves is off.                                            *)
LEMMA LeaveEffect ==
  ASSUME driver \in [Driver -> Process], NEW p \in Driver, Leave(p)
  PROVE  driver' \in [Driver -> Process] /\ Moves(p) /\ driver'[p].pc = "off"
<1>1. Off \in Process /\ Off.pc = "off"
  BY DEF Off, Process, Ref
<1> QED
  BY <1>1 DEF Leave, Moves

(* A driver that chooses will begin the segment.                           *)
LEMMA ChooseEffect ==
  ASSUME driver \in [Driver -> Process], NEW p \in Driver, NEW i \in Nat, NEW session \in Ref,
         Choose(p, i, session)
  PROVE  /\ driver' \in [Driver -> Process] /\ Moves(p)
         /\ driver'[p].pc = "begin" /\ driver'[p].index = i /\ driver'[p].session = session
<1>1. [pc |-> "begin", index |-> i, session |-> session] \in Process
  BY DEF Process
<1> QED
  BY <1>1 DEF Choose, Moves

Outcomes == {"open", "done", "failing", "failed"}

(* Returning, failing and giving up end the drive.                         *)
LEMMA EndEffect ==
  ASSUME driver \in [Driver -> Process], outcome \in Outcomes, NEW p \in Driver,
         Return(p) \/ Fail(p) \/ FailScope(p) \/ GiveUp(p)
  PROVE  /\ driver' \in [Driver -> Process] /\ Moves(p) /\ outcome' \in Outcomes
         /\ driver'[p].pc \in {"off", "pause", "finalize"}
<1>1. CASE Return(p)
  BY <1>1, LeaveEffect DEF Return, Outcomes
<1>2. CASE Fail(p)
  BY <1>2, LeaveEffect, GotoEffect DEF Fail, Outcomes
<1>3. CASE FailScope(p)
  BY <1>3, GotoEffect DEF FailScope, Outcomes
<1>4. CASE GiveUp(p)
  BY <1>4, GotoEffect DEF GiveUp
<1> QED
  BY <1>1, <1>2, <1>3, <1>4

\* What a driver chooses to begin follows from the last segment.
Chooses(p, i, session) ==
  /\ driver'[p].pc = "begin" /\ driver'[p].index = i /\ driver'[p].session = session
  /\ i \in Index /\ i <= Len(segments) + 1
  /\ i > 1 => /\ HasFailed(i - 1, "step_limit") /\ segments[i - 1].request = session
              /\ scope = "in"
  /\ i = 1 => segments = <<>> \/ segments[1].state = "planned"
  /\ i > 1 /\ StateOf(i) = "planned" => segments[i].session = session

\* A driver that decides: nothing is written, and whoever is begun follows.
Decides(p) ==
  /\ segments' = segments /\ invoked' = invoked /\ scope' = scope
  /\ Moves(p)
  /\ \/ driver'[p].pc \in {"off", "drive", "pause", "finalize"}
     \/ driver'[p].pc \in {"loop", "look"} /\ segments # <<>>
     \/ \E i \in Nat, session \in Ref : Chooses(p, i, session)

\* A driver that starts a segment.
Begins(p) ==
  /\ driver[p].pc = "begin" /\ driver'[p].pc = "call" /\ Moves(p)
  /\ driver'[p].index = driver[p].index
  /\ \E row \in Segment : Starts(p, row)
  /\ invoked' = [invoked EXCEPT ![driver[p].index] = @ + 1]
  /\ scope' = scope

\* A driver that writes the segment it waits for.
Answers(p) ==
  /\ InCall(p) /\ Moves(p) /\ invoked' = invoked /\ scope' = scope
  /\ \E row \in Segment :
       /\ Writes(driver[p].index, row)
       /\ row.session = segments[driver[p].index].session
       /\ row.state # "planned"
       /\ \/ driver'[p].pc \in {"off", "pause", "finalize", "loop"}
          \/ /\ driver'[p].pc = "wait" /\ driver'[p].index = driver[p].index
             /\ row.state = segments[driver[p].index].state

\* The environment: nobody moves.
Environs ==
  /\ driver' = driver /\ invoked' = invoked
  /\ \/ segments' = segments /\ scope' # "worker"
     \/ segments' = segments /\ scope' = scope
     \/ segments' = segments /\ \E i \in DOMAIN segments : Live(i)
     \/ Marks /\ scope' = scope

(* The looks at the last segment.                                          *)
LEMMA DecideEffect ==
  ASSUME TypeOK, Chain, Drivers, NEW p \in Driver,
         Resume(p) \/ Drive(p) \/ ReadControl(p) \/ Look(p)
  PROVE  Decides(p) /\ driver' \in [Driver -> Process] /\ outcome' \in Outcomes
<1> USE SegmentAssumption
<1>0. /\ segments \in Seq(Segment) /\ driver \in [Driver -> Process] /\ outcome \in Outcomes
      /\ DOMAIN segments = 1 .. Len(segments) /\ Len(segments) \in Nat
      /\ \A i \in DOMAIN segments : segments[i] \in Segment
      /\ segments # <<>> <=> Len(segments) > 0
      /\ Row = segments[Len(segments)]
  BY SegmentFacts DEF TypeOK, Outcomes, Row, Last
<1>1. CASE Resume(p)
  BY <1>0, <1>1, GotoEffect DEF Resume, Decides
<1>2. CASE ReadControl(p)
  <2>1. segments # <<>>
    BY <1>2 DEF ReadControl, Drivers
  <2> QED
    BY <1>0, <1>2, <2>1, GotoEffect DEF ReadControl, Decides
<1>3. CASE Drive(p)
  <2>0. UNCHANGED <<segments, invoked, scope>>
    BY <1>3 DEF Drive
  <2>1. CASE segments = <<>> /\ Choose(p, 1, NoRef) /\ UNCHANGED outcome
    <3>1. 1 \in Nat /\ NoRef \in Ref /\ 1 \in Index /\ 1 <= Len(segments) + 1
      BY <1>0 DEF Ref, Index
    <3>2. /\ driver' \in [Driver -> Process] /\ Moves(p)
          /\ driver'[p].pc = "begin" /\ driver'[p].index = 1 /\ driver'[p].session = NoRef
      BY <1>0, <2>1, <3>1, ChooseEffect
    <3>3. Chooses(p, 1, NoRef)
      BY <2>1, <3>1, <3>2 DEF Chooses
    <3> QED
      BY <1>0, <2>0, <2>1, <3>1, <3>2, <3>3 DEF Decides
  <2>2. CASE Return(p)
    BY <1>0, <2>0, <2>2, EndEffect DEF Decides
  <2>3. CASE /\ segments # <<>>
             /\ IF IsBase(Len(segments))
                THEN IF Row.whole THEN Choose(p, 1, NoRef) ELSE Goto(p, "pause")
                ELSE Goto(p, "loop")
             /\ UNCHANGED outcome
    <3>1. CASE IsBase(Len(segments)) /\ Choose(p, 1, NoRef)
      <4>1. 1 \in Nat /\ NoRef \in Ref /\ 1 \in Index /\ 1 <= Len(segments) + 1
        BY <1>0 DEF Ref, Index
      <4>2. segments[1].state = "planned"
        BY <3>1 DEF IsBase
      <4>3. /\ driver' \in [Driver -> Process] /\ Moves(p)
            /\ driver'[p].pc = "begin" /\ driver'[p].index = 1 /\ driver'[p].session = NoRef
        BY <1>0, <3>1, <4>1, ChooseEffect
      <4>4. Chooses(p, 1, NoRef)
        BY <4>1, <4>2, <4>3 DEF Chooses
      <4> QED
        BY <1>0, <2>0, <2>3, <4>1, <4>3, <4>4 DEF Decides
    <3>2. CASE Goto(p, "pause") \/ Goto(p, "loop")
      BY <1>0, <2>0, <2>3, <3>2, GotoEffect DEF Decides
    <3> QED
      BY <2>3, <3>1, <3>2
  <2> QED
    BY <1>3, <2>1, <2>2, <2>3 DEF Drive
<1>4. CASE Look(p)
  <2> DEFINE i == Len(segments)
  <2>0. UNCHANGED <<segments, invoked, scope>>
    BY <1>4 DEF Look
  <2>1. segments # <<>> /\ i > 0 /\ i \in DOMAIN segments /\ i <= MaxContinuations + 1
    BY <1>0, <1>4 DEF Look, Drivers, Chain
  <2>2. CASE Return(p) \/ GiveUp(p)
    BY <1>0, <2>0, <2>2, EndEffect DEF Decides
  <2>3. ASSUME NEW n \in Nat, NEW session \in Ref, Proceed(p, n, session),
               n \in Index, n > 1, n <= i + 1, HasFailed(n - 1, "step_limit"),
               segments[n - 1].request = session,
               StateOf(n) = "planned" => segments[n].session = session
        PROVE  Decides(p) /\ driver' \in [Driver -> Process] /\ outcome' \in Outcomes
    <3>1. CASE scope = "in"
      <4>1. Choose(p, n, session) /\ UNCHANGED outcome
        BY <2>3, <3>1 DEF Proceed
      <4>2. /\ driver' \in [Driver -> Process] /\ Moves(p)
            /\ driver'[p].pc = "begin" /\ driver'[p].index = n /\ driver'[p].session = session
        BY <1>0, <4>1, ChooseEffect
      <4>3. Chooses(p, n, session)
        BY <2>3, <3>1, <4>2 DEF Chooses
      <4> QED
        BY <1>0, <2>0, <4>1, <4>2, <4>3 DEF Decides
    <3>2. CASE FailScope(p)
      BY <1>0, <2>0, <3>2, EndEffect DEF Decides
    <3> QED
      BY <2>3, <3>1, <3>2 DEF Proceed
  <2>4. CASE IsContinuation(i) /\ Proceed(p, i, Row.session) /\ Row.state = "planned"
    <3>1. /\ i > 1 /\ segments[i - 1].request = segments[i].session
          /\ Row.session = segments[i].session
      BY <1>0, <2>4 DEF IsContinuation
    <3>2. i - 1 \in DOMAIN segments /\ i - 1 < i /\ i \in Index /\ i \in Nat /\ i <= i + 1
      BY <1>0, <2>1, <3>1 DEF Index
    <3>3. HasFailed(i - 1, "step_limit")
      BY <3>2 DEF Chain
    <3>4. Row.session \in Ref
      BY <1>0, <2>1 DEF Segment
    <3> QED
      BY <2>3, <2>4, <3>1, <3>2, <3>3, <3>4
  <2>5. CASE Follows(i) /\ Proceed(p, i + 1, Row.request)
    <3>1. HasFailed(i, "step_limit") /\ i <= MaxContinuations
      BY <2>5 DEF Follows, Continuable
    <3>2. i + 1 \in Nat /\ i + 1 \in Index /\ i + 1 > 1 /\ (i + 1) - 1 = i /\ i + 1 <= i + 1
          /\ i + 1 \notin DOMAIN segments
      BY <1>0, <2>1, <3>1 DEF Index
    <3>3. Row.request \in Ref /\ segments[i].request = Row.request
      BY <1>0, <2>1 DEF Segment
    <3>4. StateOf(i + 1) = "absent"
      BY <3>2 DEF StateOf
    <3> QED
      BY <2>3, <2>5, <3>1, <3>2, <3>3, <3>4
  <2> QED
    BY <1>4, <2>2, <2>4, <2>5 DEF Look
<1> QED
  BY <1>1, <1>2, <1>3, <1>4

(* begin_call starts an absent or a planned segment, or nothing.           *)
LEMMA BeginEffect ==
  ASSUME TypeOK, Chain, Drivers, NEW p \in Driver, Begin(p)
  PROVE  /\ Begins(p) \/ Decides(p)
         /\ segments' \in Seq(Segment) /\ invoked' \in [Index -> Nat]
         /\ driver' \in [Driver -> Process] /\ outcome' \in Outcomes
<1> DEFINE i == driver[p].index
           open == control = "running" /\ outcome # "failed"
<1>0. /\ segments \in Seq(Segment) /\ driver \in [Driver -> Process] /\ outcome \in Outcomes
      /\ DOMAIN segments = 1 .. Len(segments) /\ Len(segments) \in Nat
      /\ \A j \in DOMAIN segments : segments[j] \in Segment
      /\ invoked \in [Index -> Nat]
  BY SegmentFacts DEF TypeOK, Outcomes
<1>1. i \in Index /\ i <= Len(segments) + 1 /\ i \in Nat /\ i > 0
  BY SegmentAssumption DEF Begin, Drivers, Index
<1>2. CASE ~open /\ Goto(p, "pause") /\ UNCHANGED <<segments, invoked, outcome>>
  BY <1>0, <1>2, GotoEffect DEF Begin, Decides
<1>3. CASE /\ IF segments[i].state = "completed" THEN Return(p) ELSE Fail(p)
           /\ UNCHANGED <<segments, invoked>>
  <2>1. Return(p) \/ Fail(p)
    BY <1>3
  <2> QED
    BY <1>0, <1>3, <2>1, EndEffect DEF Begin, Decides
<1>4. CASE /\ Startable(i)
           /\ segments' = IF i > Len(segments) THEN Append(segments, NewSegment(p))
                          ELSE [segments EXCEPT ![i].state = "started"]
           /\ invoked' = [invoked EXCEPT ![i] = @ + 1]
           /\ Goto(p, "call") /\ UNCHANGED outcome
  <2>1. \E row \in Segment : Starts(p, row)
    <3>1. CASE i > Len(segments)
      <4> DEFINE row == NewSegment(p)
      <4>1. driver[p].session \in Ref
        BY <1>0 DEF Process
      <4>2. row \in Segment /\ row.state = "started" /\ row.session = driver[p].session
        BY <4>1 DEF NewSegment, Segment, Ref
      <4>3. i = Len(segments) + 1 /\ i \notin DOMAIN segments
        BY <1>0, <1>1, <3>1
      <4>4. segments' = Append(segments, row)
        BY <1>4, <3>1
      <4> HIDE DEF row
      <4>5. /\ segments' \in Seq(Segment) /\ Len(segments') = Len(segments) + 1
            /\ \A j \in 1 .. Len(segments) : segments'[j] = segments[j]
            /\ segments'[Len(segments) + 1] = row
        BY <1>0, <4>2, <4>4, AppendProperties
      <4>6. DOMAIN segments' = 1 .. Len(segments')
        BY <4>5, LenProperties
      <4>7. DOMAIN segments' = DOMAIN segments \cup {i}
        BY <1>0, <4>3, <4>5, <4>6
      <4> QED
        BY <1>0, <1>4, <4>2, <4>3, <4>5, <4>7 DEF Starts
    <3>2. CASE ~(i > Len(segments))
      <4> DEFINE row == [segments[i] EXCEPT !.state = "started"]
      <4>1. i \in DOMAIN segments
        BY <1>0, <1>1, <3>2
      <4>2. row \in Segment /\ row.state = "started" /\ row.session = segments[i].session
        BY <1>0, <4>1 DEF Segment
      <4>3. segments' = [segments EXCEPT ![i] = row]
        BY <1>4, <3>2, <4>1
      <4> HIDE DEF row
      <4>4. Writes(i, row)
        BY <1>0, <4>1, <4>2, <4>3, WriteSegment
      <4> QED
        BY <1>4, <4>1, <4>2, <4>4 DEF Writes, Starts
    <3> QED
      BY <3>1, <3>2
  <2>2. invoked' \in [Index -> Nat]
    BY <1>0, <1>1, <1>4
  <2>3. /\ driver' \in [Driver -> Process] /\ Moves(p)
        /\ driver'[p].pc = "call" /\ driver'[p].index = i
    BY <1>0, <1>4, GotoEffect
  <2>4. segments' \in Seq(Segment)
    BY <2>1 DEF Starts
  <2>5. driver[p].pc = "begin" /\ scope' = scope
    BY DEF Begin
  <2> QED
    BY <1>0, <1>4, <2>1, <2>2, <2>3, <2>4, <2>5 DEF Begins
<1> QED
  BY <1>2, <1>3, <1>4 DEF Begin

(* complete_call and fail_call write the segment of the driver.            *)
LEMMA WriteEffect ==
  ASSUME segments \in Seq(Segment), NEW i \in DOMAIN segments,
         NEW state \in {"completed", "failed"},
         NEW kind \in {"none", "step_limit", "suspected", "session_mismatch", "refused"},
         NEW reported \in Ref, Write(i, state, kind, reported)
  PROVE  \E row \in Segment : /\ Writes(i, row) /\ row.session = segments[i].session
                              /\ row.state # "planned"
<1> DEFINE request == IF reported = NoRef THEN segments[i].request ELSE reported
           row == [segments[i] EXCEPT !.state = state, !.kind = kind, !.request = request]
<1>1. segments[i] \in Segment
  BY SegmentFacts
<1>2. row \in Segment /\ row.session = segments[i].session /\ row.state # "planned"
  BY <1>1 DEF Segment
<1>3. segments' = [segments EXCEPT ![i] = row]
  BY DEF Write
<1> HIDE DEF row
<1> QED
  BY <1>2, <1>3, WriteSegment

(* Whatever becomes of a call, its driver writes its segment only.         *)
LEMMA AnswerEffect ==
  ASSUME TypeOK, Drivers, NEW p \in Driver,
         Callback(p) \/ Answer(p) \/ Raise(p) \/ TimeOut(p)
  PROVE  /\ Answers(p) \/ Decides(p)
         /\ segments' \in Seq(Segment)
         /\ driver' \in [Driver -> Process] /\ outcome' \in Outcomes
<1> DEFINE i == driver[p].index
<1>0. /\ segments \in Seq(Segment) /\ driver \in [Driver -> Process] /\ outcome \in Outcomes
      /\ \A j \in DOMAIN segments : segments[j] \in Segment
      /\ NoRef \in Ref /\ ProcessRef \in Ref /\ Session \subseteq Ref
  BY SegmentFacts DEF TypeOK, Outcomes, Ref
<1>1. InCall(p) /\ i \in DOMAIN segments /\ Live(i) /\ invoked' = invoked /\ scope' = scope
  BY DEF Callback, Answer, Raise, TimeOut, InCall, Drivers
<1>2. CASE Callback(p)
  <2> DEFINE row == [segments[i] EXCEPT !.request = ProcessRef]
  <2>1. /\ row \in Segment /\ row.session = segments[i].session
        /\ row.state = segments[i].state /\ row.state # "planned"
    BY <1>0, <1>1 DEF Segment, Live
  <2>2. segments' = [segments EXCEPT ![i] = row]
    BY <1>2, <1>1 DEF Callback
  <2> HIDE DEF row
  <2>3. Writes(i, row)
    BY <1>0, <1>1, <2>1, <2>2, WriteSegment
  <2>4. /\ driver' \in [Driver -> Process] /\ Moves(p)
        /\ driver'[p].pc = "wait" /\ driver'[p].index = i
    BY <1>0, <1>2, GotoEffect DEF Callback
  <2> QED
    BY <1>0, <1>1, <1>2, <2>1, <2>3, <2>4 DEF Callback, Answers, Writes
<1>3. ASSUME NEW state \in {"completed", "failed"},
             NEW kind \in {"none", "step_limit", "suspected", "session_mismatch", "refused"},
             NEW reported \in Ref, Write(i, state, kind, reported),
             \/ Return(p) \/ GiveUp(p) \/ Fail(p)
             \/ Goto(p, "loop") /\ UNCHANGED outcome
      PROVE  /\ Answers(p) /\ segments' \in Seq(Segment)
             /\ driver' \in [Driver -> Process] /\ outcome' \in Outcomes
  <2>1. PICK row \in Segment : /\ Writes(i, row) /\ row.session = segments[i].session
                               /\ row.state # "planned"
    BY <1>0, <1>1, <1>3, WriteEffect
  <2>2. /\ driver' \in [Driver -> Process] /\ Moves(p) /\ outcome' \in Outcomes
        /\ driver'[p].pc \in {"off", "pause", "finalize", "loop"}
    BY <1>0, <1>3, EndEffect, GotoEffect
  <2> QED
    BY <1>1, <2>1, <2>2 DEF Answers, Writes
<1>4. CASE Answer(p)
  <2>1. PICK reported \in Session \cup {NoRef} :
          \/ Write(i, "completed", "none", reported) /\ Return(p)
          \/ Write(i, "failed", "session_mismatch", reported) /\ GiveUp(p)
          \/ /\ Write(i, "failed", "step_limit", reported)
             /\ Goto(p, "loop") /\ UNCHANGED outcome
          \/ \E kind \in {"suspected", "refused"} :
               Write(i, "failed", kind, reported) /\ GiveUp(p)
    BY <1>4 DEF Answer
  <2>2. reported \in Ref
    BY <1>0, <2>1
  <2> QED
    BY <1>3, <2>1, <2>2
<1>5. CASE Raise(p)
  BY <1>0, <1>3, <1>5 DEF Raise
<1>6. CASE TimeOut(p)
  <2>1. CASE segments[i].state = "started"
    <3> DEFINE row == [segments[i] EXCEPT !.state = "unknown"]
    <3>1. /\ row \in Segment /\ row.session = segments[i].session /\ row.state # "planned"
      BY <1>0, <1>1 DEF Segment
    <3>2. segments' = [segments EXCEPT ![i] = row] /\ GiveUp(p)
      BY <1>1, <1>6, <2>1 DEF TimeOut
    <3> HIDE DEF row
    <3>3. Writes(i, row)
      BY <1>0, <1>1, <3>1, <3>2, WriteSegment
    <3>4. /\ driver' \in [Driver -> Process] /\ Moves(p) /\ outcome' \in Outcomes
          /\ driver'[p].pc \in {"off", "pause", "finalize"}
      BY <1>0, <3>2, EndEffect
    <3> QED
      BY <1>1, <3>1, <3>3, <3>4 DEF Answers, Writes
  <2>2. CASE UNCHANGED segments /\ Fail(p)
    <3>1. /\ driver' \in [Driver -> Process] /\ Moves(p) /\ outcome' \in Outcomes
          /\ driver'[p].pc \in {"off", "pause", "finalize"}
      BY <1>0, <2>2, EndEffect
    <3> QED
      BY <1>0, <1>1, <2>2, <3>1 DEF Decides
  <2> QED
    BY <1>6, <2>1, <2>2 DEF TimeOut
<1> QED
  BY <1>2, <1>4, <1>5, <1>6

(* mark_active_calls_unknown marks every started call.                     *)
LEMMA MarkEffect ==
  ASSUME segments \in Seq(Segment), MarkUnknown
  PROVE  Marks
<1> DEFINE state(i) == IF segments[i].state = "started" THEN "unknown" ELSE segments[i].state
           row(i) == [segments[i] EXCEPT !.state = state(i)]
<1>1. /\ DOMAIN segments = 1 .. Len(segments) /\ Len(segments) \in Nat
      /\ \A i \in DOMAIN segments : segments[i] \in Segment
  BY SegmentFacts
<1>2. \A i \in DOMAIN segments : state(i) \in
        {"planned", "started", "completed", "failed", "unknown"}
  BY <1>1 DEF Segment
<1>3. segments' = [i \in DOMAIN segments |-> row(i)]
  BY DEF MarkUnknown
<1>4. \A i \in DOMAIN segments :
        /\ row(i) \in Segment /\ row(i).state = state(i)
        /\ row(i).kind = segments[i].kind
        /\ row(i).request = segments[i].request /\ row(i).session = segments[i].session
  <2> HIDE DEF state
  <2> QED
    BY <1>1, <1>2 DEF Segment
<1>5. /\ DOMAIN segments' = 1 .. Len(segments)
      /\ \A i \in DOMAIN segments : segments'[i] = row(i)
  BY <1>1, <1>3
<1>6. segments' \in [1 .. Len(segments) -> Segment]
  <2> HIDE DEF row
  <2> QED
    BY <1>1, <1>3, <1>4
<1>7. segments' \in Seq(Segment)
  BY <1>1, <1>6, SeqDef
<1>8. Len(segments') = Len(segments)
  <2>1. DOMAIN segments' = 1 .. Len(segments') /\ Len(segments') \in Nat
    BY <1>7, LenProperties
  <2> QED
    BY <1>1, <1>5, <2>1
<1> HIDE DEF row
<1> QED
  BY <1>1, <1>4, <1>5, <1>7, <1>8 DEF Marks, state

(* Every step decides, begins, answers or is the environment's, and keeps  *)
(* the types.                                                              *)
LEMMA StepEffect ==
  ASSUME TypeOK, Chain, Drivers, [Next]_vars
  PROVE  /\ \/ \E p \in Driver : Decides(p) \/ Begins(p) \/ Answers(p)
            \/ Environs
         /\ TypeOK'
<1> USE SegmentAssumption DEF Bounds
<1>0. /\ segments \in Seq(Segment) /\ driver \in [Driver -> Process] /\ outcome \in Outcomes
      /\ invoked \in [Index -> Nat]
      /\ control \in {"running", "pause_requested", "paused"}
      /\ scope \in {"in", "worker", "user"} /\ freezing \in BOOLEAN
      /\ crashes \in 0 .. MaxCrashes /\ commands \in 0 .. MaxCommands
  BY DEF TypeOK, Outcomes
<1>1. ASSUME NEW p \in Driver, Resume(p) \/ Drive(p) \/ ReadControl(p) \/ Look(p)
      PROVE  Decides(p) /\ TypeOK'
  <2>1. Decides(p) /\ driver' \in [Driver -> Process] /\ outcome' \in Outcomes
    BY <1>1, DecideEffect
  <2>2. /\ UNCHANGED <<segments, scope, freezing, invoked, crashes, commands>>
        /\ control' \in {"running", control}
    BY <1>1 DEF Resume, Drive, ReadControl, Look
  <2> QED
    BY <1>0, <2>1, <2>2 DEF TypeOK, Outcomes
<1>2. ASSUME NEW p \in Driver, Begin(p) PROVE (Begins(p) \/ Decides(p)) /\ TypeOK'
  <2>1. /\ Begins(p) \/ Decides(p)
        /\ segments' \in Seq(Segment) /\ invoked' \in [Index -> Nat]
        /\ driver' \in [Driver -> Process] /\ outcome' \in Outcomes
    BY <1>2, BeginEffect
  <2>2. UNCHANGED <<control, scope, freezing, crashes, commands>>
    BY <1>2 DEF Begin
  <2> QED
    BY <1>0, <2>1, <2>2 DEF TypeOK, Outcomes
<1>3. ASSUME NEW p \in Driver, Callback(p) \/ Answer(p) \/ Raise(p) \/ TimeOut(p)
      PROVE  (Answers(p) \/ Decides(p)) /\ TypeOK'
  <2>1. /\ Answers(p) \/ Decides(p)
        /\ segments' \in Seq(Segment)
        /\ driver' \in [Driver -> Process] /\ outcome' \in Outcomes
    BY <1>3, AnswerEffect
  <2>2. UNCHANGED <<control, scope, freezing, invoked, crashes, commands>>
    BY <1>3 DEF Callback, Answer, Raise, TimeOut
  <2> QED
    BY <1>0, <2>1, <2>2 DEF TypeOK, Outcomes
<1>4. ASSUME NEW p \in Driver, SafePause(p) \/ Finalize(p) \/ Crash(p)
      PROVE  Decides(p) /\ TypeOK'
  <2>1. driver' \in [Driver -> Process] /\ Moves(p) /\ driver'[p].pc = "off"
    BY <1>0, <1>4, LeaveEffect DEF SafePause, Finalize, Crash
  <2>2. UNCHANGED <<segments, scope, freezing, invoked, commands>>
    BY <1>4 DEF SafePause, Finalize, Crash
  <2>3. control' \in {"paused", control} /\ outcome' \in {"failed", outcome}
        /\ crashes' \in 0 .. MaxCrashes
    BY <1>0, <1>4 DEF SafePause, Finalize, Crash
  <2> QED
    BY <1>0, <2>1, <2>2, <2>3 DEF TypeOK, Outcomes, Decides
<1>5. CASE Stray
  BY <1>0, <1>5 DEF Stray, Environs, Live, TypeOK, Outcomes
<1>6. CASE Pause \/ Freeze
  <2>1. /\ UNCHANGED <<segments, outcome, scope, driver, invoked>>
        /\ control' \in {"pause_requested", "paused"} /\ freezing' \in {TRUE, freezing}
        /\ crashes' = crashes /\ commands' \in 0 .. MaxCommands
    <3>1. CASE Pause
      BY <1>0, <1>6, <3>1 DEF Pause, Command
    <3>2. CASE Freeze
      BY <1>0, <1>6, <3>2 DEF Freeze, Command
    <3> QED
      BY <1>6, <3>1, <3>2
  <2>2. freezing' \in BOOLEAN
    BY <1>0, <2>1
  <2> QED
    BY <1>0, <2>1, <2>2 DEF Environs, TypeOK, Outcomes
<1>7. CASE Edit
  BY <1>0, <1>7 DEF Edit, Command, Environs, TypeOK, Outcomes
<1>8. CASE MarkUnknown
  <2>1. Marks
    BY <1>0, <1>8, MarkEffect
  <2> QED
    BY <1>0, <1>8, <2>1 DEF MarkUnknown, Marks, Environs, TypeOK, Outcomes
<1>9. CASE UNCHANGED vars
  BY <1>0, <1>9 DEF vars, Environs, TypeOK, Outcomes
<1> QED
  BY <1>1, <1>2, <1>3, <1>4, <1>5, <1>6, <1>7, <1>8, <1>9 DEF Next, DriverStep

-----------------------------------------------------------------------------
(* Every step keeps every part.                                            *)

(* A live segment is the last one, and nobody is about to follow it.       *)
LEMMA LiveIsLast ==
  ASSUME TypeOK, Chain, Drivers, NEW i \in DOMAIN segments, Live(i)
  PROVE  /\ i = Len(segments)
         /\ \A p \in Driver : driver[p].pc = "begin" =>
              driver[p].index \in DOMAIN segments /\ driver[p].index - 1 # i
<1>0. /\ DOMAIN segments = 1 .. Len(segments) /\ Len(segments) \in Nat
  BY SegmentFacts DEF TypeOK
<1>1. ~HasFailed(i, "step_limit")
  BY DEF Live, HasFailed
<1>2. i = Len(segments)
  BY <1>0, <1>1 DEF Chain
<1>3. ASSUME NEW p \in Driver, driver[p].pc = "begin"
      PROVE  driver[p].index \in DOMAIN segments /\ driver[p].index - 1 # i
  <2>1. driver[p].index \in Nat /\ driver[p].index > 0 /\ driver[p].index <= Len(segments) + 1
    BY <1>3, SegmentAssumption DEF Drivers, Index
  <2>2. driver[p].index > 1 => driver[p].index - 1 # i
    BY <1>1, <1>3 DEF Drivers
  <2> QED
    BY <1>0, <1>2, <2>1, <2>2
<1> QED
  BY <1>2, <1>3

(* Every step keeps the chain of segments.                                 *)
LEMMA ChainStep == TypeOK /\ Chain /\ Drivers /\ [Next]_vars => Chain'
<1> SUFFICES ASSUME TypeOK, Chain, Drivers, [Next]_vars PROVE Chain'
  OBVIOUS
<1>0. /\ DOMAIN segments = 1 .. Len(segments) /\ Len(segments) \in Nat
      /\ \A i \in DOMAIN segments : segments[i] \in Segment
  BY SegmentFacts DEF TypeOK
<1>1. ASSUME segments' = segments PROVE Chain'
  BY <1>1 DEF Chain, HasFailed
<1>2. ASSUME NEW p \in Driver, Begins(p) PROVE Chain'
  <2> DEFINE i == driver[p].index
  <2>1. /\ i \in Nat /\ i > 0 /\ i <= Len(segments) + 1 /\ i <= MaxContinuations + 1
        /\ i > 1 => HasFailed(i - 1, "step_limit") /\ segments[i - 1].request = driver[p].session
        /\ i > 1 /\ StateOf(i) = "planned" => segments[i].session = driver[p].session
    BY <1>2, SegmentAssumption DEF Begins, Drivers, Index
  <2>2. PICK row \in Segment : Starts(p, row)
    BY <1>2 DEF Begins
  <2>3. /\ Startable(i) /\ row.state = "started"
        /\ i \in DOMAIN segments => row.session = segments[i].session
        /\ i \notin DOMAIN segments => row.session = driver[p].session
        /\ Len(segments') = IF i \in DOMAIN segments THEN Len(segments) ELSE Len(segments) + 1
        /\ DOMAIN segments' = DOMAIN segments \cup {i}
        /\ \A j \in DOMAIN segments : j # i => segments'[j] = segments[j]
        /\ segments'[i] = row
    BY <2>2 DEF Starts
  <2>4. i \in DOMAIN segments => segments[i].state = "planned" /\ i = Len(segments)
    <3>1. i \in DOMAIN segments => segments[i].state = "planned"
      BY <1>0, <2>3 DEF Startable, StateOf, Segment
    <3>2. i \in DOMAIN segments /\ i < Len(segments) => FALSE
      BY <3>1 DEF Chain, HasFailed
    <3> QED
      BY <1>0, <2>1, <3>1, <3>2
  <2>5. i = Len(segments')
    BY <1>0, <2>1, <2>3, <2>4
  <2>6. i > 1 => row.session = driver[p].session
    BY <2>1, <2>3, <2>4 DEF StateOf
  <2>7. i > 1 => i - 1 \in DOMAIN segments /\ i - 1 # i
    BY <1>0, <2>1
  <2>8. \A j \in DOMAIN segments' : j < Len(segments') =>
          j \in DOMAIN segments /\ j # i /\ HasFailed(j, "step_limit")
    <3> TAKE j \in DOMAIN segments'
    <3>1. j < Len(segments') => j # i /\ j \in DOMAIN segments
      <4>1. j \in DOMAIN segments \/ j = i
        BY <2>3
      <4>2. i < Len(segments') => FALSE
        BY <2>1, <2>5
      <4> QED
        BY <4>1, <4>2
    <3>2. CASE j < Len(segments)
      BY <3>1, <3>2 DEF Chain
    <3>3. CASE j < i /\ ~(j < Len(segments))
      <4>1. j \in DOMAIN segments
        BY <2>5, <3>1, <3>3
      <4>2. j = i - 1 /\ i > 1
        BY <1>0, <2>1, <3>3, <4>1
      <4> QED
        BY <2>1, <3>1, <3>3, <4>2, <2>5
    <3> QED
      BY <2>5, <3>1, <3>2, <3>3
  <2>9. \A j \in DOMAIN segments' : j > 1 /\ segments'[j].state # "planned" =>
          segments'[j].session = segments'[j - 1].request
    <3> SUFFICES ASSUME NEW j \in DOMAIN segments', j > 1, segments'[j].state # "planned"
                 PROVE  segments'[j].session = segments'[j - 1].request
      OBVIOUS
    <3>1. CASE j = i
      BY <2>1, <2>3, <2>6, <2>7, <3>1
    <3>2. CASE j # i
      <4>1. j \in DOMAIN segments /\ j - 1 \in DOMAIN segments /\ j - 1 # i
        BY <1>0, <2>1, <2>3, <2>4, <3>2
      <4> QED
        BY <2>3, <3>2, <4>1 DEF Chain
    <3> QED
      BY <3>1, <3>2
  <2>10. Len(segments') <= MaxContinuations + 1
    BY <2>1, <2>5
  <2>11. \A j \in DOMAIN segments' : j < Len(segments') => HasFailed(j, "step_limit")'
    BY <2>3, <2>8 DEF HasFailed
  <2> QED
    BY <2>9, <2>10, <2>11 DEF Chain
<1>3. ASSUME NEW p \in Driver, Answers(p) PROVE Chain'
  <2> DEFINE i == driver[p].index
  <2>1. i \in DOMAIN segments /\ Live(i) /\ i = Len(segments)
    BY <1>3, LiveIsLast DEF Answers, Drivers
  <2>2. PICK row \in Segment : Writes(i, row) /\ row.session = segments[i].session
    BY <1>3 DEF Answers
  <2>3. /\ Len(segments') = Len(segments) /\ DOMAIN segments' = DOMAIN segments
        /\ \A j \in DOMAIN segments : j # i => segments'[j] = segments[j]
        /\ segments'[i].session = segments[i].session
    BY <2>2 DEF Writes
  <2>4. \A j \in DOMAIN segments : j > 1 => j - 1 \in DOMAIN segments /\ j - 1 # i
    BY <1>0, <2>1
  <2>5. segments[i].state # "planned"
    BY <2>1 DEF Live
  <2>6. \A j \in DOMAIN segments' : j < Len(segments') => HasFailed(j, "step_limit")'
    BY <1>0, <2>1, <2>3 DEF Chain, HasFailed
  <2>7. \A j \in DOMAIN segments' : j > 1 /\ segments'[j].state # "planned" =>
          segments'[j].session = segments'[j - 1].request
    BY <2>3, <2>4, <2>5 DEF Chain
  <2> QED
    BY <2>3, <2>6, <2>7 DEF Chain
<1>4. ASSUME Marks PROVE Chain'
  <2>1. \A j \in DOMAIN segments : j > 1 => j - 1 \in DOMAIN segments
    BY <1>0
  <2>2. \A j \in DOMAIN segments : segments'[j].state # "planned" => segments[j].state # "planned"
    BY <1>4 DEF Marks
  <2>3. \A j \in DOMAIN segments' : j < Len(segments') => HasFailed(j, "step_limit")'
    BY <1>4 DEF Marks, Chain, HasFailed
  <2>4. \A j \in DOMAIN segments' : j > 1 /\ segments'[j].state # "planned" =>
          segments'[j].session = segments'[j - 1].request
    BY <1>4, <2>1, <2>2 DEF Marks, Chain
  <2> QED
    BY <1>4, <2>3, <2>4 DEF Marks, Chain
<1> QED
  BY <1>1, <1>2, <1>3, <1>4, StepEffect DEF Decides, Environs

(* Every step keeps what the drivers have decided in line with the chain.  *)
LEMMA DriversStep == TypeOK /\ Chain /\ Drivers /\ [Next]_vars => Drivers'
<1> SUFFICES ASSUME TypeOK, Chain, Drivers, [Next]_vars PROVE Drivers'
  OBVIOUS
<1>0. /\ DOMAIN segments = 1 .. Len(segments) /\ Len(segments) \in Nat
      /\ segments' \in Seq(Segment)
      /\ segments # <<>> <=> Len(segments) > 0
      /\ segments' # <<>> <=> Len(segments') > 0
      /\ DOMAIN segments' = 1 .. Len(segments') /\ Len(segments') \in Nat
  <2>1. segments \in Seq(Segment) /\ segments' \in Seq(Segment)
    BY StepEffect DEF TypeOK
  <2> QED
    BY <2>1, LenProperties, EmptySeq
\* What one driver must satisfy, now and next.
<1> DEFINE Good(p) ==
      /\ driver[p].pc \in {"loop", "look"} => segments # <<>>
      /\ driver[p].pc = "begin" =>
           LET i == driver[p].index IN
           /\ i \in Index /\ i <= Len(segments) + 1
           /\ i > 1 => /\ HasFailed(i - 1, "step_limit")
                       /\ segments[i - 1].request = driver[p].session
           /\ i > 1 /\ StateOf(i) = "planned" => segments[i].session = driver[p].session
      /\ InCall(p) => driver[p].index \in DOMAIN segments /\ Live(driver[p].index)
    Apart == \A p, q \in Driver : p # q /\ InCall(p) /\ InCall(q) =>
               driver[p].index # driver[q].index
<1>1. \A p \in Driver : Good(p)
  BY DEF Drivers
<1>2. Apart
  BY DEF Drivers
<1>3. ASSUME \A p \in Driver : Good(p)', Apart' PROVE Drivers'
  <2> HIDE DEF Apart
  <2>1. Apart'
    BY <1>3
  <2> USE DEF Apart
  <2> QED
    BY <1>3, <2>1 DEF Drivers
<1>4. ASSUME NEW p \in Driver, Decides(p) PROVE Drivers'
  <2>1. \A q \in Driver : q # p => Good(q)'
    BY <1>1, <1>4 DEF Decides, Moves, HasFailed, StateOf, InCall, Live
  <2>2. Good(p)' /\ ~InCall(p)'
    <3>1. CASE driver'[p].pc \in {"off", "drive", "pause", "finalize"}
      BY <3>1 DEF InCall
    <3>2. CASE driver'[p].pc \in {"loop", "look"} /\ segments # <<>>
      BY <1>4, <3>2 DEF Decides, InCall
    <3>3. ASSUME NEW i \in Nat, NEW session \in Ref, Chooses(p, i, session)
          PROVE  Good(p)' /\ ~InCall(p)'
      BY <1>4, <3>3 DEF Decides, Chooses, HasFailed, StateOf, InCall
    <3> QED
      BY <1>4, <3>1, <3>2, <3>3 DEF Decides
  <2>3. Apart'
    BY <1>2, <1>4, <2>2 DEF Decides, Moves, InCall
  <2> QED
    BY <1>3, <2>1, <2>2, <2>3
<1>5. ASSUME NEW p \in Driver, Begins(p) PROVE Drivers'
  <2> DEFINE i == driver[p].index
  <2>1. /\ i \in Nat /\ i > 0 /\ i <= Len(segments) + 1
        /\ driver'[p].pc = "call" /\ driver'[p].index = i /\ Moves(p)
    BY <1>5, SegmentAssumption DEF Begins, Drivers, Index
  <2>2. PICK row \in Segment : Starts(p, row)
    BY <1>5 DEF Begins
  <2>3. /\ Startable(i) /\ row.state = "started"
        /\ Len(segments') = IF i \in DOMAIN segments THEN Len(segments) ELSE Len(segments) + 1
        /\ DOMAIN segments' = DOMAIN segments \cup {i}
        /\ \A j \in DOMAIN segments : j # i => segments'[j] = segments[j]
        /\ segments'[i] = row
    BY <2>2 DEF Starts
  <2>4. i \in DOMAIN segments => segments[i].state = "planned"
    BY <2>3, SegmentFacts DEF Startable, StateOf, Segment, TypeOK
  <2>0. Len(segments') >= Len(segments)
    <3>1. Len(segments') = Len(segments) \/ Len(segments') = Len(segments) + 1
      BY <2>3
    <3>2. Len(segments) \in Nat
      BY <1>0
    <3> QED
      BY <3>1, <3>2
  <2>5. Good(p)'
    BY <2>1, <2>3 DEF InCall, Live
  <2>6. \A q \in Driver : q # p /\ InCall(q) => driver[q].index # i
    BY <1>1, <2>4 DEF Live
  <2>7. ASSUME NEW q \in Driver, q # p PROVE Good(q)'
    <3>1. driver'[q] = driver[q]
      BY <2>1, <2>7 DEF Moves
    <3>2. driver[q].pc \in {"loop", "look"} => segments' # <<>>
      BY <1>0, <1>1, <2>0
    <3>3. InCall(q) => driver[q].index \in DOMAIN segments' /\ Live(driver[q].index)'
      BY <1>1, <2>3, <2>6, <2>7, <3>1 DEF Live
    <3>4. ASSUME driver[q].pc = "begin"
          PROVE  LET j == driver[q].index IN
             /\ j \in Index /\ j <= Len(segments') + 1
             /\ j > 1 => /\ HasFailed(j - 1, "step_limit")'
                         /\ segments'[j - 1].request = driver[q].session
             /\ j > 1 /\ StateOf(j)' = "planned" => segments'[j].session = driver[q].session
      <4> DEFINE j == driver[q].index
      <4>1. /\ j \in Index /\ j <= Len(segments) + 1 /\ j \in Nat /\ j > 0
            /\ j > 1 => HasFailed(j - 1, "step_limit") /\ segments[j - 1].request = driver[q].session
            /\ j > 1 /\ StateOf(j) = "planned" => segments[j].session = driver[q].session
        BY <1>1, <3>4, SegmentAssumption DEF Index
      <4>2. Len(segments') >= Len(segments)
        BY <2>0
      <4>3. j > 1 => j - 1 \in DOMAIN segments
        BY <1>0, <4>1
      <4>4. j > 1 => j - 1 # i
        BY <2>4, <4>1, <4>3 DEF HasFailed
      <4>5. j > 1 => HasFailed(j - 1, "step_limit")' /\ segments'[j - 1].request = driver[q].session
        <5>1. driver'[q].index = j
          BY <3>1
        <5>2. j > 1 => segments'[j - 1] = segments[j - 1]
          BY <2>3, <4>3, <4>4
        <5> QED
          BY <3>1, <4>1, <5>1, <5>2 DEF HasFailed
      <4>6. ASSUME j > 1, StateOf(j)' = "planned" PROVE segments'[j].session = driver[q].session
        <5>1. j \in DOMAIN segments' /\ segments'[j].state = "planned"
          BY <3>1, <4>6 DEF StateOf
        <5>2. j # i /\ j \in DOMAIN segments /\ segments'[j] = segments[j]
          BY <2>3, <5>1
        <5> QED
          BY <4>1, <4>6, <5>1, <5>2 DEF StateOf
      <4> QED
        BY <1>0, <3>1, <4>1, <4>2, <4>5, <4>6
    <3> QED
      BY <3>1, <3>2, <3>3, <3>4 DEF InCall, HasFailed, StateOf, Live
  <2>8. Apart'
    BY <1>2, <2>1, <2>6 DEF Moves, InCall
  <2> QED
    BY <1>3, <2>5, <2>7, <2>8
<1>6. ASSUME NEW p \in Driver, Answers(p) PROVE Drivers'
  <2> DEFINE i == driver[p].index
  <2>1. /\ i \in DOMAIN segments /\ Live(i) /\ InCall(p) /\ Moves(p)
        /\ \A q \in Driver : driver[q].pc = "begin" => driver[q].index - 1 # i
    BY <1>6, LiveIsLast DEF Answers, Drivers
  <2>2. PICK row \in Segment :
          /\ Writes(i, row) /\ row.state # "planned"
          /\ \/ driver'[p].pc \in {"off", "pause", "finalize", "loop"}
             \/ /\ driver'[p].pc = "wait" /\ driver'[p].index = i
                /\ row.state = segments[i].state
    BY <1>6 DEF Answers
  <2>3. /\ Len(segments') = Len(segments) /\ DOMAIN segments' = DOMAIN segments
        /\ \A j \in DOMAIN segments : j # i => segments'[j] = segments[j]
        /\ segments'[i] = row
    BY <2>2 DEF Writes
  <2>4. Good(p)'
    BY <1>0, <2>1, <2>2, <2>3 DEF InCall, Live
  <2>5. ASSUME NEW q \in Driver, q # p PROVE Good(q)'
    <3>1. driver'[q] = driver[q]
      BY <2>1, <2>5 DEF Moves
    <3>2. InCall(q) => driver[q].index # i
      BY <1>2, <2>1, <2>5
    <3>3. CASE driver[q].pc = "begin"
      <4> DEFINE j == driver[q].index
      <4>1. /\ j \in Index /\ j <= Len(segments) + 1 /\ j \in Nat /\ j > 0 /\ j - 1 # i
            /\ j > 1 => HasFailed(j - 1, "step_limit") /\ segments[j - 1].request = driver[q].session
            /\ j > 1 /\ StateOf(j) = "planned" => segments[j].session = driver[q].session
        BY <1>1, <2>1, <3>3, SegmentAssumption DEF Index
      <4>2. j > 1 => j - 1 \in DOMAIN segments /\ segments'[j - 1] = segments[j - 1]
        BY <1>0, <2>3, <4>1
      <4>3. ASSUME StateOf(j)' = "planned" PROVE StateOf(j) = "planned" /\ segments'[j] = segments[j]
        BY <2>2, <2>3, <3>1, <4>3 DEF StateOf
      <4> QED
        BY <2>3, <3>1, <3>3, <4>1, <4>2, <4>3 DEF InCall, HasFailed
    <3>4. CASE driver[q].pc # "begin"
      BY <1>0, <1>1, <2>3, <3>1, <3>2, <3>4 DEF InCall, Live
    <3> QED
      BY <3>3, <3>4
  <2>6. Apart'
    BY <1>2, <2>1, <2>2 DEF Moves, InCall
  <2> QED
    BY <1>3, <2>4, <2>5, <2>6
<1>7. CASE Environs
  <2>0. driver' = driver
    BY <1>7 DEF Environs
  <2>1. Apart'
    BY <1>2, <2>0 DEF InCall
  <2>2. CASE segments' = segments
    BY <1>1, <1>3, <2>0, <2>1, <2>2 DEF HasFailed, StateOf, InCall, Live
  <2>3. CASE Marks
    <3> SUFFICES ASSUME NEW q \in Driver PROVE Good(q)'
      BY <1>3, <2>1
    <3>1. CASE driver[q].pc = "begin"
      <4> DEFINE j == driver[q].index
      <4>1. /\ j \in Index /\ j <= Len(segments) + 1 /\ j \in Nat /\ j > 0
            /\ j > 1 => HasFailed(j - 1, "step_limit") /\ segments[j - 1].request = driver[q].session
            /\ j > 1 /\ StateOf(j) = "planned" => segments[j].session = driver[q].session
        BY <1>1, <3>1, SegmentAssumption DEF Index
      <4>2. j > 1 => j - 1 \in DOMAIN segments
        BY <1>0, <4>1
      <4>3. StateOf(j)' = "planned" => StateOf(j) = "planned" /\ j \in DOMAIN segments
        BY <2>0, <2>3 DEF Marks, StateOf
      <4> QED
        BY <2>0, <2>3, <3>1, <4>1, <4>2, <4>3 DEF Marks, InCall, HasFailed
    <3>2. CASE driver[q].pc # "begin"
      BY <1>0, <1>1, <2>0, <2>3, <3>2 DEF Marks, InCall, Live
    <3> QED
      BY <3>1, <3>2
  <2> QED
    BY <1>7, <2>2, <2>3 DEF Environs
<1> QED
  BY <1>4, <1>5, <1>6, <1>7, StepEffect

(* Every step keeps the count of the workers.                              *)
LEMMA InvocationsStep ==
  TypeOK /\ Chain /\ Drivers /\ Invocations /\ [Next]_vars => Invocations'
<1> SUFFICES ASSUME TypeOK, Chain, Drivers, Invocations, [Next]_vars PROVE Invocations'
  OBVIOUS
<1>0. /\ invoked \in [Index -> Nat]
      /\ \A i \in DOMAIN segments : segments[i] \in Segment
  BY SegmentFacts DEF TypeOK
<1>1. ASSUME segments' = segments, invoked' = invoked PROVE Invocations'
  BY <1>1 DEF Invocations
<1>2. ASSUME NEW p \in Driver, Begins(p) PROVE Invocations'
  <2> DEFINE i == driver[p].index
  <2>1. i \in Index /\ invoked' = [invoked EXCEPT ![i] = @ + 1]
    BY <1>2 DEF Begins, Drivers
  <2>2. PICK row \in Segment : Starts(p, row)
    BY <1>2 DEF Begins
  <2>3. /\ Startable(i) /\ row.state = "started" /\ DOMAIN segments' = DOMAIN segments \cup {i}
        /\ \A j \in DOMAIN segments : j # i => segments'[j] = segments[j]
        /\ segments'[i] = row
    BY <2>2 DEF Starts
  <2>4. i \in DOMAIN segments => segments[i].state = "planned"
    BY <1>0, <2>3 DEF Startable, StateOf, Segment
  <2>5. invoked[i] = 0
    BY <1>0, <2>1, <2>4 DEF Invocations
  <2> QED
    BY <1>0, <2>1, <2>3, <2>5 DEF Invocations
<1>3. ASSUME NEW p \in Driver, Answers(p) PROVE Invocations'
  BY <1>3 DEF Answers, Writes, Invocations
<1>4. ASSUME Marks, invoked' = invoked PROVE Invocations'
  <2>1. \A j \in DOMAIN segments : segments[j].state # "planned" => segments'[j].state # "planned"
    BY <1>4 DEF Marks
  <2> QED
    BY <1>4, <2>1 DEF Marks, Invocations
<1> QED
  BY <1>1, <1>2, <1>3, <1>4, StepEffect DEF Decides, Environs

(* Nothing is started after a worker has strayed, and nothing will be.     *)
LEMMA StrayedStep ==
  TypeOK /\ Chain /\ Drivers /\ Strayed /\ [Next]_vars =>
    Strayed' /\ (scope = "worker" => invoked' = invoked)
<1> SUFFICES ASSUME TypeOK, Chain, Drivers, Strayed, [Next]_vars
             PROVE  Strayed' /\ (scope = "worker" => invoked' = invoked)
  OBVIOUS
<1>0. /\ DOMAIN segments = 1 .. Len(segments) /\ Len(segments) \in Nat
      /\ \A i \in DOMAIN segments : segments[i] \in Segment
      /\ segments # <<>> <=> Len(segments) > 0
      /\ DOMAIN segments' = 1 .. Len(segments') /\ Len(segments') \in Nat
      /\ segments' # <<>> <=> Len(segments') > 0
  <2>1. segments \in Seq(Segment) /\ segments' \in Seq(Segment)
    BY StepEffect DEF TypeOK
  <2> QED
    BY <2>1, LenProperties, EmptySeq, SegmentFacts
<1>1. ASSUME NEW p \in Driver, Decides(p)
      PROVE  Strayed' /\ invoked' = invoked
  <2>1. UNCHANGED <<segments, scope, invoked>>
    BY <1>1 DEF Decides
  <2> SUFFICES ASSUME scope = "worker", NEW q \in Driver, driver'[q].pc = "begin"
               PROVE  driver'[q].index \in DOMAIN segments
    BY <2>1 DEF Strayed
  <2>2. CASE q # p
    BY <1>1, <2>2 DEF Decides, Moves, Strayed
  <2>3. CASE q = p
    <3>1. PICK i \in Nat, session \in Ref : Chooses(p, i, session)
      BY <1>1, <2>3 DEF Decides
    <3>2. i \in Index /\ i \in Nat /\ i > 0 /\ driver'[p].index = i
      BY <3>1, SegmentAssumption DEF Chooses, Index
    <3>3. ~(i > 1)
      BY <3>1 DEF Chooses
    <3>4. i = 1
      BY <3>2, <3>3
    <3>5. segments # <<>> /\ 1 \in DOMAIN segments /\ segments[1].state # "planned"
      BY <1>0 DEF Strayed
    <3> QED
      BY <3>1, <3>4, <3>5 DEF Chooses
  <2> QED
    BY <2>2, <2>3
<1>2. ASSUME NEW p \in Driver, Begins(p)
      PROVE  scope # "worker" /\ Strayed'
  <2> DEFINE i == driver[p].index
  <2>1. Startable(i) /\ driver[p].pc = "begin" /\ scope' = scope
    BY <1>2 DEF Begins, Starts
  <2>2. i \in DOMAIN segments => segments[i].state = "planned"
    BY <1>0, <2>1 DEF Startable, StateOf, Segment
  <2> QED
    BY <2>1, <2>2 DEF Strayed
<1>3. ASSUME NEW p \in Driver, Answers(p)
      PROVE  Strayed' /\ invoked' = invoked
  <2> DEFINE i == driver[p].index
  <2>1. PICK row \in Segment :
          /\ Writes(i, row) /\ row.state # "planned"
          /\ driver'[p].pc # "begin"
    BY <1>3 DEF Answers
  <2>2. /\ Len(segments') = Len(segments) /\ DOMAIN segments' = DOMAIN segments
        /\ \A j \in DOMAIN segments : segments[j].state # "planned" => segments'[j].state # "planned"
    BY <2>1 DEF Writes
  <2>3. Moves(p) /\ scope' = scope /\ invoked' = invoked
    BY <1>3 DEF Answers
  <2> QED
    BY <1>0, <2>1, <2>2, <2>3 DEF Strayed, Moves
<1>4. CASE Environs
  <2>1. driver' = driver /\ invoked' = invoked
    BY <1>4 DEF Environs
  <2>2. ASSUME segments' = segments, NEW i \in DOMAIN segments, Live(i) PROVE Strayed'
    <3>1. /\ i = Len(segments)
          /\ \A p \in Driver : driver[p].pc = "begin" => driver[p].index \in DOMAIN segments
      BY <2>2, LiveIsLast
    <3>2. \A j \in DOMAIN segments : segments[j].state # "planned"
      <4> TAKE j \in DOMAIN segments
      <4>1. j = i \/ j < Len(segments)
        BY <1>0, <3>1
      <4>2. j = i => segments[j].state # "planned"
        BY <2>2 DEF Live
      <4>3. j < Len(segments) => segments[j].state # "planned"
        BY DEF Chain, HasFailed
      <4> QED
        BY <4>1, <4>2, <4>3
    <3>3. segments # <<>>
      BY <1>0, <2>2
    <3> QED
      BY <2>1, <2>2, <3>1, <3>2, <3>3 DEF Strayed
  <2>3. CASE Marks /\ scope' = scope
    <3>1. /\ Len(segments') = Len(segments) /\ DOMAIN segments' = DOMAIN segments
          /\ \A j \in DOMAIN segments : segments[j].state # "planned" => segments'[j].state # "planned"
      BY <2>3 DEF Marks
    <3> QED
      BY <1>0, <2>1, <2>3, <3>1 DEF Strayed
  <2>4. CASE segments' = segments /\ (scope' # "worker" \/ scope' = scope)
    BY <2>1, <2>4 DEF Strayed
  <2> QED
    BY <1>4, <2>1, <2>2, <2>3, <2>4 DEF Environs
<1> QED
  BY <1>1, <1>2, <1>3, <1>4, StepEffect DEF Environs

(* The initial states satisfy the invariant.                               *)
LEMMA ContinuationInit == Init => ContinuationInv
<1> SUFFICES ASSUME Init PROVE ContinuationInv
  OBVIOUS
<1> USE SegmentAssumption, InheritedAssumption
<1>1. /\ segments \in Seq(Segment)
      /\ DOMAIN segments = 1 .. Len(segments) /\ Len(segments) \in Nat
      /\ segments = <<>> => Len(segments) = 0
  <2>1. segments \in Seq(Segment)
    BY EmptySeq DEF Init
  <2> QED
    BY <2>1, LenProperties, EmptySeq
<1>2. segments # <<>> =>
        /\ segments \in Inherited
        /\ Len(segments) <= MaxContinuations + 1
        /\ segments[Len(segments)].state = "planned"
        /\ \A i \in 1 .. (Len(segments) - 1) :
             /\ segments[i].state = "failed" /\ segments[i].kind = "step_limit"
             /\ i > 1 => segments[i].session = segments[i - 1].request
  <2> SUFFICES ASSUME segments # <<>>
        PROVE
        /\ segments \in Inherited
        /\ Len(segments) <= MaxContinuations + 1
        /\ segments[Len(segments)].state = "planned"
        /\ \A i \in 1 .. (Len(segments) - 1) :
             /\ segments[i].state = "failed" /\ segments[i].kind = "step_limit"
             /\ i > 1 => segments[i].session = segments[i - 1].request
    OBVIOUS
  <2>1. segments \in Inherited
    BY DEF Init
  <2>2. Len(segments) \in 1 .. (MaxContinuations + 1)
    BY <2>1
  <2>3. Len(segments) <= MaxContinuations + 1
    BY <1>1, <2>2
  <2> QED
    BY <2>1, <2>3
<1>3. TypeOK
  <2>1. Off \in Process
    BY DEF Off, Process, Ref
  <2>2. driver \in [Driver -> Process] /\ invoked \in [Index -> Nat]
    BY <2>1 DEF Init
  <2>3. 0 \in 0 .. MaxCrashes /\ 0 \in 0 .. MaxCommands
    OBVIOUS
  <2>4. /\ control = "running" /\ outcome = "open" /\ scope = "in" /\ freezing = FALSE
        /\ crashes = 0 /\ commands = 0
    BY DEF Init
  <2> QED
    BY <1>1, <2>2, <2>3, <2>4 DEF TypeOK
<1>4. Chain
  <2>1. Len(segments) <= MaxContinuations + 1
    BY <1>1, <1>2
  <2>2. \A i \in DOMAIN segments : i < Len(segments) => i \in 1 .. (Len(segments) - 1)
    BY <1>1
  <2>3. \A i \in DOMAIN segments : i < Len(segments) \/ i = Len(segments)
    BY <1>1
  <2>4. \A i \in DOMAIN segments : segments # <<>>
    BY <1>1
  <2>5. \A i \in DOMAIN segments : i < Len(segments) => HasFailed(i, "step_limit")
    BY <1>2, <2>2, <2>4 DEF HasFailed
  <2>6. \A i \in DOMAIN segments : i > 1 /\ segments[i].state # "planned" =>
          segments[i].session = segments[i - 1].request
    BY <1>2, <2>2, <2>3, <2>4
  <2> QED
    BY <2>1, <2>5, <2>6 DEF Chain
<1>5. Drivers /\ Invocations /\ Strayed
  BY DEF Init, Off, Drivers, InCall, Invocations, Strayed
<1> QED
  BY <1>3, <1>4, <1>5 DEF ContinuationInv

(* The inductive invariant of a role's segments.                           *)
THEOREM ContinuationInvariant == Spec => []ContinuationInv
<1>1. Init => ContinuationInv
  BY ContinuationInit
<1>2. ContinuationInv /\ [Next]_vars => ContinuationInv'
  BY StepEffect, ChainStep, DriversStep, InvocationsStep, StrayedStep DEF ContinuationInv
<1> QED
  BY <1>1, <1>2, PTL DEF Spec

(* The segments and the drivers keep their types.                          *)
THEOREM SegmentsTypeCorrect == Spec => []TypeOK
<1>1. ContinuationInv => TypeOK
  BY DEF ContinuationInv
<1> QED
  BY <1>1, ContinuationInvariant, PTL

(* A role never takes more calls than the plan allows, however often the   *)
(* run is paused, crashes and is resumed, and by however many processes.   *)
THEOREM RoleIsBounded == Spec => []SegmentsBounded
<1>1. ContinuationInv => SegmentsBounded
  BY DEF ContinuationInv, Chain, SegmentsBounded
<1> QED
  BY <1>1, ContinuationInvariant, PTL

(* No segment is given to a worker twice.                                  *)
THEOREM WorkersInvokedOnce == Spec => []InvokedOnce
<1>1. ContinuationInv => InvokedOnce
  BY DEF ContinuationInv, Invocations, InvokedOnce
<1> QED
  BY <1>1, ContinuationInvariant, PTL

(* Every started segment follows one that has run out of steps, in its     *)
(* session.                                                                *)
THEOREM ChainIsKept == Spec => []ChainKept
<1>1. ContinuationInv => ChainKept
  <2> SUFFICES ASSUME ContinuationInv, NEW i \in DOMAIN segments, i > 1,
                      segments[i].state # "planned"
               PROVE  /\ HasFailed(i - 1, "step_limit")
                      /\ segments[i].session = segments[i - 1].request
    BY DEF ChainKept
  <2>1. i - 1 \in DOMAIN segments /\ i - 1 < Len(segments)
    BY SegmentFacts DEF ContinuationInv, TypeOK
  <2> QED
    BY <2>1 DEF ContinuationInv, Chain
<1> QED
  BY <1>1, ContinuationInvariant, PTL

(* No worker is started after one that has left the allowed files.         *)
THEOREM StrayedIsNotContinued == Spec => StrayedNotContinued
<1>1. ContinuationInv /\ [Next]_vars => invoked' = invoked \/ scope # "worker"
  BY StrayedStep DEF ContinuationInv
<1> QED
  BY <1>1, ContinuationInvariant, PTL DEF Spec, StrayedNotContinued
=============================================================================
