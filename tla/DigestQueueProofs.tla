-------------------------- MODULE DigestQueueProofs --------------------------
(***************************************************************************)
(* Proofs about DigestQueue, for every calendar, every set of rules,       *)
(* packages, channels and schedules, and every bound: a digest is told     *)
(* once unless a check broke off, and digest_queue implements Outbox.      *)
(***************************************************************************)
EXTENDS DigestQueue, SequenceTheorems, TLAPS

\* A queue has a length, and its rows are rows.
LEMMA QueueFacts ==
  ASSUME TypeOK
  PROVE  /\ Len(queue) \in Nat /\ RowIds \subseteq 1..MaxRows
         /\ queue \in [RowIds -> QueueRow]
  <1>1. Len(queue) \in Nat /\ queue \in [1..Len(queue) -> QueueRow]
    BY LenProperties DEF TypeOK
  <1> QED
    BY <1>1, DigestAssumption DEF TypeOK, RowIds

\* Rows that are rewritten in place are still a queue.
LEMMA Rewritten ==
  ASSUME TypeOK, queue' \in [RowIds -> QueueRow]
  PROVE  queue' \in Seq(QueueRow) /\ Len(queue') = Len(queue) /\ RowIds' = RowIds
  <1>1. Len(queue) \in Nat
    BY QueueFacts
  <1>2. queue' \in Seq(QueueRow)
    BY <1>1, SeqDef DEF RowIds
  <1>3. DOMAIN queue' = 1..Len(queue) /\ DOMAIN queue' = 1..Len(queue') /\ Len(queue') \in Nat
    BY <1>2, LenProperties DEF RowIds
  <1>4. Len(queue') = Len(queue)
    BY <1>1, <1>3
  <1> QED
    BY <1>2, <1>4 DEF RowIds

\* A row that is appended comes after the others.
LEMMA Appended ==
  ASSUME TypeOK, NEW x \in QueueRow, queue' = Append(queue, x)
  PROVE  /\ queue' \in Seq(QueueRow) /\ Len(queue') = Len(queue) + 1
         /\ \A i \in RowIds : queue'[i] = queue[i]
         /\ queue'[Len(queue) + 1] = x
         /\ RowIds' = RowIds \cup {Len(queue) + 1}
  <1>1. Len(queue) \in Nat
    BY QueueFacts
  <1> QED
    BY <1>1, AppendProperties DEF TypeOK, RowIds

\* Keys of periods.
LEMMA KeyTodayType ==
  ASSUME TypeOK, NEW r \in Rules
  PROVE  KeyToday(r) \in PeriodKeys
  BY DEF TypeOK, KeyToday, PeriodKeys, Date

\* Periods belong to rules.
LEMMA PeriodsType ==
  ASSUME TypeOK, NEW R \in SUBSET Rules
  PROVE  Periods(R) \subseteq Rules \X PeriodKeys
  BY KeyTodayType DEF Periods

\* A new row is pending.
LEMMA RowType ==
  ASSUME TypeOK, NEW e \in Events
  PROVE  Row(e) \in QueueRow /\ Row(e).state = "pending" /\ Row(e).event = e
  <1>1. e.rule \in Rules
    BY DigestAssumption
  <1>2. KeyToday(e.rule) \in PeriodKeys /\ today \in 1..Len(Calendar)
    BY <1>1, KeyTodayType DEF TypeOK
  <1> QED
    BY <1>2 DEF Row, QueueRow

\* No check at work is a check.
LEMMA IdleType == TypeOK => Idle \in Job
  BY DEF Idle, Job, PeriodKeys

\* An empty queue satisfies the invariant.
LEMMA InitInv == Init => DInv
  <1> SUFFICES ASSUME Init PROVE DInv
    OBVIOUS
  <1>1. queue \in Seq(QueueRow) /\ Len(queue) = 0 /\ RowIds = {}
    BY EmptySeq DEF Init, RowIds
  <1>2. TypeOK
    <2>1. Idle \in Job
      BY DEF Idle, Job, PeriodKeys
    <2>2. 1 \in 1..Len(Calendar)
      BY DigestAssumption
    <2>3. lastSent \in [Rules -> PeriodKeys] /\ told \in [Cells -> 0..2]
      BY DEF Init, Cells, PeriodKeys
    <2>4. /\ Len(queue) <= MaxRows /\ schedule \in [Rules -> Schedules]
          /\ faults \in 0..MaxFaults /\ changes \in 0..MaxChanges
      BY <1>1, DigestAssumption DEF Init
    <2>5. status \in [Packages -> {"none", "active", "retired"}]
      BY DEF Init
    <2> QED
      BY <1>1, <2>1, <2>2, <2>3, <2>4, <2>5 DEF Init, TypeOK
  <1>3. HandsArePending
    BY DEF Init, HandsArePending, At, Idle
  <1>4. TellsAreCovered /\ DigestToldOnce
    BY DEF Init, TellsAreCovered, DigestToldOnce
  <1> QED
    BY <1>2, <1>3, <1>4 DEF DInv
\* The rows that exist, and what a check may have in its hands, if no row is added.
LEMMA SameRows ==
  ASSUME UNCHANGED queue
  PROVE  RowIds' = RowIds /\ Job' = Job
  BY DEF RowIds, Job

\* A row that is appended keeps the types.
LEMMA EnqueueType ==
  ASSUME TypeOK, NEW e \in Events, Len(queue) < MaxRows,
         queue' = Append(queue, Row(e)),
         status' \in [Packages -> {"none", "active", "retired"}], faults' \in 0..MaxFaults,
         UNCHANGED <<lastSent, config, calendar, job, outcomes, again, hindered, changes>>
  PROVE  TypeOK'
  <1>1. Row(e) \in QueueRow
    BY RowType
  <1>2. /\ queue' \in Seq(QueueRow) /\ Len(queue') = Len(queue) + 1
        /\ RowIds' = RowIds \cup {Len(queue) + 1}
    BY <1>1, Appended
  <1>3. Len(queue') <= MaxRows
    BY <1>2, QueueFacts, DigestAssumption
  <1>4. job' \in Job'
    BY <1>2 DEF TypeOK, Job
  <1>5. again' \subseteq RowIds'
    BY <1>2 DEF TypeOK
  <1> QED
    BY <1>2, <1>3, <1>4, <1>5 DEF TypeOK, config, calendar, outcomes

\* A step that adds no row and does not touch the calendar or what the administrator sets.
LEMMA CheckType ==
  ASSUME TypeOK, UNCHANGED <<status, config, calendar, changes>>,
         queue' \in [RowIds -> QueueRow], job' \in Job,
         lastSent' \in [Rules -> PeriodKeys],
         told' \in [Cells -> 0..2], log' \subseteq Events \X Channels, skipped' \subseteq Cells,
         again' \subseteq RowIds, hindered' \subseteq Rules \X PeriodKeys, faults' \in 0..MaxFaults
  PROVE  TypeOK'
  <1>1. queue' \in Seq(QueueRow) /\ Len(queue') = Len(queue) /\ RowIds' = RowIds
    BY Rewritten
  <1>2. job' \in Job'
    BY <1>1 DEF Job
  <1> QED
    BY <1>1, <1>2 DEF TypeOK, config, calendar

\* A row in another state, or looked at again, is a row.
LEMMA RowTypes ==
  ASSUME NEW x \in QueueRow
  PROVE  /\ \A s \in {"pending", "sent", "cancelled"} : [x EXCEPT !.state = s] \in QueueRow
         /\ \A b \in BOOLEAN : [x EXCEPT !.seen = b] \in QueueRow
  <1>1. ASSUME NEW s \in {"pending", "sent", "cancelled"} PROVE [x EXCEPT !.state = s] \in QueueRow
    BY DEF QueueRow
  <1>2. ASSUME NEW b \in BOOLEAN PROVE [x EXCEPT !.seen = b] \in QueueRow
    BY DEF QueueRow
  <1> QED
    BY <1>1, <1>2

\* The rows are rows after a batch was read.
LEMMA ReadRowsType ==
  ASSUME queue \in [RowIds -> QueueRow], NEW S, ReadRows(S)
  PROVE  queue' \in [RowIds -> QueueRow]
  <1>1. ASSUME NEW i \in RowIds
        PROVE  Read(i) \in QueueRow /\ [queue[i] EXCEPT !.state = "cancelled"] \in QueueRow
    <2>1. queue[i] \in QueueRow /\ (status[queue[i].event.pkg] = "active") \in BOOLEAN
      OBVIOUS
    <2> QED
      BY <2>1, RowTypes DEF Read
  <1> QED
    BY <1>1 DEF ReadRows

\* So does every step of the check,
LEMMA CheckSteps ==
  ASSUME TypeOK, HandsArePending, Step \/ BreakOff
  PROVE  TypeOK'
  <1> USE QueueFacts
  <1>0. /\ queue \in [RowIds -> QueueRow] /\ job \in Job
        /\ lastSent \in [Rules -> PeriodKeys]
        /\ told \in [Cells -> 0..2] /\ log \subseteq Events \X Channels /\ skipped \subseteq Cells
        /\ again \subseteq RowIds /\ hindered \subseteq Rules \X PeriodKeys /\ faults \in 0..MaxFaults
    BY DEF TypeOK
  <1>1. ASSUME NEW r, NEW p, <<r, p>> \in job.rules, ReadBatch(r, p) PROVE TypeOK'
    <2>1. r \in Rules /\ p \in PeriodKeys /\ {<<r, p>>} \subseteq Rules \X PeriodKeys
      BY <1>0, <1>1 DEF Job
    <2>2. Pending(r, p) \subseteq RowIds /\ StillActive(Pending(r, p)) \subseteq RowIds
      BY DEF Pending, StillActive
    <2>3. queue' \in [RowIds -> QueueRow]
      BY <1>0, <1>1, ReadRowsType DEF ReadBatch
    <2>4. Bound[r] \subseteq Channels
      BY <2>1, DigestAssumption
    <2>5. SkipsRule(r, p) \in Job
      BY <1>0, <2>1 DEF SkipsRule, Job
    <2>6. ASSUME NEW phase \in {"post", "close"}, NEW S \in SUBSET RowIds, NEW keep \in SUBSET RowIds
          PROVE  Handles(r, p, phase, S, keep) \in Job
      BY <1>0, <2>1, <2>4 DEF Handles, Job
    <2>7. job' \in Job
      BY <1>1, <2>2, <2>5, <2>6 DEF ReadBatch
    <2>8. hindered' \subseteq Rules \X PeriodKeys
      BY <1>0, <1>1, <2>1 DEF ReadBatch
    <2> QED
      BY <1>0, <1>1, <2>3, <2>7, <2>8, CheckType DEF ReadBatch, outcomes
  <1>2. ASSUME NEW c \in Channels, SkipChannel(c) PROVE TypeOK'
    <2>1. job' \in Job
      BY <1>0, <1>2 DEF SkipChannel, Serves, Job
    <2>2. job.keep \X {c} \subseteq Cells
      BY <1>0, <1>2 DEF Job, Cells
    <2>3. skipped' \subseteq Cells
      BY <1>0, <1>2, <2>2 DEF SkipChannel
    <2> QED
      BY <1>0, <1>2, <2>1, <2>3, CheckType DEF SkipChannel, history
  <1>3. ASSUME NEW c \in Channels, NEW ok \in BOOLEAN, Post(c, ok) PROVE TypeOK'
    <2>1. job' \in Job
      BY <1>0, <1>3 DEF Post, Serves, Job
    <2>2. told' \in [Cells -> 0..2]
      BY <1>0, <1>3 DEF Post, More
    <2> QED
      BY <1>0, <1>3, <2>1, <2>2, CheckType DEF Post, history
  <1>4. CASE LogRows
    <2>1. job' \in Job
      BY <1>0, <1>4 DEF LogRows, Job
    <2>2. \A i \in job.keep : queue[i].event \in Events
      BY <1>0 DEF Job, QueueRow
    <2>3. log' \subseteq Events \X Channels
      BY <1>0, <1>4, <2>2 DEF LogRows, HandsArePending, At
    <2> QED
      BY <1>0, <1>4, <2>1, <2>3, CheckType DEF LogRows, history
  <1>5. CASE MarkRows
    <2>1. job' \in Job
      BY <1>0, <1>5 DEF MarkRows, Job
    <2>2. queue' \in [RowIds -> QueueRow]
      BY <1>0, <1>5 DEF MarkRows, SetState, QueueRow
    <2> QED
      BY <1>0, <1>5, <2>1, <2>2, CheckType DEF MarkRows, history, outcomes
  <1>6. CASE CloseRule
    <2>1. job' \in Job
      <3>1. Idle \in Job
        BY IdleType
      <3> QED
        BY <1>0, <1>6, <3>1 DEF CloseRule, Job
    <2>2. lastSent' \in [Rules -> PeriodKeys]
      BY <1>0, <1>6 DEF CloseRule, Job
    <2> QED
      BY <1>0, <1>6, <2>1, <2>2, CheckType DEF CloseRule, history, outcomes
  <1>7. CASE EndCheck
    BY <1>0, <1>7, IdleType, CheckType DEF EndCheck, history, outcomes
  <1>8. CASE BreakOff
    <2>1. again' \subseteq RowIds
      BY <1>0, <1>8 DEF BreakOff, Job
    <2>2. ~At("rules") => job.rule \in Rules
      BY <1>0, <1>8 DEF BreakOff, HandsArePending, At, Job
    <2>3. hindered' \subseteq Rules \X PeriodKeys
      <3>1. job.rules \subseteq Rules \X PeriodKeys /\ job.period \in PeriodKeys
        BY <1>0 DEF Job
      <3>2. ~At("rules") => {<<job.rule, job.period>>} \subseteq Rules \X PeriodKeys
        BY <2>2, <3>1
      <3> QED
        BY <1>0, <1>8, <3>1, <3>2 DEF BreakOff
    <2>4. faults' \in 0..MaxFaults
      BY <1>0, <1>8, DigestAssumption DEF BreakOff
    <2> QED
      BY <1>0, <1>8, <2>1, <2>3, <2>4, IdleType, CheckType DEF BreakOff, outcomes
  <1>9. \A x \in job.rules : <<x[1], x[2]>> \in job.rules
    <2>1. \A x \in Rules \X PeriodKeys : x = <<x[1], x[2]>>
      OBVIOUS
    <2>2. job.rules \subseteq Rules \X PeriodKeys
      BY <1>0 DEF Job
    <2> QED
      BY <2>1, <2>2
  <1> QED
    BY <1>1, <1>2, <1>3, <1>4, <1>5, <1>6, <1>7, <1>8, <1>9 DEF Step
\* A step of the calendar or the administrator.
LEMMA OutsideType ==
  ASSUME TypeOK, UNCHANGED <<queue, status, lastSent, told, log, skipped, again>>,
         schedule' \in [Rules -> Schedules], enabled' \subseteq Rules, shut' \subseteq Rules,
         on' \subseteq Channels, maintenance' \in BOOLEAN, checks' \in BOOLEAN,
         today' \in 1..Len(Calendar), job' \in Job,
         hindered' \subseteq Rules \X PeriodKeys,
         faults' \in 0..MaxFaults, changes' \in 0..MaxChanges
  PROVE  TypeOK'
  BY SameRows DEF TypeOK

\* and every other step.
LEMMA StepType == TypeOK /\ HandsArePending /\ [Next]_vars => TypeOK'
  <1> SUFFICES ASSUME TypeOK, HandsArePending, [Next]_vars PROVE TypeOK'
    OBVIOUS
  <1> USE QueueFacts
  <1>0. /\ schedule \in [Rules -> Schedules] /\ enabled \subseteq Rules /\ shut \subseteq Rules
        /\ on \subseteq Channels /\ maintenance \in BOOLEAN /\ checks \in BOOLEAN
        /\ today \in 1..Len(Calendar) /\ job \in Job /\ hindered \subseteq Rules \X PeriodKeys
        /\ faults \in 0..MaxFaults /\ changes \in 0..MaxChanges
        /\ OnTheirDay \subseteq Rules
    BY DEF TypeOK, OnTheirDay
  <1>1. CASE StartCheck
    <2>1. Periods(DueRules) \subseteq Rules \X PeriodKeys
      BY <1>0, PeriodsType DEF DueRules
    <2>2. job' \in Job
      BY <1>1, <2>1, IdleType DEF StartCheck, Job, Idle
    <2>3. /\ Periods(OnTheirDay) \subseteq Rules \X PeriodKeys
          /\ Periods(OnTheirDay \ enabled) \subseteq Rules \X PeriodKeys
      BY <1>0, PeriodsType
    <2>4. hindered' \subseteq Rules \X PeriodKeys
      BY <1>0, <1>1, <2>3 DEF StartCheck
    <2> QED
      BY <1>0, <1>1, <2>2, <2>4, OutsideType DEF StartCheck, config, outcomes
  <1>2. CASE Step \/ BreakOff
    BY <1>2, CheckSteps
  <1>3. CASE NextDay
    <2>1. Periods(OnTheirDay) \subseteq Rules \X PeriodKeys
      BY <1>0, PeriodsType
    <2>2. hindered' \subseteq Rules \X PeriodKeys
      BY <1>0, <1>3, <2>1 DEF NextDay
    <2>3. today' \in 1..Len(Calendar)
      BY <1>0, <1>3, DigestAssumption DEF NextDay
    <2>4. checks' \in BOOLEAN
      BY <1>3 DEF NextDay
    <2>5. faults' \in 0..MaxFaults
      BY <1>0, <1>3, DigestAssumption DEF NextDay
    <2> QED
      BY <1>0, <1>3, <2>2, <2>3, <2>4, <2>5, OutsideType DEF NextDay, config, outcomes
  <1>4. ASSUME Change PROVE changes' \in 0..MaxChanges
    BY <1>0, <1>4, DigestAssumption DEF Change
  <1>5. ASSUME NEW r \in Rules, OpenOrShut(r) PROVE TypeOK'
    <2>1. shut' \subseteq Rules
      BY <1>0, <1>5 DEF OpenOrShut
    <2> QED
      BY <1>0, <1>4, <1>5, <2>1, OutsideType DEF OpenOrShut, calendar, outcomes
  <1>6. ASSUME NEW r \in Rules PROVE PeriodsWaiting(r) \subseteq Rules \X PeriodKeys
    BY <1>6 DEF PeriodsWaiting, QueueRow
  <1>7. ASSUME NEW r \in Rules, ToggleRule(r) PROVE TypeOK'
    <2>1. enabled' \subseteq Rules
      BY <1>0, <1>7 DEF ToggleRule
    <2>2. hindered' \subseteq Rules \X PeriodKeys
      BY <1>0, <1>6, <1>7, PeriodsType DEF ToggleRule
    <2> QED
      BY <1>0, <1>4, <1>7, <2>1, <2>2, OutsideType DEF ToggleRule, calendar, outcomes
  <1>8. ASSUME NEW r \in Rules, NEW s \in Schedules, ChangeSchedule(r, s) PROVE TypeOK'
    <2>1. PeriodKey(s.mode, Date) \in PeriodKeys
      BY <1>0 DEF PeriodKeys, Date
    <2>2. hindered' \subseteq Rules \X PeriodKeys
      BY <1>0, <1>6, <1>8, <2>1 DEF ChangeSchedule
    <2>3. schedule' \in [Rules -> Schedules]
      BY <1>0, <1>8 DEF ChangeSchedule
    <2> QED
      BY <1>0, <1>4, <1>8, <2>2, <2>3, OutsideType DEF ChangeSchedule, calendar, outcomes
  <1>9. ASSUME NEW c \in Channels, ToggleChannel(c) PROVE TypeOK'
    <2>1. on' \subseteq Channels
      BY <1>0, <1>9 DEF ToggleChannel
    <2> QED
      BY <1>0, <1>4, <1>9, <2>1, OutsideType DEF ToggleChannel, calendar, outcomes
  <1>10. CASE ToggleMaintenance
    BY <1>0, <1>4, <1>10, OutsideType DEF ToggleMaintenance, calendar, outcomes
  <1>11. ASSUME NEW e \in Events, Enqueue(e) PROVE TypeOK'
    <2>1. status' \in [Packages -> {"none", "active", "retired"}] /\ faults' \in 0..MaxFaults
      BY <1>0, <1>11 DEF Enqueue, TypeOK, history
    <2> QED
      BY <1>11, <2>1, EnqueueType DEF Enqueue, history
  <1>12. ASSUME NEW e \in Events, EnqueueAgain(e) PROVE TypeOK'
    <2>1. status' \in [Packages -> {"none", "active", "retired"}] /\ faults' \in 0..MaxFaults
      BY <1>0, <1>12, DigestAssumption DEF EnqueueAgain, TypeOK
    <2> QED
      BY <1>12, <2>1, EnqueueType DEF EnqueueAgain
  <1>13. ASSUME NEW p \in Packages, Retire(p) PROVE TypeOK'
    BY <1>13, SameRows DEF Retire, TypeOK, config, calendar, outcomes, history
  <1>14. CASE UNCHANGED vars
    BY <1>14, SameRows DEF vars, TypeOK, config, calendar, outcomes, history
  <1> QED
    BY <1>1, <1>2, <1>3, <1>5, <1>7, <1>8, <1>9, <1>10, <1>11, <1>12, <1>13, <1>14
       DEF Next, Collection, Administrator

Rest == HandsArePending /\ TellsAreCovered /\ DigestToldOnce

\* The check and its history stand still, and rows are only added.
LEMMA StandsStill ==
  ASSUME TypeOK, Rest, UNCHANGED <<job, told>>, again \subseteq again',
         RowIds \subseteq RowIds', \A i \in RowIds : queue'[i] = queue[i]
  PROVE  Rest'
  <1>1. HandsArePending'
    <2>1. \A r, p : Pending(r, p) \subseteq Pending(r, p)'
      BY DEF Pending
    <2> QED
      BY <2>1 DEF Rest, HandsArePending, At
  <1>2. TellsAreCovered'
    BY DEF Rest, TellsAreCovered, Telling
  <1>3. DigestToldOnce'
    BY DEF Rest, DigestToldOnce
  <1> QED
    BY <1>1, <1>2, <1>3 DEF Rest

\* No row is in the hands of the check, before or after; rows only leave the pending state.
LEMMA EmptyHands ==
  ASSUME TypeOK, Rest, job.phase \in {"idle", "rules"}, job'.phase \in {"idle", "rules"},
         UNCHANGED told, again \subseteq again', RowIds' = RowIds,
         \A i \in RowIds : queue'[i].state = "pending" => queue[i].state = "pending"
  PROVE  Rest'
  <1>1. TellsAreCovered'
    BY DEF Rest, TellsAreCovered, Telling
  <1> QED
    BY <1>1 DEF Rest, HandsArePending, DigestToldOnce, At

\* The batch that is read consists of pending rows.
LEMMA ReadRest ==
  ASSUME TypeOK, Rest, NEW r \in Rules, NEW p \in PeriodKeys, ReadBatch(r, p)
  PROVE  Rest'
  <1> DEFINE S == Pending(r, p)
  <1>1. S \subseteq RowIds /\ StillActive(S) \subseteq S
    BY DEF Pending, StillActive
  <1>2. /\ RowIds' = RowIds
        /\ \A i \in RowIds : /\ queue'[i].state = "pending" => queue[i].state = "pending"
                             /\ i \in StillActive(S) => queue'[i] = Read(i)
    <2>1. queue \in [RowIds -> QueueRow]
      BY QueueFacts
    <2>2. queue' \in [RowIds -> QueueRow]
      BY <2>1, ReadRowsType DEF ReadBatch
    <2>3. RowIds' = RowIds
      BY <2>2, Rewritten
    <2>4. queue' = [i \in RowIds |-> IF i \notin S THEN queue[i]
                                     ELSE IF i \in StillActive(S) THEN Read(i)
                                     ELSE [queue[i] EXCEPT !.state = "cancelled"]]
      BY DEF ReadBatch, ReadRows
    <2>5. \A i \in RowIds : Read(i).state = queue[i].state
      BY <2>1 DEF Read, QueueRow
    <2>6. \A i \in RowIds : [queue[i] EXCEPT !.state = "cancelled"].state = "cancelled"
      BY <2>1 DEF QueueRow
    <2>7. \A i \in RowIds : queue'[i].state = "pending" => queue[i].state = "pending"
      BY <2>4, <2>5, <2>6
    <2>8. \A i \in StillActive(S) : queue'[i] = Read(i)
      BY <1>1, <2>4
    <2> QED
      BY <2>3, <2>7, <2>8
  <1>3. job.phase = "rules" /\ job \in Job
    BY DEF ReadBatch, At, TypeOK
  <1>4. CASE job'.phase = "rules"
    BY <1>2, <1>3, <1>4, EmptyHands DEF ReadBatch, outcomes
  <1>5. CASE job'.phase # "rules"
    <2>1. /\ job'.phase \in {"post", "close"} /\ job'.rule = r /\ job'.period = p
          /\ job'.keep \subseteq StillActive(S)
      BY <1>3, <1>5 DEF ReadBatch, Handles, SkipsRule, Job
    <2>2. \A i \in StillActive(S) : i \in Pending(r, p)'
      <3>1. \A i \in StillActive(S) : /\ queue'[i].state = "pending"
                                      /\ queue'[i].event = queue[i].event
                                      /\ queue'[i].period = queue[i].period
        <4>1. \A i \in RowIds : /\ Read(i).state = queue[i].state
                                /\ Read(i).event = queue[i].event /\ Read(i).period = queue[i].period
          BY QueueFacts DEF Read, QueueRow
        <4>2. \A i \in S : queue[i].state = "pending"
          BY DEF Pending
        <4> QED
          BY <1>1, <1>2, <4>1, <4>2
      <3>2. \A i \in S : queue[i].event.rule = r /\ queue[i].period = p
        BY DEF Pending
      <3>3. \A i \in StillActive(S) : i \in RowIds'
        BY <1>1, <1>2
      <3> QED
        BY <1>1, <3>1, <3>2, <3>3 DEF Pending
    <2>3. HandsArePending'
      BY <2>1, <2>2 DEF HandsArePending, At
    <2>4. TellsAreCovered'
      BY <1>2, <1>3 DEF Rest, TellsAreCovered, Telling, ReadBatch, outcomes
    <2>5. DigestToldOnce'
      BY DEF Rest, DigestToldOnce, ReadBatch, outcomes
    <2> QED
      BY <2>3, <2>4, <2>5 DEF Rest
  <1> QED
    BY <1>4, <1>5

\* Where queue and log stay, hands and rows agree as before.
LEMMA SameQueue ==
  ASSUME TypeOK, Rest, UNCHANGED <<queue, told>>, again \subseteq again',
         job'.phase \in {"post", "log", "close"} => job'.rule \in Rules,
         job'.phase \in {"post", "log"} => job'.keep \subseteq Pending(job'.rule, job'.period),
         job'.phase = "log" => job'.at \in Channels,
         \A i \in RowIds, c \in Channels :
             queue[i].state = "pending" /\ Telling(i, c) => i \in again' \/ Telling(i, c)'
  PROVE  Rest'
  <1>1. RowIds' = RowIds /\ \A r, p : Pending(r, p)' = Pending(r, p)
    BY SameRows DEF Pending
  <1>2. HandsArePending'
    BY <1>1 DEF HandsArePending, At
  <1>3. TellsAreCovered'
    BY <1>1 DEF Rest, TellsAreCovered
  <1>4. DigestToldOnce'
    BY DEF Rest, DigestToldOnce
  <1> QED
    BY <1>2, <1>3, <1>4 DEF Rest

\* A post tells what is pending and had not been told to this channel.
LEMMA PostRest ==
  ASSUME TypeOK, Rest, NEW c \in Channels, NEW ok \in BOOLEAN, Post(c, ok)
  PROVE  Rest'
  <1>1. /\ job \in Job /\ job.phase = "post" /\ c \in job.to
        /\ job'.phase = "log" /\ job'.at = c /\ job'.to = job.to \ {c}
        /\ job'.keep = job.keep /\ job'.rule = job.rule /\ job'.period = job.period
    BY DEF Post, Serves, At, TypeOK, Job
  <1>2. job.keep \subseteq Pending(job.rule, job.period) /\ job.rule \in Rules
    BY <1>1 DEF Rest, HandsArePending
  <1>3. RowIds' = RowIds /\ queue' = queue /\ again' = again /\ \A r, p : Pending(r, p)' = Pending(r, p)
    BY SameRows DEF Post, history, Pending
  <1>4. HandsArePending'
    BY <1>1, <1>2, <1>3 DEF HandsArePending, At
  <1>5. told \in [Cells -> 0..2]
    BY DEF TypeOK
  <1>6. ASSUME NEW i \in 1..MaxRows, NEW d \in Channels
        PROVE  /\ told'[<<i, d>>] # told[<<i, d>>] => i \in job.keep /\ d = c
               /\ told[<<i, d>>] = 0 => told'[<<i, d>>] <= 1
    <2>1. <<i, d>> \in Cells
      BY DEF Cells
    <2>2. told'[<<i, d>>] = IF ok /\ <<i, d>> \in job.keep \X {c} THEN More(told[<<i, d>>])
                            ELSE told[<<i, d>>]
      BY <1>5, <2>1 DEF Post
    <2> QED
      BY <1>5, <2>1, <2>2 DEF More
  <1>7. ASSUME NEW i \in job.keep
        PROVE  i \in RowIds /\ queue[i].state = "pending"
               /\ (i \notin again => told[<<i, c>>] = 0)
    <2>1. i \in RowIds /\ queue[i].state = "pending"
      BY <1>2 DEF Pending
    <2>2. i \in 1..MaxRows /\ <<i, c>> \in Cells
      BY <2>1, QueueFacts DEF Cells
    <2>3. told[<<i, c>>] > 0 => i \in again
      BY <1>1, <2>1, <2>2 DEF Rest, TellsAreCovered, Telling
    <2> QED
      BY <1>5, <2>1, <2>2, <2>3
  <1>8. ASSUME NEW i \in 1..MaxRows, NEW d \in Channels, told'[<<i, d>>] > 0
        PROVE  i \in RowIds /\ (queue[i].state = "pending" => i \in again \/ Telling(i, d)')
    <2>1. CASE told'[<<i, d>>] = told[<<i, d>>]
      <3>1. i \in RowIds /\ (queue[i].state = "pending" => i \in again \/ Telling(i, d))
        BY <1>8, <2>1 DEF Rest, TellsAreCovered
      <3>2. Telling(i, d) => Telling(i, d)'
        BY <1>1 DEF Telling
      <3> QED
        BY <3>1, <3>2
    <2>2. CASE told'[<<i, d>>] # told[<<i, d>>]
      BY <1>1, <1>6, <1>7, <2>2 DEF Telling
    <2> QED
      BY <2>1, <2>2
  <1>9. TellsAreCovered'
    BY <1>3, <1>8 DEF TellsAreCovered
  <1>10. DigestToldOnce'
    <2> SUFFICES ASSUME NEW i \in 1..MaxRows, NEW d \in Channels
                 PROVE  told'[<<i, d>>] <= 1 \/ i \in again
      <3>1. DOMAIN told' = Cells
        BY <1>5 DEF Post
      <3> QED
        BY <1>3, <3>1 DEF DigestToldOnce, Cells
    <2>1. told[<<i, d>>] <= 1 \/ i \in again
      <3>1. <<i, d>> \in DOMAIN told
        BY <1>5 DEF Cells
      <3> QED
        BY <3>1 DEF Rest, DigestToldOnce
    <2> QED
      BY <1>6, <1>7, <2>1
  <1> QED
    BY <1>4, <1>9, <1>10 DEF Rest

\* Rows that are marked are out of every hand.
LEMMA MarkRest ==
  ASSUME TypeOK, Rest, MarkRows
  PROVE  Rest'
  <1>1. job \in Job /\ job.phase = "post" /\ job'.phase = "close" /\ job'.rule = job.rule
    BY DEF MarkRows, At, TypeOK, Job
  <1>2. queue \in [RowIds -> QueueRow]
    BY QueueFacts
  <1>3. queue' = [i \in RowIds |-> IF i \in MarkedRows THEN [queue[i] EXCEPT !.state = "sent"] ELSE queue[i]]
    BY DEF MarkRows, SetState
  <1>4. queue' \in [RowIds -> QueueRow]
    BY <1>2, <1>3 DEF QueueRow
  <1>5. RowIds' = RowIds
    BY <1>4, Rewritten
  <1>6. \A i \in RowIds : queue'[i].state = "pending" => queue[i].state = "pending" /\ i \notin MarkedRows
    BY <1>2, <1>3 DEF QueueRow
  <1>7. HandsArePending'
    BY <1>1 DEF Rest, HandsArePending, At
  <1>8. \A i \in RowIds, c \in Channels : Telling(i, c) => i \in MarkedRows
    BY <1>1 DEF Rest, HandsArePending, Telling, MarkedRows
  <1>9. TellsAreCovered'
    BY <1>5, <1>6, <1>8 DEF Rest, TellsAreCovered, MarkRows, outcomes, history
  <1>10. DigestToldOnce'
    BY DEF Rest, DigestToldOnce, MarkRows, outcomes, history
  <1> QED
    BY <1>7, <1>9, <1>10 DEF Rest

\* Every step keeps what ties rows to hands.
LEMMA StepRest == TypeOK /\ Rest /\ [Next]_vars => Rest'
  <1> SUFFICES ASSUME TypeOK, Rest, [Next]_vars PROVE Rest'
    OBVIOUS
  <1> USE SameRows
  <1>0. job \in Job
    BY DEF TypeOK
  <1>1. CASE StartCheck
    <2>1. job.phase = "idle" /\ job'.phase \in {"idle", "rules"}
      BY <1>1 DEF StartCheck, At, Idle
    <2> QED
      BY <1>1, <2>1, EmptyHands DEF StartCheck, outcomes
  <1>2. ASSUME NEW r, NEW p, <<r, p>> \in job.rules, ReadBatch(r, p) PROVE Rest'
    <2>1. r \in Rules /\ p \in PeriodKeys
      BY <1>0, <1>2 DEF Job
    <2> QED
      BY <1>2, <2>1, ReadRest
  <1>3. ASSUME NEW c \in Channels, SkipChannel(c) PROVE Rest'
    <2>1. /\ job.phase = "post" /\ job'.phase = "post" /\ job'.to \subseteq job.to
          /\ job'.keep = job.keep /\ job'.rule = job.rule /\ job'.period = job.period
      BY <1>0, <1>3 DEF SkipChannel, Serves, At, Job
    <2> QED
      BY <1>3, <2>1, SameQueue DEF SkipChannel, history, Rest, HandsArePending, Telling
  <1>4. ASSUME NEW c \in Channels, NEW ok \in BOOLEAN, Post(c, ok) PROVE Rest'
    BY <1>4, PostRest
  <1>5. CASE LogRows
    <2>1. /\ job.phase = "log" /\ job'.phase = "post" /\ job'.to = job.to
          /\ job'.keep = job.keep /\ job'.rule = job.rule /\ job'.period = job.period
      BY <1>0, <1>5 DEF LogRows, At, Job
    <2> QED
      BY <1>5, <2>1, SameQueue DEF LogRows, history, Rest, HandsArePending, Telling
  <1>6. CASE MarkRows
    BY <1>6, MarkRest
  <1>7. CASE CloseRule
    <2>1. job.phase = "close" /\ job'.phase = "rules"
      BY <1>0, <1>7 DEF CloseRule, At, Idle
    <2> QED
      BY <1>7, <2>1, SameQueue DEF CloseRule, outcomes, history, Telling
  <1>8. CASE EndCheck
    <2>1. job.phase = "rules" /\ job'.phase = "idle"
      BY <1>0, <1>8 DEF EndCheck, At, Idle
    <2> QED
      BY <1>8, <2>1, SameQueue DEF EndCheck, outcomes, history, Telling
  <1>9. CASE BreakOff
    <2>1. job'.phase = "idle"
      BY <1>9 DEF BreakOff, Idle
    <2>2. \A i \in RowIds, c \in Channels : Telling(i, c) => i \in again'
      BY <1>9 DEF BreakOff, Telling, At
    <2>3. again \subseteq again'
      BY <1>9 DEF BreakOff
    <2> QED
      BY <1>9, <2>1, <2>2, <2>3, SameQueue DEF BreakOff, outcomes
  <1>10. ASSUME NEW e \in Events, queue' = Append(queue, Row(e)), UNCHANGED <<job, told, again>>
         PROVE  Rest'
    BY <1>10, Appended, RowType, StandsStill
  <1>11. ASSUME NEW e \in Events, Enqueue(e) \/ EnqueueAgain(e) PROVE Rest'
    BY <1>10, <1>11 DEF Enqueue, EnqueueAgain, outcomes, history
  <1>12. ASSUME UNCHANGED <<queue, job, told, again>> PROVE Rest'
    BY <1>12, StandsStill
  <1>13. ASSUME NEW p \in Packages, Retire(p) PROVE Rest'
    BY <1>12, <1>13 DEF Retire, outcomes, history
  <1>14. CASE NextDay
    BY <1>12, <1>14 DEF NextDay, outcomes
  <1>15. ASSUME NEW r \in Rules, OpenOrShut(r) PROVE Rest'
    BY <1>12, <1>15 DEF OpenOrShut, outcomes
  <1>16. CASE Administrator
    BY <1>12, <1>16 DEF Administrator, ToggleRule, ChangeSchedule, ToggleChannel, ToggleMaintenance, outcomes
  <1>17. CASE UNCHANGED vars
    BY <1>12, <1>17 DEF vars, outcomes, history
  <1>18. \A x \in job.rules : <<x[1], x[2]>> \in job.rules
    <2>1. \A x \in Rules \X PeriodKeys : x = <<x[1], x[2]>>
      OBVIOUS
    <2>2. job.rules \subseteq Rules \X PeriodKeys
      BY <1>0 DEF Job
    <2> QED
      BY <2>1, <2>2
  <1> QED
    BY <1>1, <1>2, <1>3, <1>4, <1>5, <1>6, <1>7, <1>8, <1>9, <1>11, <1>13, <1>14, <1>15, <1>16,
       <1>17, <1>18 DEF Next, Step, Collection

\* The inductive invariant: what is told is still pending in the hands of the
\* check, unless it was marked or a check broke off.
THEOREM Invariance == Spec => []DInv
  <1>1. DInv /\ [Next]_vars => DInv'
    <2> SUFFICES ASSUME DInv, [Next]_vars PROVE DInv'
      OBVIOUS
    <2>1. TypeOK'
      BY StepType DEF DInv
    <2>2. Rest'
      BY StepRest DEF DInv, Rest
    <2> QED
      BY <2>1, <2>2 DEF DInv, Rest
  <1> QED
    BY InitInv, <1>1, PTL DEF Spec

\* The tables of the digests and the state of process_digests keep their types.
THEOREM Typing == Spec => []TypeOK
  <1>1. DInv => TypeOK
    BY DEF DInv
  <1> QED
    BY Invariance, <1>1, PTL

\* No robot gets a row of digest_queue twice, unless process_digests broke off
\* between posting the row and marking it.
THEOREM ToldOnce == Spec => []DigestToldOnce
  <1>1. DInv => DigestToldOnce
    BY DEF DInv
  <1> QED
    BY Invariance, <1>1, PTL

------------------------------------------------------------------------------
(***************************************************************************)
(* The refinement.                                                         *)
(***************************************************************************)
Stages == [i \in 1..MaxRows |-> Stage(i)]
Heard == {x \in DOMAIN told : told[x] > 0}

\* The stage of a row is its state.
LEMMA StageFacts ==
  ASSUME TypeOK, NEW i \in RowIds
  PROVE  /\ Stage(i) = "held" <=> queue[i].state = "pending"
         /\ Stage(i) = "settled" <=> queue[i].state = "sent"
         /\ Stage(i) = "dropped" <=> queue[i].state = "cancelled"
         /\ Stage(i) # "absent"
  <1>1. queue[i].state \in {"pending", "sent", "cancelled"}
    BY QueueFacts DEF QueueRow
  <1> QED
    BY <1>1 DEF Stage

\* What changes neither queue nor told is a stutter.
LEMMA Stutter ==
  ASSUME UNCHANGED <<queue, told>>
  PROVE  UNCHANGED <<Stages, Heard>>
  BY DEF Stages, Heard, Stage, RowIds

\* A row whose state does not change stays where it is; so does an item without a row.
LEMMA SameStage ==
  ASSUME NEW i \in 1..MaxRows,
         \/ i \in RowIds /\ i \in RowIds' /\ queue'[i].state = queue[i].state
         \/ i \notin RowIds /\ i \notin RowIds'
  PROVE  Stage(i)' = Stages[i]
  <1>1. Stages[i] = Stage(i)
    BY DEF Stages
  <1>2. CASE i \in RowIds /\ i \in RowIds' /\ queue'[i].state = queue[i].state
    BY <1>1, <1>2 DEF Stage
  <1>3. CASE i \notin RowIds /\ i \notin RowIds'
    BY <1>1, <1>3 DEF Stage
  <1> QED
    BY <1>2, <1>3

\* The queue begins as the outbox does.
LEMMA BoxInit == Init => Box!Init
  <1> SUFFICES ASSUME Init PROVE Box!Init
    OBVIOUS
  <1>1. RowIds = {}
    BY EmptySeq DEF Init, RowIds
  <1>2. [i \in 1..MaxRows |-> Stage(i)] = [i \in 1..MaxRows |-> "absent"]
    BY <1>1 DEF Stage
  <1>3. {x \in DOMAIN told : told[x] > 0} = {}
    BY DEF Init
  <1> QED
    BY <1>2, <1>3 DEF Box!Init

\* An insertion accepts an item.
LEMMA Accepts ==
  ASSUME TypeOK, TypeOK', NEW e \in Events, queue' = Append(queue, Row(e)), UNCHANGED told
  PROVE  Box!Next
  <1> DEFINE n == Len(queue) + 1
  <1>1. /\ RowIds' = RowIds \cup {n} /\ n \notin RowIds
        /\ \A i \in RowIds : queue'[i] = queue[i]
        /\ queue'[n].state = "pending"
    BY RowType, Appended, QueueFacts DEF RowIds
  <1>2. n \in 1..MaxRows /\ Stages[n] = "absent"
    <2>1. n \in RowIds'
      BY <1>1
    <2>2. (RowIds \subseteq 1..MaxRows)'
      BY QueueFacts, PTL
    <2> QED
      BY <1>1, <2>1, <2>2 DEF Stages, Stage
  <1>3. \A i \in 1..MaxRows : Stage(i)' = IF i \in {n} THEN "held" ELSE Stages[i]
    <2>1. n \in RowIds' /\ queue'[n].state = "pending"
      BY <1>1
    <2> HIDE DEF n
    <2>2. \A i \in 1..MaxRows : i = n => Stage(i)' = "held"
      BY <2>1 DEF Stage
    <2>3. ASSUME NEW i \in 1..MaxRows, i # n PROVE Stage(i)' = Stages[i]
      <3>1. CASE i \in RowIds
        BY <1>1, <3>1, SameStage
      <3>2. CASE i \notin RowIds
        BY <1>1, <2>3, <3>2, SameStage
      <3> QED
        BY <3>1, <3>2
    <2> QED
      BY <2>2, <2>3
  <1>4. Stages' = [i \in 1..MaxRows |-> IF i \in {n} THEN "held" ELSE Stages[i]]
    BY <1>3 DEF Stages
  <1>5. Box!Accept(n)
    BY <1>2, <1>4 DEF Box!Accept, Box!Becomes, Stages, Heard
  <1> QED
    BY <1>2, <1>5 DEF Box!Next

\* The rows S leave the pending state together.
LEMMA Leave ==
  ASSUME TypeOK, TypeOK', UNCHANGED told, RowIds' = RowIds,
         NEW S \in SUBSET RowIds, \A i \in S : queue[i].state = "pending",
         NEW stage \in {"settled", "dropped"}, \A i \in S : Stage(i)' = stage,
         \A i \in RowIds \ S : queue'[i].state = queue[i].state
  PROVE  Box!Next
  <1>1. S \subseteq 1..MaxRows
    BY QueueFacts
  <1>2. \A i \in S : Stages[i] = "held"
    BY <1>1, StageFacts DEF Stages
  <1>3. \A i \in 1..MaxRows : Stage(i)' = IF i \in S THEN stage ELSE Stages[i]
    <2>1. \A i \in (1..MaxRows) \ S : Stage(i)' = Stages[i]
      BY SameStage
    <2> QED
      BY <2>1
  <1>4. Stages' = [i \in 1..MaxRows |-> IF i \in S THEN stage ELSE Stages[i]]
    BY <1>3 DEF Stages
  <1>5. S \subseteq Box!Held
    BY <1>1, <1>2 DEF Box!Held, Stages
  <1>6. CASE stage = "settled"
    <2>1. Box!Settle(S)
      BY <1>4, <1>5, <1>6 DEF Box!Settle, Box!Becomes, Stages
    <2> QED
      BY <1>1, <2>1 DEF Box!Next
  <1>7. CASE stage = "dropped"
    <2>1. Box!Drop(S)
      BY <1>4, <1>5, <1>7 DEF Box!Drop, Box!Becomes, Stages
    <2> QED
      BY <1>1, <2>1 DEF Box!Next
  <1> QED
    BY <1>6, <1>7

\* Every step of the detailed queue is a step of the outbox or a stutter.
LEMMA BoxStep ==
  ASSUME DInv, TypeOK', Next
  PROVE  Box!Next \/ UNCHANGED <<Stages, Heard>>
  <1> USE DEF DInv
  <1>1. ASSUME UNCHANGED <<queue, told>> PROVE UNCHANGED <<Stages, Heard>>
    BY <1>1, Stutter
  <1>2. ASSUME NEW e \in Events, Enqueue(e) \/ EnqueueAgain(e) PROVE Box!Next
    BY <1>2, Accepts DEF Enqueue, EnqueueAgain, outcomes
  <1>3. ASSUME NEW r, NEW p, ReadBatch(r, p) PROVE Box!Next
    <2> DEFINE S == Pending(r, p) \ StillActive(Pending(r, p))
    <2>1. queue \in [RowIds -> QueueRow] /\ S \subseteq RowIds /\ \A i \in S : queue[i].state = "pending"
      BY QueueFacts DEF Pending
    <2>2. queue' = [i \in RowIds |-> IF i \notin Pending(r, p) THEN queue[i]
                                     ELSE IF i \in StillActive(Pending(r, p)) THEN Read(i)
                                     ELSE [queue[i] EXCEPT !.state = "cancelled"]]
      BY <1>3 DEF ReadBatch, ReadRows
    <2>3. \A i \in RowIds : Read(i) \in QueueRow /\ Read(i).state = queue[i].state
      BY <2>1 DEF Read, QueueRow
    <2>4. \A i \in RowIds : [queue[i] EXCEPT !.state = "cancelled"] \in QueueRow
                            /\ [queue[i] EXCEPT !.state = "cancelled"].state = "cancelled"
      BY <2>1 DEF QueueRow
    <2>5. queue' \in [RowIds -> QueueRow]
      BY <2>1, <2>2, <2>3, <2>4
    <2>6. RowIds' = RowIds
      BY <2>5, Rewritten
    <2>7. \A i \in S : Stage(i)' = "dropped"
      BY <2>1, <2>2, <2>4, <2>6 DEF Stage
    <2>8. \A i \in RowIds \ S : queue'[i].state = queue[i].state
      BY <2>2, <2>3
    <2>9. UNCHANGED told
      BY <1>3 DEF ReadBatch, outcomes
    <2> HIDE DEF S
    <2> QED
      BY <2>1, <2>6, <2>7, <2>8, <2>9, Leave
  <1>4. CASE MarkRows
    <2>1. queue \in [RowIds -> QueueRow] /\ MarkedRows \subseteq RowIds
          /\ \A i \in MarkedRows : queue[i].state = "pending"
      BY QueueFacts DEF MarkedRows, Pending
    <2>2. queue' = [i \in RowIds |-> IF i \in MarkedRows THEN [queue[i] EXCEPT !.state = "sent"] ELSE queue[i]]
      BY <1>4 DEF MarkRows, SetState
    <2>3. \A i \in RowIds : [queue[i] EXCEPT !.state = "sent"] \in QueueRow
                            /\ [queue[i] EXCEPT !.state = "sent"].state = "sent"
      BY <2>1 DEF QueueRow
    <2>4. queue' \in [RowIds -> QueueRow]
      BY <2>1, <2>2, <2>3
    <2>5. RowIds' = RowIds
      BY <2>4, Rewritten
    <2>6. \A i \in MarkedRows : Stage(i)' = "settled"
      BY <2>1, <2>2, <2>3, <2>5 DEF Stage
    <2>7. \A i \in RowIds \ MarkedRows : queue'[i].state = queue[i].state
      BY <2>2
    <2>8. UNCHANGED told
      BY <1>4 DEF MarkRows, outcomes
    <2> QED
      BY <2>1, <2>5, <2>6, <2>7, <2>8, Leave
  <1>5. ASSUME NEW c \in Channels, Post(c, TRUE) PROVE Box!Next
    <2>1. job.keep \subseteq 1..MaxRows /\ \A i \in job.keep : i \in RowIds /\ queue[i].state = "pending"
      BY <1>5, QueueFacts DEF HandsArePending, Post, At, Pending
    <2>2. told \in [Cells -> 0..2] /\ job.keep \X {c} \subseteq Cells
      BY <2>1 DEF TypeOK, Cells
    <2>3. told' = [x \in Cells |-> IF x \in job.keep \X {c} THEN More(told[x]) ELSE told[x]]
      BY <1>5, <2>2 DEF Post
    <2>4. \A x \in Cells : told'[x] > 0 <=> told[x] > 0 \/ x \in job.keep \X {c}
      BY <2>2, <2>3 DEF More
    <2>5. Heard' = Heard \cup (job.keep \X {c})
      BY <2>2, <2>3, <2>4 DEF Heard
    <2>6. Stages' = Stages
      BY <1>5 DEF Post, Stages, Stage, RowIds
    <2>7. job.keep \subseteq Box!Held
      BY <2>1, StageFacts DEF Box!Held
    <2>8. Box!Tell(job.keep, c)
      BY <2>5, <2>6, <2>7 DEF Box!Tell, Stages, Heard
    <2> QED
      BY <2>1, <2>8 DEF Box!Next
  <1>6. ASSUME NEW c \in Channels, Post(c, FALSE) PROVE UNCHANGED <<Stages, Heard>>
    <2>1. told' = told
      BY <1>6 DEF Post, TypeOK
    <2> QED
      BY <1>1, <1>6, <2>1 DEF Post
  <1>7. CASE StartCheck \/ LogRows \/ CloseRule \/ EndCheck \/ BreakOff \/ NextDay
    BY <1>1, <1>7 DEF StartCheck, LogRows, CloseRule, EndCheck, BreakOff, NextDay, outcomes
  <1>8. ASSUME NEW c \in Channels, SkipChannel(c) PROVE UNCHANGED <<Stages, Heard>>
    BY <1>1, <1>8 DEF SkipChannel
  <1>9. ASSUME NEW p \in Packages, Retire(p) PROVE UNCHANGED <<Stages, Heard>>
    BY <1>1, <1>9 DEF Retire, outcomes
  <1>10. ASSUME NEW r \in Rules, OpenOrShut(r) PROVE UNCHANGED <<Stages, Heard>>
    BY <1>1, <1>10 DEF OpenOrShut, outcomes
  <1>11. CASE Administrator
    BY <1>1, <1>11 DEF Administrator, ToggleRule, ChangeSchedule, ToggleChannel, ToggleMaintenance, outcomes
  <1>12. CASE Step
    <2>1. ASSUME NEW c \in Channels, NEW ok \in BOOLEAN, Post(c, ok)
          PROVE  Box!Next \/ UNCHANGED <<Stages, Heard>>
      BY <1>5, <1>6, <2>1
    <2> QED
      BY <1>3, <1>4, <1>7, <1>8, <1>12, <2>1 DEF Step
  <1> QED
    BY <1>2, <1>7, <1>9, <1>10, <1>11, <1>12 DEF Next, Collection

\* digest_queue implements the outbox: nothing is told before it is accepted or
\* after it was settled or dropped, and these are final.
THEOREM Implementation == Spec => IsOutbox
  <1>1. DInv /\ DInv' /\ [Next]_vars
            => [Box!Next]_<<[i \in 1..MaxRows |-> Stage(i)], {x \in DOMAIN told : told[x] > 0}>>
    <2> SUFFICES ASSUME DInv, DInv', [Next]_vars
                 PROVE  [Box!Next]_<<[i \in 1..MaxRows |-> Stage(i)], {x \in DOMAIN told : told[x] > 0}>>
      OBVIOUS
    <2>1. CASE Next
      <3>1. Box!Next \/ UNCHANGED <<Stages, Heard>>
        BY <2>1, BoxStep DEF DInv
      <3> QED
        BY <3>1 DEF Stages, Heard
    <2>2. CASE UNCHANGED vars
      <3>1. UNCHANGED <<Stages, Heard>>
        BY <2>2, Stutter DEF vars, outcomes
      <3> QED
        BY <3>1 DEF Stages, Heard
    <2> QED
      BY <2>1, <2>2
  <1> QED
    BY Invariance, BoxInit, <1>1, PTL DEF Spec, IsOutbox, Box!Spec

------------------------------------------------------------------------------
(***************************************************************************)
(* What becomes of the rows.                                               *)
(***************************************************************************)
\* A row keeps what was written when it was inserted, and no state is left but "pending".
SameRow(i) ==
  /\ queue'[i].event = queue[i].event /\ queue'[i].period = queue[i].period
  /\ queue'[i].day = queue[i].day
  /\ queue'[i].late <=> queue[i].late
  /\ queue'[i].state = "pending" => queue[i].state = "pending"
  /\ queue[i].state # "pending" => queue'[i] = queue[i]

\* What a record of the queue is after a column is set.
LEMMA RowUpdates ==
  ASSUME NEW x \in QueueRow
  PROVE  /\ \A s \in {"pending", "sent", "cancelled"} :
              /\ [x EXCEPT !.state = s].state = s
              /\ [x EXCEPT !.state = s].event = x.event
              /\ [x EXCEPT !.state = s].period = x.period
              /\ [x EXCEPT !.state = s].day = x.day
              /\ [x EXCEPT !.state = s].late <=> x.late
              /\ [x EXCEPT !.state = s].seen <=> x.seen
         /\ \A b \in BOOLEAN :
              /\ [x EXCEPT !.seen = b].state = x.state
              /\ [x EXCEPT !.seen = b].event = x.event
              /\ [x EXCEPT !.seen = b].period = x.period
              /\ [x EXCEPT !.seen = b].day = x.day
              /\ [x EXCEPT !.seen = b].late <=> x.late
              /\ [x EXCEPT !.seen = b].seen <=> b
  <1>1. ASSUME NEW s \in {"pending", "sent", "cancelled"}
        PROVE  /\ [x EXCEPT !.state = s].state = s
               /\ [x EXCEPT !.state = s].event = x.event
               /\ [x EXCEPT !.state = s].period = x.period
               /\ [x EXCEPT !.state = s].day = x.day
    BY DEF QueueRow
  <1>2. ASSUME NEW s \in {"pending", "sent", "cancelled"}
        PROVE  /\ [x EXCEPT !.state = s].late <=> x.late
               /\ [x EXCEPT !.state = s].seen <=> x.seen
    BY DEF QueueRow
  <1>3. ASSUME NEW b \in BOOLEAN
        PROVE  /\ [x EXCEPT !.seen = b].state = x.state
               /\ [x EXCEPT !.seen = b].event = x.event
               /\ [x EXCEPT !.seen = b].period = x.period
               /\ [x EXCEPT !.seen = b].day = x.day
    BY DEF QueueRow
  <1>4. ASSUME NEW b \in BOOLEAN
        PROVE  /\ [x EXCEPT !.seen = b].late <=> x.late
               /\ [x EXCEPT !.seen = b].seen <=> b
    BY DEF QueueRow
  <1> QED
    BY <1>1, <1>2, <1>3, <1>4

\* Reading a batch: rows of retired packages are cancelled, the others are seen.
LEMMA ReadFacts ==
  ASSUME TypeOK, NEW r, NEW p, ReadBatch(r, p)
  PROVE  /\ RowIds' = RowIds
         /\ \A i \in RowIds : SameRow(i)
         /\ \A i \in RowIds : queue'[i].state = queue[i].state \/ queue'[i].state = "cancelled"
         /\ \A i \in StillActive(Pending(r, p)) : queue'[i].seen
         /\ Pending(r, p)' = StillActive(Pending(r, p))
  <1> DEFINE S == Pending(r, p)
             T == StillActive(S)
  <1>1. T \subseteq S /\ S \subseteq RowIds /\ \A i \in S : queue[i].state = "pending"
    BY DEF Pending, StillActive
  <1>2. queue \in [RowIds -> QueueRow]
    BY QueueFacts
  <1>3. queue' = [i \in RowIds |-> IF i \notin S THEN queue[i]
                                   ELSE IF i \in T THEN Read(i)
                                   ELSE [queue[i] EXCEPT !.state = "cancelled"]]
    BY DEF ReadBatch, ReadRows
  <1>4. ASSUME NEW i \in RowIds
        PROVE  /\ Read(i) \in QueueRow /\ Read(i).state = queue[i].state
               /\ Read(i).event = queue[i].event /\ Read(i).period = queue[i].period
               /\ Read(i).day = queue[i].day
               /\ Read(i).late <=> queue[i].late
               /\ Read(i).seen <=> status[queue[i].event.pkg] = "active"
    <2>1. queue[i] \in QueueRow /\ (status[queue[i].event.pkg] = "active") \in BOOLEAN
      BY <1>2
    <2>2. Read(i) \in QueueRow
      BY <2>1 DEF Read, QueueRow
    <2>3. PICK b \in BOOLEAN : b = (status[queue[i].event.pkg] = "active")
      BY <2>1
    <2>4. Read(i) = [queue[i] EXCEPT !.seen = b]
      BY <2>3 DEF Read
    <2>5. /\ Read(i).state = queue[i].state
          /\ Read(i).event = queue[i].event /\ Read(i).period = queue[i].period
          /\ Read(i).day = queue[i].day
      BY <2>1, <2>4, RowUpdates
    <2>6. (Read(i).late <=> queue[i].late) /\ (Read(i).seen <=> b)
      BY <2>1, <2>4, RowUpdates
    <2> QED
      BY <2>2, <2>3, <2>5, <2>6
  <1>5. ASSUME NEW i \in RowIds
        PROVE  /\ [queue[i] EXCEPT !.state = "cancelled"] \in QueueRow
               /\ [queue[i] EXCEPT !.state = "cancelled"].state = "cancelled"
               /\ [queue[i] EXCEPT !.state = "cancelled"].event = queue[i].event
               /\ [queue[i] EXCEPT !.state = "cancelled"].period = queue[i].period
               /\ [queue[i] EXCEPT !.state = "cancelled"].day = queue[i].day
               /\ [queue[i] EXCEPT !.state = "cancelled"].late <=> queue[i].late
    <2>1. queue[i] \in QueueRow
      BY <1>2
    <2>2. [queue[i] EXCEPT !.state = "cancelled"] \in QueueRow
      BY <2>1 DEF QueueRow
    <2> QED
      BY <2>1, <2>2, RowUpdates
  <1>6. queue' \in [RowIds -> QueueRow]
    BY <1>2, <1>3, <1>4, <1>5
  <1>7. RowIds' = RowIds
    BY <1>6, Rewritten
  <1> HIDE DEF S, T
  <1>8. ASSUME NEW i \in RowIds
        PROVE  SameRow(i) /\ (queue'[i].state = queue[i].state \/ queue'[i].state = "cancelled")
    <2>1. CASE i \notin S
      BY <1>3, <2>1 DEF SameRow
    <2>2. CASE i \in T
      <3>1. queue'[i] = Read(i)
        BY <1>1, <1>3, <2>2
      <3> QED
        BY <1>1, <1>4, <2>2, <3>1 DEF SameRow
    <2>3. CASE i \in S /\ i \notin T
      <3>1. queue'[i] = [queue[i] EXCEPT !.state = "cancelled"]
        BY <1>3, <2>3
      <3> QED
        BY <1>1, <1>5, <2>3, <3>1 DEF SameRow
    <2> QED
      BY <2>1, <2>2, <2>3
  <1>9. ASSUME NEW i \in T PROVE queue'[i].seen
    <2>1. queue'[i] = Read(i) /\ i \in RowIds
      BY <1>1, <1>3
    <2>2. status[queue[i].event.pkg] = "active"
      BY DEF T, StillActive
    <2> QED
      BY <1>4, <2>1, <2>2
  <1>10. Pending(r, p)' = T
    <2>1. ASSUME NEW i \in T PROVE i \in Pending(r, p)'
      <3>1. queue'[i] = Read(i) /\ i \in RowIds /\ i \in S
        BY <1>1, <1>3
      <3> QED
        BY <1>1, <1>4, <1>7, <3>1 DEF S, Pending
    <2>2. ASSUME NEW i \in Pending(r, p)' PROVE i \in T
      <3>1. i \in RowIds /\ queue'[i].state = "pending" /\ queue'[i].event.rule = r /\ queue'[i].period = p
        BY <1>7 DEF Pending
      <3>2. i \in S
        BY <1>8, <3>1 DEF SameRow, S, Pending
      <3>3. i \notin T => queue'[i] = [queue[i] EXCEPT !.state = "cancelled"]
        BY <1>3, <3>1, <3>2
      <3> QED
        BY <1>5, <3>1, <3>3
    <2> QED
      BY <2>1, <2>2
  <1> QED
    BY <1>7, <1>8, <1>9, <1>10 DEF S, T

\* Marking: the pending rows of the rule and the period become "sent".
LEMMA MarkFacts ==
  ASSUME TypeOK, MarkRows
  PROVE  /\ RowIds' = RowIds
         /\ \A i \in RowIds : SameRow(i) /\ (queue'[i].seen <=> queue[i].seen)
         /\ \A i \in RowIds : i \in MarkedRows <=> queue'[i].state # queue[i].state
         /\ \A i \in RowIds : i \in MarkedRows <=> queue'[i] # queue[i]
         /\ Pending(job.rule, job.period)' = {}
  <1>1. MarkedRows \subseteq RowIds /\ \A i \in MarkedRows : queue[i].state = "pending"
    BY DEF MarkedRows, Pending
  <1>2. queue \in [RowIds -> QueueRow]
    BY QueueFacts
  <1>3. queue' = [i \in RowIds |-> IF i \in MarkedRows THEN [queue[i] EXCEPT !.state = "sent"] ELSE queue[i]]
    BY DEF MarkRows, SetState
  <1>4. ASSUME NEW i \in RowIds
        PROVE  /\ [queue[i] EXCEPT !.state = "sent"] \in QueueRow
               /\ [queue[i] EXCEPT !.state = "sent"].state = "sent"
               /\ [queue[i] EXCEPT !.state = "sent"].event = queue[i].event
               /\ [queue[i] EXCEPT !.state = "sent"].period = queue[i].period
               /\ [queue[i] EXCEPT !.state = "sent"].day = queue[i].day
               /\ [queue[i] EXCEPT !.state = "sent"].late <=> queue[i].late
               /\ [queue[i] EXCEPT !.state = "sent"].seen <=> queue[i].seen
    <2>1. queue[i] \in QueueRow
      BY <1>2
    <2>2. [queue[i] EXCEPT !.state = "sent"] \in QueueRow
      BY <2>1 DEF QueueRow
    <2> QED
      BY <2>1, <2>2, RowUpdates
  <1>5. queue' \in [RowIds -> QueueRow]
    BY <1>2, <1>3, <1>4
  <1>6. RowIds' = RowIds
    BY <1>5, Rewritten
  <1>7. ASSUME NEW i \in RowIds
        PROVE  /\ SameRow(i) /\ (queue'[i].seen <=> queue[i].seen)
               /\ i \in MarkedRows <=> queue'[i].state # queue[i].state
               /\ i \in MarkedRows <=> queue'[i] # queue[i]
    <2>1. CASE i \notin MarkedRows
      BY <1>3, <2>1 DEF SameRow
    <2>2. CASE i \in MarkedRows
      <3>1. queue'[i] = [queue[i] EXCEPT !.state = "sent"]
        BY <1>3, <2>2
      <3>2. /\ queue'[i].state = "sent" /\ queue'[i].event = queue[i].event
            /\ queue'[i].period = queue[i].period /\ queue'[i].day = queue[i].day
            /\ queue'[i].late <=> queue[i].late
            /\ queue'[i].seen <=> queue[i].seen
        BY <1>4, <3>1
      <3>3. /\ queue[i].state = "pending"
            /\ queue'[i].state # queue[i].state /\ queue'[i] # queue[i]
        BY <1>1, <2>2, <3>2
      <3> QED
        BY <2>2, <3>2, <3>3 DEF SameRow
    <2> QED
      BY <2>1, <2>2
  <1>8. Pending(job.rule, job.period)' = {}
    <2> SUFFICES ASSUME NEW i \in RowIds, queue'[i].state = "pending", queue'[i].event.rule = job'.rule,
                        queue'[i].period = job'.period
                 PROVE  FALSE
      BY <1>6 DEF Pending
    <2>1. job'.rule = job.rule /\ job'.period = job.period
      BY DEF MarkRows, TypeOK, Job
    <2>2. i \in MarkedRows
      BY <1>7, <2>1 DEF MarkedRows, Pending, SameRow
    <2> QED
      BY <1>3, <1>4, <2>2
  <1> QED
    BY <1>6, <1>7, <1>8

NewRow(i) == \E e \in Events : (Enqueue(e) \/ EnqueueAgain(e)) /\ queue'[i] = Row(e)
Grows == log \subseteq log' /\ skipped \subseteq skipped' /\ hindered \subseteq hindered'
RowsGrow ==
  /\ RowIds \subseteq RowIds' /\ \A i \in RowIds : SameRow(i)
  /\ \A i \in RowIds : queue'[i].state = "sent" /\ queue[i].state # "sent"
                          => MarkRows /\ i \in MarkedRows
  /\ \A i \in RowIds' : i \in RowIds \/ NewRow(i)

\* A step leaves the rows alone, inserts one, or is a reading or a marking.
LEMMA Kinds ==
  ASSUME TypeOK, [Next]_vars
  PROVE  /\ Grows
         /\ \/ UNCHANGED queue
            \/ \E e \in Events : Enqueue(e) \/ EnqueueAgain(e)
            \/ \E r \in Rules, p \in PeriodKeys : <<r, p>> \in job.rules /\ ReadBatch(r, p)
            \/ MarkRows
  <1>1. ASSUME NEW x \in job.rules
        PROVE  x[1] \in Rules /\ x[2] \in PeriodKeys /\ <<x[1], x[2]>> \in job.rules
    <2>1. x \in Rules \X PeriodKeys
      BY DEF TypeOK, Job
    <2>2. x = <<x[1], x[2]>>
      BY <2>1
    <2> QED
      BY <2>1, <2>2
  <1>2. CASE StartCheck \/ BreakOff \/ NextDay
    BY <1>2 DEF StartCheck, BreakOff, NextDay, outcomes, history, Grows
  <1>3. CASE \E r \in Rules : OpenOrShut(r)
    BY <1>3 DEF OpenOrShut, outcomes, Grows
  <1>4. CASE Administrator
    BY <1>4 DEF Administrator, ToggleRule, ChangeSchedule, ToggleChannel, ToggleMaintenance, outcomes, Grows
  <1>5. CASE Collection
    BY <1>5 DEF Collection, Enqueue, EnqueueAgain, Retire, outcomes, history, Grows
  <1>6. CASE UNCHANGED vars
    BY <1>6 DEF vars, outcomes, history, Grows
  <1>7. ASSUME NEW x \in job.rules, ReadBatch(x[1], x[2])
        PROVE  Grows /\ \E r \in Rules, p \in PeriodKeys : <<r, p>> \in job.rules /\ ReadBatch(r, p)
    <2>1. Grows
      BY <1>7 DEF ReadBatch, outcomes, Grows
    <2> QED
      BY <1>1, <1>7, <2>1
  <1>8. CASE \E c \in Channels : SkipChannel(c) \/ \E ok \in BOOLEAN : Post(c, ok)
    BY <1>8 DEF SkipChannel, Post, history, Grows
  <1>9. CASE LogRows \/ MarkRows \/ CloseRule \/ EndCheck
    BY <1>9 DEF LogRows, MarkRows, CloseRule, EndCheck, outcomes, history, Grows
  <1> QED
    BY <1>2, <1>3, <1>4, <1>5, <1>6, <1>7, <1>8, <1>9 DEF Next, Step

\* Any step: rows stay, only mark_digest_sent makes a row "sent", an insertion adds a
\* row; the history only grows.
LEMMA RowsStep ==
  ASSUME TypeOK, [Next]_vars
  PROVE  RowsGrow /\ Grows
  <1>1. CASE UNCHANGED queue
    BY <1>1, Kinds, SameRows DEF SameRow, RowsGrow
  <1>2. ASSUME NEW e \in Events, Enqueue(e) \/ EnqueueAgain(e) PROVE RowsGrow
    <2>1. /\ \A i \in RowIds : queue'[i] = queue[i]
          /\ queue'[Len(queue) + 1] = Row(e) /\ RowIds' = RowIds \cup {Len(queue) + 1}
      BY <1>2, Appended, RowType DEF Enqueue, EnqueueAgain
    <2>2. \A i \in RowIds' : i \in RowIds \/ NewRow(i)
      BY <1>2, <2>1 DEF NewRow
    <2> QED
      BY <2>1, <2>2 DEF SameRow, RowsGrow
  <1>3. ASSUME NEW r \in Rules, NEW p \in PeriodKeys, ReadBatch(r, p) PROVE RowsGrow
    BY <1>3, ReadFacts DEF RowsGrow
  <1>4. ASSUME MarkRows PROVE RowsGrow
    BY <1>4, MarkFacts DEF RowsGrow
  <1>5. Grows /\ \/ UNCHANGED queue
                 \/ \E e \in Events : Enqueue(e) \/ EnqueueAgain(e)
                 \/ \E r \in Rules, p \in PeriodKeys : <<r, p>> \in job.rules /\ ReadBatch(r, p)
                 \/ MarkRows
    BY Kinds
  <1>6. RowsGrow
    BY <1>1, <1>2, <1>3, <1>4, <1>5
  <1> QED
    BY <1>5, <1>6

------------------------------------------------------------------------------
(***************************************************************************)
(* What is sent is accounted for.                                          *)
(***************************************************************************)
\* Being told to a channel, or having a newer row that was, is for good.
LEMMA ServedForGood ==
  ASSUME RowsGrow, Grows, NEW i \in RowIds, NEW c
  PROVE  /\ Served(i, c) => Served(i, c)'
         /\ NewerListed(i, c) => NewerListed(i, c)'
         /\ \A j \in RowIds : Newer(j, i) => Newer(j, i)'
  <1>1. \A j \in RowIds : j \in RowIds' /\ queue'[j].event = queue[j].event
    BY DEF RowsGrow, SameRow
  <1>2. \A j \in RowIds : Served(j, c) => Served(j, c)'
    BY <1>1 DEF Served, Grows
  <1>3. \A j \in RowIds : Newer(j, i) => Newer(j, i)'
    BY <1>1 DEF Newer
  <1> QED
    BY <1>1, <1>2, <1>3 DEF NewerListed

\* A row of the rule and the period in work that is inserted now is late.
LEMMA NewRowIsLate ==
  ASSUME TypeOK, NEW i, NewRow(i), queue'[i].event.rule = job.rule, queue'[i].period = job.period
  PROVE  queue'[i].late
  <1>1. PICK e \in Events : queue'[i] = Row(e)
    BY DEF NewRow
  <1>2. Row(e).event = e /\ Row(e).period = KeyToday(e.rule)
    BY DEF Row
  <1>3. Row(e).late <=> \/ lastSent[e.rule] = KeyToday(e.rule)
                        \/ (job.rule = e.rule /\ job.period = KeyToday(e.rule))
    BY DEF Row
  <1> QED
    BY <1>1, <1>2, <1>3

\* A step in which the check stands still keeps its account.
LEMMA BatchStands ==
  ASSUME TypeOK, HandsArePending, BatchIsRead, RowsGrow, Grows, UNCHANGED job,
         \A i \in RowIds : queue'[i] = queue[i]
  PROVE  BatchIsRead'
  <1> SUFFICES ASSUME job.phase \in {"post", "log"}
               PROVE  /\ \A i \in Pending(job.rule, job.period)' : queue'[i].late \/ i \in job.batch
                      /\ \A i \in job.batch : /\ queue'[i].seen /\ queue'[i].event.rule = job.rule
                                              /\ i \in job.keep \/ \E j \in job.keep : Newer(j, i)'
                      /\ \A i \in job.keep, c \in Bound[job.rule] \cap Robots :
                            c \in job.to \/ Served(i, c)' \/ (At("log") /\ c = job.at)
    BY DEF BatchIsRead, At
  <1>1. job.batch \subseteq RowIds /\ job.keep \subseteq RowIds
    BY DEF TypeOK, Job
  <1>2. ASSUME NEW i \in Pending(job.rule, job.period)' PROVE queue'[i].late \/ i \in job.batch
    <2>1. i \in RowIds' /\ queue'[i].state = "pending" /\ queue'[i].event.rule = job.rule
          /\ queue'[i].period = job.period
      BY DEF Pending
    <2>2. CASE i \in RowIds
      <3>1. i \in Pending(job.rule, job.period)
        BY <2>1, <2>2 DEF Pending
      <3> QED
        BY <2>2, <3>1 DEF BatchIsRead
    <2>3. CASE i \notin RowIds
      BY <2>1, <2>3, NewRowIsLate DEF RowsGrow
    <2> QED
      BY <2>2, <2>3
  <1>3. ASSUME NEW i \in job.batch
        PROVE  /\ queue'[i].seen /\ queue'[i].event.rule = job.rule
               /\ i \in job.keep \/ \E j \in job.keep : Newer(j, i)'
    BY <1>1, ServedForGood DEF BatchIsRead
  <1>4. ASSUME NEW i \in job.keep, NEW c \in Bound[job.rule] \cap Robots
        PROVE  c \in job.to \/ Served(i, c)' \/ (At("log") /\ c = job.at)
    BY <1>1, ServedForGood DEF BatchIsRead
  <1> QED
    BY <1>2, <1>3, <1>4

\* The batch that is read is all that is pending, and what the filter leaves out has a
\* newer row that is kept.
LEMMA BatchRead ==
  ASSUME TypeOK, RowsGrow, Grows, NEW r \in Rules, NEW p \in PeriodKeys, ReadBatch(r, p)
  PROVE  BatchIsRead'
  <1> DEFINE T == StillActive(Pending(r, p))
  <1>1. /\ Pending(r, p)' = T /\ \A i \in RowIds : SameRow(i)
        /\ \A i \in T : queue'[i].seen
    BY ReadFacts
  <1>2. T \subseteq RowIds /\ \A i \in T : queue[i].event.rule = r
    BY DEF StillActive, Pending
  <1>3. \A i \in RowIds : queue'[i].event = queue[i].event
    BY <1>1 DEF SameRow
  <1>4. job \in Job
    BY DEF TypeOK
  <1> HIDE DEF T
  <1>5. ASSUME job'.phase \in {"post", "log"}
        PROVE  /\ job'.rule = r /\ job'.period = p /\ job'.batch = T /\ job'.to = Bound[r]
               /\ IsFiltered(job'.keep, T)
    <2>1. job.phase = "rules"
      BY DEF ReadBatch, At
    <2>2. job' # Handles(r, p, "close", {}, {}) /\ job' # SkipsRule(r, p)
      BY <1>4, <1>5, <2>1 DEF Handles, SkipsRule, Job
    <2>3. PICK keep \in SUBSET T : IsFiltered(keep, T) /\ job' = Handles(r, p, "post", T, keep)
      BY <2>2 DEF ReadBatch, T
    <2> QED
      BY <1>4, <2>3 DEF Handles, Job
  <1> SUFFICES ASSUME job'.phase \in {"post", "log"}
               PROVE  /\ \A i \in Pending(r, p)' : i \in T
                      /\ \A i \in T : /\ queue'[i].seen /\ queue'[i].event.rule = r
                                      /\ i \in job'.keep \/ \E j \in job'.keep : Newer(j, i)'
    BY <1>5 DEF BatchIsRead
  <1>6. ASSUME NEW i \in T, i \notin job'.keep PROVE \E j \in job'.keep : Newer(j, i)'
    <2>1. IsFiltered(job'.keep, T)
      BY <1>5
    <2>2. i \in FullOf(T)
      BY <1>6, <2>1 DEF IsFiltered
    <2>3. PICK j \in SameGroup(i, FullOf(T)) :
               /\ SameGroup(i, FullOf(T)) \cap job'.keep = {j}
               /\ IsLatest(j, SameGroup(i, FullOf(T)))
      BY <2>1, <2>2 DEF IsFiltered
    <2>4. j \in job'.keep /\ j \in FullOf(T) /\ Group[queue[j].event.pkg] = Group[queue[i].event.pkg]
      BY <2>3 DEF SameGroup
    <2>5. queue[j].event.pkg >= queue[i].event.pkg
      BY <2>2, <2>3 DEF IsLatest, SameGroup
    <2>6. j \in RowIds /\ i \in RowIds
      BY <1>2, <2>4 DEF FullOf
    <2>7. {queue[i].event.pkg, queue[j].event.pkg} \subseteq Full
      BY <2>2, <2>4 DEF FullOf
    <2>8. Newer(j, i)
      BY <2>4, <2>5, <2>7 DEF Newer
    <2> QED
      BY <2>4, <2>6, <2>8, ServedForGood
  <1> QED
    BY <1>1, <1>2, <1>3, <1>6

\* A step of the posting: the rows stand still, and what is served is remembered.
LEMMA BatchServes ==
  ASSUME TypeOK, BatchIsRead, UNCHANGED queue, Grows,
         job.phase \in {"post", "log"}, job'.rule = job.rule, job'.period = job.period,
         job'.batch = job.batch, job'.keep = job.keep,
         \A i \in job.keep, c \in Bound[job.rule] \cap Robots :
            c \in job'.to \/ Served(i, c)' \/ (At("log")' /\ c = job'.at)
  PROVE  BatchIsRead'
  <1>1. RowIds' = RowIds /\ \A r, p : Pending(r, p)' = Pending(r, p)
    BY SameRows DEF Pending
  <1>2. \A i, j : Newer(j, i)' <=> Newer(j, i)
    BY DEF Newer
  <1> QED
    BY <1>1, <1>2 DEF BatchIsRead

\* What a digest has read, kept and sent stays accounted for.
LEMMA BatchStep ==
  ASSUME TypeOK, HandsArePending, BatchIsRead, [Next]_vars
  PROVE  BatchIsRead'
  <1>0. job \in Job /\ RowsGrow /\ Grows
    BY RowsStep DEF TypeOK
  <1>1. CASE UNCHANGED <<queue, job>>
    BY <1>0, <1>1, BatchStands
  <1>2. CASE StartCheck \/ CloseRule \/ EndCheck \/ BreakOff \/ MarkRows
    <2>1. ASSUME StartCheck PROVE job'.phase \in {"idle", "rules"}
      BY <2>1 DEF StartCheck, At, Idle
    <2>2. ASSUME CloseRule PROVE job'.phase = "rules"
      BY <2>2 DEF CloseRule, At, Idle
    <2>3. ASSUME MarkRows PROVE job'.phase = "close"
      BY <1>0, <2>3 DEF MarkRows, At, Job
    <2>4. ASSUME EndCheck \/ BreakOff PROVE job'.phase = "idle"
      <3>1. job' = Idle
        BY <2>4 DEF EndCheck, BreakOff
      <3>2. Idle.phase = "idle"
        BY DEF Idle
      <3> QED
        BY <3>1, <3>2
    <2> QED
      BY <1>2, <2>1, <2>2, <2>3, <2>4 DEF BatchIsRead
  <1>3. ASSUME NEW e \in Events, Enqueue(e) \/ EnqueueAgain(e) PROVE BatchIsRead'
    <2>1. \A i \in RowIds : queue'[i] = queue[i]
      BY <1>3, Appended, RowType DEF Enqueue, EnqueueAgain
    <2>2. UNCHANGED job
      BY <1>3 DEF Enqueue, EnqueueAgain
    <2> QED
      BY <1>0, <2>1, <2>2, BatchStands
  <1>4. ASSUME NEW x \in job.rules, ReadBatch(x[1], x[2]) PROVE BatchIsRead'
    <2>1. x \in Rules \X PeriodKeys
      BY <1>0 DEF Job
    <2>2. x[1] \in Rules /\ x[2] \in PeriodKeys
      BY <2>1
    <2> QED
      BY <1>0, <1>4, <2>2, BatchRead
  <1>5. ASSUME NEW c \in Channels, SkipChannel(c) PROVE BatchIsRead'
    <2>1. /\ job.phase = "post" /\ job'.to = job.to \ {c} /\ job'.rule = job.rule
          /\ job'.period = job.period /\ job'.batch = job.batch /\ job'.keep = job.keep
      BY <1>0, <1>5 DEF SkipChannel, Serves, At, Job
    <2>2. c \in Robots => job.keep \X {c} \subseteq skipped'
      BY <1>5 DEF SkipChannel
    <2>3. UNCHANGED queue
      BY <1>5 DEF SkipChannel
    <2>4. ASSUME NEW i \in job.keep, NEW d \in Bound[job.rule] \cap Robots
          PROVE  d \in job'.to \/ Served(i, d)'
      <3>1. CASE d = c
        BY <2>2, <3>1 DEF Served
      <3>2. CASE d # c
        <4>1. d \in job.to \/ Served(i, d)
          BY <2>1 DEF BatchIsRead, At
        <4> QED
          BY <2>1, <2>3, <3>2, <4>1, <1>0 DEF Served, Grows
      <3> QED
        BY <3>1, <3>2
    <2> QED
      BY <2>1, <2>3, <2>4, <1>0, BatchServes
  <1>6. ASSUME NEW c \in Channels, NEW ok \in BOOLEAN, Post(c, ok) PROVE BatchIsRead'
    <2>1. /\ job.phase = "post" /\ job'.to = job.to \ {c} /\ job'.rule = job.rule
          /\ job'.period = job.period /\ job'.batch = job.batch /\ job'.keep = job.keep
          /\ job'.phase = "log" /\ job'.at = c
      BY <1>0, <1>6 DEF Post, Serves, At, Job
    <2>2. UNCHANGED queue
      BY <1>6 DEF Post
    <2>3. ASSUME NEW i \in job.keep, NEW d \in Bound[job.rule] \cap Robots, d # c
          PROVE  d \in job'.to \/ Served(i, d)'
      <3>1. d \in job.to \/ Served(i, d)
        BY <2>1 DEF BatchIsRead, At
      <3> QED
        BY <2>1, <2>2, <2>3, <3>1, <1>0 DEF Served, Grows
    <2>4. At("log")'
      BY <2>1 DEF At
    <2> QED
      BY <2>1, <2>2, <2>3, <2>4, <1>0, BatchServes
  <1>7. CASE LogRows
    <2>1. /\ job.phase = "log" /\ job'.to = job.to /\ job'.rule = job.rule
          /\ job'.period = job.period /\ job'.batch = job.batch /\ job'.keep = job.keep
      BY <1>0, <1>7 DEF LogRows, At, Job
    <2>2. UNCHANGED queue /\ \A i \in job.keep : <<queue[i].event, job.at>> \in log'
      BY <1>7 DEF LogRows
    <2>3. ASSUME NEW i \in job.keep, NEW d \in Bound[job.rule] \cap Robots
          PROVE  d \in job'.to \/ Served(i, d)'
      <3>1. d \in job.to \/ Served(i, d) \/ d = job.at
        BY <2>1 DEF BatchIsRead, At
      <3> QED
        BY <2>1, <2>2, <3>1, <1>0 DEF Served, Grows
    <2> QED
      BY <2>1, <2>2, <2>3, <1>0, BatchServes
  <1>8. CASE NextDay \/ \E r \in Rules : OpenOrShut(r)
    BY <1>1, <1>8 DEF NextDay, OpenOrShut
  <1>9. CASE Administrator
    BY <1>1, <1>9 DEF Administrator, ToggleRule, ChangeSchedule, ToggleChannel, ToggleMaintenance
  <1>10. ASSUME NEW p \in Packages, Retire(p) PROVE BatchIsRead'
    BY <1>1, <1>10 DEF Retire
  <1>11. CASE UNCHANGED vars
    BY <1>1, <1>11 DEF vars
  <1> QED
    BY <1>2, <1>3, <1>4, <1>5, <1>6, <1>7, <1>8, <1>9, <1>10, <1>11 DEF Next, Step, Collection

\* What is marked was accounted for by the check in whose hands it was.
LEMMA MarkedIsServed ==
  ASSUME TypeOK, HandsArePending, BatchIsRead, MarkRows, NEW i \in MarkedRows, ~ queue[i].late
  PROVE  /\ queue[i].seen
         /\ \A c \in Bound[queue[i].event.rule] \cap Robots : Served(i, c) \/ NewerListed(i, c)
  <1>1. job.phase = "post" /\ job.to = {} /\ i \in Pending(job.rule, job.period)
    BY DEF MarkRows, At, MarkedRows
  <1>2. i \in job.batch
    BY <1>1 DEF BatchIsRead
  <1>3. /\ queue[i].seen /\ queue[i].event.rule = job.rule
        /\ i \in job.keep \/ \E j \in job.keep : Newer(j, i)
    BY <1>1, <1>2 DEF BatchIsRead
  <1>4. \A j \in job.keep, c \in Bound[job.rule] \cap Robots : Served(j, c)
    BY <1>1 DEF BatchIsRead, At
  <1>5. \A j \in job.keep : j \in RowIds /\ queue[j].event.rule = job.rule
    BY <1>1 DEF HandsArePending, Pending
  <1> QED
    BY <1>3, <1>4, <1>5 DEF NewerListed

\* Every step keeps the rows marked as sent accounted for.
LEMMA SentStep ==
  ASSUME SentInv, [Next]_vars
  PROVE  SentIsAccounted'
  <1> USE DEF SentInv, DInv
  <1>1. RowsGrow /\ Grows
    BY RowsStep
  <1> SUFFICES ASSUME NEW i \in RowIds', queue'[i].state = "sent", ~ queue'[i].late
               PROVE  /\ queue'[i].seen
                      /\ \A c \in Bound[queue'[i].event.rule] \cap Robots :
                            Served(i, c)' \/ NewerListed(i, c)'
    BY DEF SentIsAccounted
  <1>2. i \in RowIds
    <2>1. ~ NewRow(i)
      BY RowType DEF NewRow
    <2> QED
      BY <1>1, <2>1 DEF RowsGrow
  <1>3. SameRow(i)
    BY <1>1, <1>2 DEF RowsGrow
  <1>4. ~ queue[i].late
    BY <1>3 DEF SameRow
  <1>5. /\ queue[i].seen /\ queue'[i].seen
        /\ \A c \in Bound[queue[i].event.rule] \cap Robots : Served(i, c) \/ NewerListed(i, c)
    <2>1. CASE queue[i].state = "sent"
      <3>1. queue'[i] = queue[i]
        BY <1>3, <2>1 DEF SameRow
      <3> QED
        BY <1>2, <1>4, <2>1, <3>1 DEF SentIsAccounted
    <2>2. CASE queue[i].state # "sent"
      <3>1. MarkRows /\ i \in MarkedRows
        BY <1>1, <1>2, <2>2 DEF RowsGrow
      <3>2. queue[i].seen /\ \A c \in Bound[queue[i].event.rule] \cap Robots :
                                Served(i, c) \/ NewerListed(i, c)
        BY <1>4, <3>1, MarkedIsServed
      <3>3. queue'[i].seen <=> queue[i].seen
        BY <1>2, <3>1, MarkFacts
      <3> QED
        BY <3>2, <3>3
    <2> QED
      BY <2>1, <2>2
  <1>6. queue'[i].event = queue[i].event
    BY <1>3 DEF SameRow
  <1>7. \A c : /\ Served(i, c) => Served(i, c)'
               /\ NewerListed(i, c) => NewerListed(i, c)'
    BY <1>1, <1>2, ServedForGood
  <1> QED
    BY <1>5, <1>6, <1>7

\* A row that is marked as sent was read while its package was active and is in the
\* delivery log of every active robot of its rule, itself or by a newer full package
\* of its group, unless it came between the reading and the marking.
THEOREM SentAccounted == Spec => []SentIsAccounted
  <1>1. Init => SentInv
    <2> SUFFICES ASSUME Init PROVE SentInv
      OBVIOUS
    <2>1. RowIds = {}
      BY EmptySeq DEF Init, RowIds
    <2>2. BatchIsRead
      BY DEF Init, Idle, BatchIsRead
    <2> QED
      BY <2>1, <2>2, InitInv DEF SentInv, SentIsAccounted
  <1>2. SentInv /\ [Next]_vars => SentInv'
    <2> SUFFICES ASSUME SentInv, [Next]_vars PROVE SentInv'
      OBVIOUS
    <2>1. DInv'
      BY StepType, StepRest DEF SentInv, DInv, Rest
    <2> QED
      BY <2>1, BatchStep, SentStep DEF SentInv, DInv
  <1>3. SentInv => SentIsAccounted
    BY DEF SentInv
  <1> QED
    BY <1>1, <1>2, <1>3, PTL DEF Spec

------------------------------------------------------------------------------
(***************************************************************************)
(* What stays behind has a cause.                                          *)
(***************************************************************************)
\* A step of the days, of a schedule, or neither; lastSent changes when a rule is closed.
LEMMA DayKinds ==
  ASSUME TypeOK, [Next]_vars
  PROVE  /\ \/ UNCHANGED <<schedule, today, checks>>
            \/ StartCheck
            \/ NextDay
            \/ \E r \in Rules, s \in Schedules : ChangeSchedule(r, s)
         /\ CloseRule \/ UNCHANGED lastSent
  <1>1. CASE StartCheck \/ NextDay
    BY <1>1 DEF StartCheck, NextDay
  <1>2. CASE Step \/ BreakOff
    BY <1>2 DEF Step, BreakOff, ReadBatch, SkipChannel, Post, LogRows, MarkRows, CloseRule, EndCheck,
                config, calendar
  <1>3. CASE \E r \in Rules : OpenOrShut(r)
    BY <1>3 DEF OpenOrShut, calendar
  <1>4. CASE Administrator
    BY <1>4 DEF Administrator, ToggleRule, ChangeSchedule, ToggleChannel, ToggleMaintenance, calendar
  <1>5. CASE Collection
    BY <1>5 DEF Collection, Enqueue, EnqueueAgain, Retire, config, calendar
  <1>6. CASE UNCHANGED vars
    BY <1>6 DEF vars, config, calendar
  <1> QED
    BY <1>1, <1>2, <1>3, <1>4, <1>5, <1>6 DEF Next

\* What becomes of the job in a step.
LEMMA JobKinds ==
  ASSUME TypeOK, [Next]_vars
  PROVE  \/ UNCHANGED job
         \/ StartCheck
         \/ \E r \in Rules, p \in PeriodKeys : <<r, p>> \in job.rules /\ ReadBatch(r, p)
         \/ /\ job.phase \in {"post", "log"} /\ job'.phase \in {"post", "log", "close"}
            /\ job'.rules = job.rules /\ job'.rule = job.rule /\ job'.period = job.period
            /\ job'.phase = "close" => MarkRows
         \/ CloseRule
         \/ EndCheck
         \/ BreakOff
  <1>0. job \in Job
    BY DEF TypeOK
  <1>1. ASSUME NEW x \in job.rules
        PROVE  x[1] \in Rules /\ x[2] \in PeriodKeys /\ <<x[1], x[2]>> \in job.rules
    <2>1. x \in Rules \X PeriodKeys
      BY <1>0 DEF Job
    <2>2. x = <<x[1], x[2]>>
      BY <2>1
    <2> QED
      BY <2>1, <2>2
  <1>2. CASE \E x \in job.rules : ReadBatch(x[1], x[2])
    BY <1>1, <1>2
  <1>3. CASE \E c \in Channels : SkipChannel(c) \/ \E ok \in BOOLEAN : Post(c, ok)
    <2>1. ASSUME NEW c \in Channels
          PROVE  /\ Serves(c).phase = job.phase /\ Serves(c).rules = job.rules
                 /\ Serves(c).rule = job.rule /\ Serves(c).period = job.period
                 /\ [Serves(c) EXCEPT !.phase = "log", !.at = c].phase = "log"
                 /\ [Serves(c) EXCEPT !.phase = "log", !.at = c].rules = job.rules
                 /\ [Serves(c) EXCEPT !.phase = "log", !.at = c].rule = job.rule
                 /\ [Serves(c) EXCEPT !.phase = "log", !.at = c].period = job.period
      BY <1>0 DEF Serves, Job
    <2>2. ASSUME NEW c \in Channels, SkipChannel(c)
          PROVE  /\ job.phase = "post" /\ job'.phase = "post" /\ job'.rules = job.rules
                 /\ job'.rule = job.rule /\ job'.period = job.period
      BY <2>1, <2>2 DEF SkipChannel, At
    <2>3. ASSUME NEW c \in Channels, NEW ok \in BOOLEAN, Post(c, ok)
          PROVE  /\ job.phase = "post" /\ job'.phase = "log" /\ job'.rules = job.rules
                 /\ job'.rule = job.rule /\ job'.period = job.period
      BY <2>1, <2>3 DEF Post, At
    <2> QED
      BY <1>3, <2>2, <2>3
  <1>4. CASE LogRows \/ MarkRows
    BY <1>0, <1>4 DEF LogRows, MarkRows, At, Job
  <1>5. CASE NextDay \/ \E r \in Rules : OpenOrShut(r)
    BY <1>5 DEF NextDay, OpenOrShut
  <1>6. CASE Administrator
    BY <1>6 DEF Administrator, ToggleRule, ChangeSchedule, ToggleChannel, ToggleMaintenance
  <1>7. CASE Collection
    BY <1>7 DEF Collection, Enqueue, EnqueueAgain, Retire
  <1>8. CASE UNCHANGED vars
    BY <1>8 DEF vars
  <1> QED
    BY <1>2, <1>3, <1>4, <1>5, <1>6, <1>7, <1>8 DEF Next, Step

\* The shapes of the job after the steps that replace it.
LEMMA JobShapes ==
  ASSUME job \in Job
  PROVE  /\ StartCheck => /\ job.phase = "idle" /\ job'.phase \in {"idle", "rules"}
                          /\ ~ maintenance => job'.rules = Periods(DueRules)
                          /\ maintenance => job'.rules = {} /\ job'.phase = "idle"
         /\ CloseRule => /\ job.phase = "close" /\ job'.phase = "rules" /\ job'.rules = job.rules
         /\ EndCheck => /\ job.phase = "rules" /\ job.rules = {}
                        /\ job'.phase = "idle" /\ job'.rules = {}
         /\ BreakOff => job'.phase = "idle" /\ job'.rules = {}
  <1>0. Idle.phase = "idle" /\ Idle.rules = {}
    BY DEF Idle
  <1>1. ASSUME NEW R
        PROVE  /\ [Idle EXCEPT !.phase = "rules", !.rules = R].phase = "rules"
               /\ [Idle EXCEPT !.phase = "rules", !.rules = R].rules = R
    BY DEF Idle
  <1>2. ASSUME StartCheck
        PROVE  /\ job.phase = "idle" /\ job'.phase \in {"idle", "rules"}
               /\ ~ maintenance => job'.rules = Periods(DueRules)
               /\ maintenance => job'.rules = {} /\ job'.phase = "idle"
    <2>1. job.phase = "idle"
      BY <1>2 DEF StartCheck, At
    <2>2. CASE maintenance
      BY <1>0, <1>2, <2>1, <2>2 DEF StartCheck
    <2>3. CASE ~ maintenance
      BY <1>1, <1>2, <2>1, <2>3 DEF StartCheck
    <2> QED
      BY <2>2, <2>3
  <1>3. ASSUME CloseRule
        PROVE  job.phase = "close" /\ job'.phase = "rules" /\ job'.rules = job.rules
    BY <1>1, <1>3 DEF CloseRule, At
  <1>4. ASSUME EndCheck
        PROVE  /\ job.phase = "rules" /\ job.rules = {}
               /\ job'.phase = "idle" /\ job'.rules = {}
    BY <1>0, <1>4 DEF EndCheck, At
  <1>5. ASSUME BreakOff PROVE job'.phase = "idle" /\ job'.rules = {}
    <2>1. job' = Idle
      BY <1>5 DEF BreakOff
    <2> QED
      BY <1>0, <2>1
  <1> QED
    BY <1>2, <1>3, <1>4, <1>5

\* The three outcomes of reading the batch of a rule.
LEMMA ReadShapes ==
  ASSUME job \in Job, NEW r \in Rules, NEW p \in PeriodKeys, ReadBatch(r, p)
  PROVE  /\ job.phase = "rules" /\ job'.rules = job.rules \ {<<r, p>>}
         /\ \/ job'.phase = "rules" /\ <<r, p>> \in hindered'
            \/ /\ job'.phase \in {"post", "close"} /\ job'.rule = r /\ job'.period = p
               /\ job'.phase = "close" => StillActive(Pending(r, p)) = {}
  <1>1. job.phase = "rules"
    BY DEF ReadBatch, At
  <1>2. ASSUME NEW phase, NEW S, NEW keep
        PROVE  /\ Handles(r, p, phase, S, keep).phase = phase
               /\ Handles(r, p, phase, S, keep).rules = job.rules \ {<<r, p>>}
               /\ Handles(r, p, phase, S, keep).rule = r /\ Handles(r, p, phase, S, keep).period = p
    BY DEF Handles, Job
  <1>3. SkipsRule(r, p).phase = "rules" /\ SkipsRule(r, p).rules = job.rules \ {<<r, p>>}
    BY <1>1 DEF SkipsRule, Job
  <1> QED
    BY <1>1, <1>2, <1>3 DEF ReadBatch

\* A rule in work stays in work until it is closed; what is broken off or left is hindered.
LEMMA WorkGoesOn ==
  ASSUME TypeOK, LateIsMarked, [Next]_vars, NEW r, NEW p, Working(r, p)
  PROVE  \/ Working(r, p)'
         \/ <<r, p>> \in hindered'
         \/ CloseRule /\ r = job.rule /\ p = job.period
  <1>0. job \in Job
    BY DEF TypeOK
  <1>1. CASE UNCHANGED job
    BY <1>1 DEF Working, At
  <1>2. CASE StartCheck
    <2>1. job.phase = "idle"
      BY <1>0, <1>2, JobShapes
    <2> QED
      BY <2>1 DEF LateIsMarked, Working, At
  <1>3. ASSUME NEW r0 \in Rules, NEW p0 \in PeriodKeys, ReadBatch(r0, p0)
        PROVE  Working(r, p)' \/ <<r, p>> \in hindered'
    <2>1. job.phase = "rules" /\ job'.rules = job.rules \ {<<r0, p0>>}
      BY <1>0, <1>3, ReadShapes
    <2>2. <<r, p>> \in job.rules
      BY <2>1 DEF Working, At
    <2>3. CASE <<r, p>> = <<r0, p0>>
      BY <1>0, <1>3, <2>3, ReadShapes DEF Working, At
    <2>4. CASE <<r, p>> # <<r0, p0>>
      BY <2>1, <2>2, <2>4 DEF Working
    <2> QED
      BY <2>3, <2>4
  <1>4. CASE /\ job.phase \in {"post", "log"} /\ job'.phase \in {"post", "log", "close"}
             /\ job'.rules = job.rules /\ job'.rule = job.rule /\ job'.period = job.period
    BY <1>4 DEF Working, At
  <1>5. CASE CloseRule \/ EndCheck
    BY <1>0, <1>5, JobShapes DEF Working, At
  <1>6. CASE BreakOff
    BY <1>6 DEF BreakOff, Working
  <1> QED
    BY <1>1, <1>2, <1>3, <1>4, <1>5, <1>6, JobKinds

\* Work begins with a check, on the key of its day.
LEMMA WorkBegins ==
  ASSUME TypeOK, [Next]_vars, NEW r, NEW p, Working(r, p)'
  PROVE  \/ Working(r, p)
         \/ StartCheck /\ ~ maintenance /\ <<r, p>> \in Periods(DueRules)
  <1>0. job \in Job
    BY DEF TypeOK
  <1>1. CASE UNCHANGED job
    BY <1>1 DEF Working, At
  <1>2. CASE StartCheck
    BY <1>0, <1>2, JobShapes DEF Working, At
  <1>3. ASSUME NEW r0 \in Rules, NEW p0 \in PeriodKeys, <<r0, p0>> \in job.rules, ReadBatch(r0, p0)
        PROVE  Working(r, p)
    BY <1>0, <1>3, ReadShapes DEF Working, At
  <1>4. CASE /\ job.phase \in {"post", "log"} /\ job'.phase \in {"post", "log", "close"}
             /\ job'.rules = job.rules /\ job'.rule = job.rule /\ job'.period = job.period
    BY <1>4 DEF Working, At
  <1>5. CASE CloseRule \/ EndCheck \/ BreakOff
    BY <1>0, <1>5, JobShapes DEF Working, At
  <1> QED
    BY <1>1, <1>2, <1>3, <1>4, <1>5, JobKinds

\* A new row is of today, and late if the digest of its period is out or in work.
LEMMA NewRowFacts ==
  ASSUME TypeOK, NEW i, NewRow(i)
  PROVE  \E e \in Events :
           /\ Enqueue(e) \/ EnqueueAgain(e)
           /\ queue'[i].event = e /\ queue'[i].period = KeyToday(e.rule)
           /\ queue'[i].day = today /\ queue'[i].state = "pending"
           /\ lastSent[e.rule] = KeyToday(e.rule) => queue'[i].late
  <1>1. PICK e \in Events : (Enqueue(e) \/ EnqueueAgain(e)) /\ queue'[i] = Row(e)
    BY DEF NewRow
  <1>2. Row(e).event = e /\ Row(e).period = KeyToday(e.rule) /\ Row(e).day = today
        /\ Row(e).state = "pending"
    BY DEF Row
  <1>3. lastSent[e.rule] = KeyToday(e.rule) => Row(e).late
    BY DEF Row
  <1> QED
    BY <1>1, <1>2, <1>3

\* A row for a digest that is out gets the mark of a late one.
LEMMA LateStep ==
  ASSUME TypeOK, HandsArePending, LateIsMarked, [Next]_vars
  PROVE  LateIsMarked'
  <1>0. job \in Job /\ lastSent \in [Rules -> PeriodKeys] /\ RowsGrow
    BY RowsStep DEF TypeOK
  <1>1. CloseRule \/ UNCHANGED lastSent
    BY DayKinds
  <1>2. ASSUME NEW i \in RowIds', queue'[i].state = "pending",
               queue'[i].period = lastSent'[queue'[i].event.rule]
        PROVE  queue'[i].late
    <2>1. CASE NewRow(i)
      <3>1. PICK e \in Events :
               /\ Enqueue(e) \/ EnqueueAgain(e)
               /\ queue'[i].event = e /\ queue'[i].period = KeyToday(e.rule)
               /\ lastSent[e.rule] = KeyToday(e.rule) => queue'[i].late
        BY <2>1, NewRowFacts
      <3>2. lastSent' = lastSent
        BY <3>1 DEF Enqueue, EnqueueAgain
      <3> QED
        BY <1>2, <3>1, <3>2
    <2>2. CASE i \in RowIds
      <3>1. SameRow(i)
        BY <1>0, <2>2 DEF RowsGrow
      <3>2. /\ queue[i].state = "pending" /\ queue'[i].event = queue[i].event
            /\ queue'[i].period = queue[i].period
        BY <1>2, <3>1 DEF SameRow
      <3>3. queue[i].late
        <4>1. CASE UNCHANGED lastSent
          BY <1>2, <2>2, <3>2, <4>1 DEF LateIsMarked
        <4>2. CASE CloseRule
          <5>1. job.phase = "close" /\ lastSent' = [lastSent EXCEPT ![job.rule] = job.period]
            BY <4>2 DEF CloseRule, At
          <5>2. job.rule \in Rules
            BY <5>1 DEF HandsArePending
          <5>3. CASE queue[i].event.rule = job.rule
            <6>1. lastSent'[job.rule] = job.period
              BY <1>0, <5>1, <5>2
            <6>2. i \in Pending(job.rule, job.period)
              BY <1>2, <2>2, <3>2, <5>3, <6>1 DEF Pending
            <6> QED
              BY <5>1, <6>2 DEF LateIsMarked, At
          <5>4. CASE queue[i].event.rule # job.rule
            <6>1. queue[i].event.rule \in Rules
              BY <2>2, QueueFacts, DigestAssumption DEF QueueRow
            <6>2. lastSent'[queue[i].event.rule] = lastSent[queue[i].event.rule]
              BY <1>0, <5>1, <5>4, <6>1
            <6> QED
              BY <1>2, <2>2, <3>2, <6>2 DEF LateIsMarked
          <5> QED
            BY <5>3, <5>4
        <4> QED
          BY <1>1, <4>1, <4>2
      <3> QED
        BY <3>1, <3>3 DEF SameRow
    <2> QED
      BY <1>0, <2>1, <2>2 DEF RowsGrow
  <1>3. ASSUME job'.phase = "close", NEW i \in RowIds', queue'[i].state = "pending",
               queue'[i].event.rule = job'.rule, queue'[i].period = job'.period
        PROVE  queue'[i].late
    <2>1. i \in RowIds' /\ queue'[i].state = "pending" /\ queue'[i].event.rule = job'.rule
          /\ queue'[i].period = job'.period
      BY <1>3
    <2>2. CASE UNCHANGED job
      <3>1. CASE NewRow(i)
        BY <2>1, <2>2, <3>1, NewRowIsLate
      <3>2. CASE i \in RowIds
        <4>1. SameRow(i)
          BY <1>0, <3>2 DEF RowsGrow
        <4>2. i \in Pending(job.rule, job.period)
          BY <2>1, <2>2, <3>2, <4>1 DEF Pending, SameRow
        <4>3. queue[i].late
          BY <1>3, <2>2, <4>2 DEF LateIsMarked, At
        <4> QED
          BY <4>1, <4>3 DEF SameRow
      <3> QED
        BY <1>0, <2>1, <3>1, <3>2 DEF RowsGrow
    <2>3. ASSUME MarkRows PROVE FALSE
      <3>1. job'.rule = job.rule /\ job'.period = job.period /\ Pending(job.rule, job.period)' = {}
        BY <1>0, <2>3, MarkFacts DEF MarkRows, Job
      <3>2. i \in Pending(job.rule, job.period)'
        BY <2>1, <2>3 DEF MarkRows, Pending
      <3> QED
        BY <3>1, <3>2
    <2>4. ASSUME NEW r \in Rules, NEW p \in PeriodKeys, ReadBatch(r, p) PROVE FALSE
      <3>1. job'.rule = r /\ job'.period = p /\ StillActive(Pending(r, p)) = {}
        BY <1>0, <1>3, <2>4, ReadShapes
      <3>2. Pending(r, p)' = {}
        BY <2>4, <3>1, ReadFacts
      <3>3. i \in Pending(r, p)'
        BY <2>1, <3>1 DEF Pending
      <3> QED
        BY <3>2, <3>3
    <2>5. ~ StartCheck /\ ~ CloseRule /\ ~ EndCheck /\ ~ BreakOff
      BY <1>0, <1>3, JobShapes
    <2> QED
      BY <1>3, <2>2, <2>3, <2>4, <2>5, JobKinds
  <1>4. ASSUME job'.phase = "idle" PROVE job'.rules = {}
    <2>1. CASE UNCHANGED job
      BY <1>4, <2>1 DEF LateIsMarked, At
    <2>2. ASSUME StartCheck PROVE job'.rules = {}
      <3>1. maintenance \/ job' = [Idle EXCEPT !.phase = "rules", !.rules = Periods(DueRules)]
        BY <2>2 DEF StartCheck
      <3>2. [Idle EXCEPT !.phase = "rules", !.rules = Periods(DueRules)].phase = "rules"
        BY DEF Idle
      <3> QED
        BY <1>0, <1>4, <2>2, <3>1, <3>2, JobShapes
    <2>3. ASSUME NEW r \in Rules, NEW p \in PeriodKeys, ReadBatch(r, p) PROVE FALSE
      BY <1>0, <1>4, <2>3, ReadShapes
    <2>4. CloseRule \/ EndCheck \/ BreakOff => job'.rules = {}
      BY <1>0, <1>4, JobShapes
    <2> QED
      BY <1>4, <2>1, <2>2, <2>3, <2>4, JobKinds
  <1>5. (At("close") => \A i \in Pending(job.rule, job.period) : queue[i].late)'
    BY <1>3 DEF Pending, At
  <1>6. (\A i \in RowIds : queue[i].state = "pending"
            /\ queue[i].period = lastSent[queue[i].event.rule] => queue[i].late)'
    BY <1>2
  <1> QED
    BY <1>4, <1>5, <1>6 DEF LateIsMarked, At

\* The rule of a row that waits is due on its day, or its digest is out.
LEMMA DueToday ==
  ASSUME TypeOK, LateIsMarked, NEW i \in RowIds, Waits(i), IsDayOf(i, today)
  PROVE  LET r == queue[i].event.rule IN
         queue[i].period = KeyToday(r) /\ r \in OnTheirDay
  <1> DEFINE r == queue[i].event.rule
  <1>1. r \in Rules
    BY QueueFacts, DigestAssumption DEF QueueRow
  <1>2. IsDay(schedule[r], Date) /\ queue[i].period = KeyToday(r)
    BY DEF IsDayOf, Date, KeyToday
  <1>3. lastSent[r] # queue[i].period
    BY DEF Waits, LateIsMarked
  <1> QED
    BY <1>1, <1>2, <1>3 DEF OnTheirDay

\* The key and the day of a rule change with the day or with its schedule only.
LEMMA SameSchedule ==
  ASSUME TypeOK, NEW r, schedule'[r] = schedule[r]
  PROVE  /\ today' = today => /\ KeyToday(r)' = KeyToday(r)
                              /\ IsDay(schedule[r], Date)' <=> IsDay(schedule[r], Date)
         /\ \A i, d : queue'[i].event.rule = r /\ queue[i].event.rule = r
                      /\ queue'[i].period = queue[i].period
                      => (IsDayOf(i, d)' <=> IsDayOf(i, d))
  <1>1. today' = today => KeyToday(r)' = KeyToday(r)
    BY DEF KeyToday, Date
  <1>2. ASSUME today' = today PROVE IsDay(schedule[r], Date)' <=> IsDay(schedule[r], Date)
    BY <1>2 DEF IsDay, Date, MonthOfQuarter, Clipped
  <1>3. ASSUME NEW i, NEW d, queue'[i].event.rule = r, queue[i].event.rule = r,
               queue'[i].period = queue[i].period
        PROVE  IsDayOf(i, d)' <=> IsDayOf(i, d)
    BY <1>3 DEF IsDayOf, IsDay, MonthOfQuarter, Clipped
  <1> QED
    BY <1>1, <1>2, <1>3

\* A change of the schedule hinders the rows of the rule and the key of today.
LEMMA Rescheduled ==
  ASSUME TypeOK, NEW r0 \in Rules, NEW s \in Schedules, ChangeSchedule(r0, s)
  PROVE  /\ \A r \in Rules \ {r0} : schedule'[r] = schedule[r]
         /\ \A i \in RowIds : queue[i].event.rule = r0 => <<r0, queue[i].period>> \in hindered'
         /\ <<r0, KeyToday(r0)'>> \in hindered'
         /\ UNCHANGED <<today, checks, job, queue, lastSent>>
  <1>1. schedule \in [Rules -> Schedules]
    BY DEF TypeOK
  <1>2. schedule' = [schedule EXCEPT ![r0] = s] /\ UNCHANGED <<today, checks, job, queue, lastSent>>
    BY DEF ChangeSchedule, calendar
  <1>3. KeyToday(r0)' = PeriodKey(s.mode, Date)
    BY <1>1, <1>2 DEF KeyToday, Date
  <1> QED
    BY <1>1, <1>2, <1>3 DEF ChangeSchedule, PeriodsWaiting

\* A row that waits has none of its days behind it, unless its digest is in work.
LEMMA DayStep ==
  ASSUME DayInv, [Next]_vars, LateIsMarked'
  PROVE  DayIsTaken'
  <1> USE DEF DayInv
  <1>0. job \in Job /\ RowsGrow /\ Grows /\ today \in 1..Len(Calendar) /\ checks \in BOOLEAN
    BY RowsStep DEF TypeOK
  <1> SUFFICES ASSUME NEW i \in RowIds', Waits(i)', NEW d \in queue'[i].day..today', IsDayOf(i, d)',
                      ~ (d = today' /\ ~ checks')
               PROVE  InWork(i)'
    BY DEF DayIsTaken
  <1>1. CASE NewRow(i)
    <2>1. PICK e \in Events :
             /\ Enqueue(e) \/ EnqueueAgain(e)
             /\ queue'[i].event = e /\ queue'[i].period = KeyToday(e.rule)
             /\ queue'[i].day = today
             /\ lastSent[e.rule] = KeyToday(e.rule) => queue'[i].late
      BY <1>1, NewRowFacts
    <2>2. UNCHANGED <<schedule, today, checks, job>>
      BY <2>1 DEF Enqueue, EnqueueAgain, config, calendar
    <2>3. d = today
      BY <1>0, <2>1, <2>2
    <2>4. checks /\ e.rule \in Rules
      BY <2>2, <2>3, DigestAssumption
    <2>5. IsDay(schedule[e.rule], Date)
      BY <2>1, <2>2, <2>3 DEF IsDayOf, IsDay, Date, MonthOfQuarter, Clipped
    <2>6. /\ lastSent[e.rule] # KeyToday(e.rule)
          /\ <<e.rule, KeyToday(e.rule)>> \notin hindered
      BY <1>0, <2>1 DEF Waits, Grows
    <2>7. Working(e.rule, KeyToday(e.rule))
      BY <2>4, <2>5, <2>6 DEF CheckedToday
    <2> QED
      BY <2>1, <2>2, <2>7 DEF InWork, Working, At
  <1>2. CASE i \in RowIds
    <2>5. queue[i].event.rule \in Rules /\ queue[i].period \in PeriodKeys
          /\ queue[i].day \in 1..Len(Calendar)
      BY <1>2, QueueFacts, DigestAssumption DEF QueueRow
    <2>0. PICK r \in Rules, p \in PeriodKeys : r = queue[i].event.rule /\ p = queue[i].period
      BY <2>5
    <2>1. SameRow(i)
      BY <1>0, <1>2 DEF RowsGrow
    <2>2. /\ queue'[i].event.rule = r /\ queue'[i].period = p /\ queue'[i].day = queue[i].day
          /\ queue[i].state = "pending" /\ (queue'[i].late <=> queue[i].late)
      BY <2>1, <2>0 DEF SameRow, Waits
    <2>3. <<r, p>> \notin hindered'
      BY <2>2 DEF Waits
    <2>4. Waits(i)
      BY <1>0, <2>2, <2>3, <2>0 DEF Waits, Grows
    <2>6. d \in queue[i].day..today'
      BY <2>2
    <2>7. ASSUME InWork(i) PROVE InWork(i)'
      <3>1. \/ Working(r, p)'
            \/ <<r, p>> \in hindered'
            \/ CloseRule /\ r = job.rule /\ p = job.period
        BY <2>7, <2>0, WorkGoesOn DEF InWork
      <3>2. ~ (CloseRule /\ r = job.rule /\ p = job.period)
        <4> SUFFICES ASSUME CloseRule, r = job.rule, p = job.period PROVE FALSE
          OBVIOUS
        <4>1. i \in Pending(job.rule, job.period)
          BY <1>2, <2>2, <2>0 DEF Pending
        <4>2. queue[i].late
          BY <4>1 DEF CloseRule, LateIsMarked
        <4> QED
          BY <2>4, <4>2 DEF Waits
      <3> QED
        BY <2>2, <2>3, <3>1, <3>2 DEF InWork, Working, At
    <2>8. ASSUME schedule'[r] = schedule[r], d \in queue[i].day..today
          PROVE  InWork(i) \/ (d = today /\ ~ checks)
      <3>1. IsDayOf(i, d)
        BY <2>2, <2>8, <2>0, SameSchedule
      <3> QED
        BY <1>2, <2>4, <2>8, <3>1 DEF DayIsTaken
    <2>9. ASSUME schedule'[r] = schedule[r], d = today
          PROVE  p = KeyToday(r) /\ r \in OnTheirDay
      <3>1. IsDayOf(i, today)
        BY <2>2, <2>9, <2>0, SameSchedule
      <3> QED
        BY <1>2, <2>4, <2>0, <3>1, DueToday
    <2>10. CASE UNCHANGED <<schedule, today, checks>>
      BY <2>6, <2>7, <2>8, <2>10
    <2>11. CASE StartCheck
      <3>1. UNCHANGED <<schedule, today>> /\ job.phase = "idle"
        BY <2>11 DEF StartCheck, config, At
      <3>2. ~ InWork(i)
        BY <3>1 DEF InWork, Working, LateIsMarked, At
      <3>3. d = today
        BY <2>6, <2>8, <3>1, <3>2
      <3>4. p = KeyToday(r) /\ r \in OnTheirDay
        BY <2>9, <3>1, <3>3
      <3>5. ~ maintenance /\ r \in enabled
        BY <2>3, <2>11, <3>4 DEF StartCheck, Periods
      <3>6. <<r, p>> \in job'.rules
        BY <1>0, <2>11, <3>4, <3>5, JobShapes DEF Periods, DueRules
      <3> QED
        BY <2>2, <3>6 DEF InWork, Working
    <2>12. CASE NextDay
      <3>1. today' = today + 1 /\ ~ checks' /\ UNCHANGED <<schedule, job>>
        BY <2>12 DEF NextDay, config
      <3>2. d \in queue[i].day..today
        BY <1>0, <2>5, <2>6, <3>1
      <3>3. ~ (d = today /\ ~ checks)
        <4> SUFFICES ASSUME d = today, ~ checks PROVE FALSE
          OBVIOUS
        <4>1. p = KeyToday(r) /\ r \in OnTheirDay
          BY <2>9, <3>1
        <4>2. hindered' = hindered \cup Periods(OnTheirDay)
          BY <2>12 DEF NextDay
        <4> QED
          BY <2>3, <4>1, <4>2 DEF Periods
      <3> QED
        BY <2>7, <2>8, <3>1, <3>2, <3>3
    <2>13. ASSUME NEW r0 \in Rules, NEW s \in Schedules, ChangeSchedule(r0, s) PROVE InWork(i)'
      <3>1. UNCHANGED <<today, checks>> /\ (r = r0 => <<r, p>> \in hindered')
            /\ \A r1 \in Rules \ {r0} : schedule'[r1] = schedule[r1]
        BY <1>2, <2>13, <2>0, Rescheduled
      <3>2. schedule'[r] = schedule[r]
        BY <2>3, <3>1
      <3> QED
        BY <2>6, <2>7, <2>8, <3>1, <3>2
    <2> QED
      BY <2>10, <2>11, <2>12, <2>13, DayKinds
  <1> QED
    BY <1>0, <1>1, <1>2 DEF RowsGrow

\* Today's check has dealt with each rule whose day it is.
LEMMA CheckedStep ==
  ASSUME DayInv, [Next]_vars
  PROVE  CheckedToday'
  <1> USE DEF DayInv
  <1>0. job \in Job /\ Grows /\ lastSent \in [Rules -> PeriodKeys]
    BY RowsStep DEF TypeOK
  <1> SUFFICES ASSUME checks', NEW r \in Rules
               PROVE  /\ IsDay(schedule[r], Date)' =>
                            \/ lastSent'[r] = KeyToday(r)'
                            \/ <<r, KeyToday(r)'>> \in hindered'
                            \/ Working(r, KeyToday(r))'
                      /\ \A p \in PeriodKeys : Working(r, p)' =>
                            p = KeyToday(r)' \/ <<r, KeyToday(r)'>> \in hindered'
    BY DEF CheckedToday
  <1>1. CASE StartCheck
    <2>1. UNCHANGED <<schedule, today, lastSent>>
      BY <1>1 DEF StartCheck, config
    <2>2. KeyToday(r)' = KeyToday(r) /\ (IsDay(schedule[r], Date)' <=> IsDay(schedule[r], Date))
      BY <2>1, SameSchedule
    <2>3. ASSUME IsDay(schedule[r], Date), lastSent[r] # KeyToday(r)
          PROVE  <<r, KeyToday(r)>> \in hindered' \/ <<r, KeyToday(r)>> \in job'.rules
      <3>1. r \in OnTheirDay
        BY <2>3 DEF OnTheirDay
      <3>2. CASE maintenance \/ r \notin enabled
        BY <1>1, <3>1, <3>2 DEF StartCheck, Periods
      <3>3. CASE ~ maintenance /\ r \in enabled
        BY <1>0, <1>1, <3>1, <3>3, JobShapes DEF Periods, DueRules
      <3> QED
        BY <3>2, <3>3
    <2>4. ASSUME NEW p \in PeriodKeys, Working(r, p)' PROVE p = KeyToday(r)
      <3>1. ~ Working(r, p)
        BY <1>1 DEF StartCheck, LateIsMarked, Working, At
      <3>2. <<r, p>> \in Periods(DueRules)
        BY <2>4, <3>1, WorkBegins
      <3> QED
        BY <3>2 DEF Periods
    <2>5. <<r, KeyToday(r)>> \in job'.rules => Working(r, KeyToday(r))'
      BY <2>2 DEF Working
    <2> QED
      BY <2>1, <2>2, <2>3, <2>4, <2>5
  <1>2. CASE NextDay
    BY <1>2 DEF NextDay
  <1>3. ASSUME schedule'[r] = schedule[r], UNCHANGED <<today, checks>>
        PROVE  /\ IsDay(schedule[r], Date)' =>
                     \/ lastSent'[r] = KeyToday(r)'
                     \/ <<r, KeyToday(r)'>> \in hindered'
                     \/ Working(r, KeyToday(r))'
               /\ \A p \in PeriodKeys : Working(r, p)' =>
                     p = KeyToday(r)' \/ <<r, KeyToday(r)'>> \in hindered'
    <2>0. PICK k \in PeriodKeys : k = KeyToday(r)
      BY KeyTodayType
    <2>1. KeyToday(r)' = k /\ (IsDay(schedule[r], Date)' <=> IsDay(schedule[r], Date)) /\ checks
      BY <1>3, <2>0, SameSchedule
    <2>2. \A p \in PeriodKeys : Working(r, p) => p = k \/ <<r, k>> \in hindered
      BY <2>1, <2>0 DEF CheckedToday
    <2>3. ASSUME NEW p \in PeriodKeys, Working(r, p)' PROVE p = k \/ <<r, k>> \in hindered'
      <3>1. CASE Working(r, p)
        BY <1>0, <2>2, <3>1 DEF Grows
      <3>2. CASE StartCheck /\ <<r, p>> \in Periods(DueRules)
        BY <2>0, <3>2 DEF Periods
      <3> QED
        BY <2>3, <3>1, <3>2, WorkBegins
    <2>4. ASSUME CloseRule, r = job.rule PROVE lastSent'[r] = k \/ <<r, k>> \in hindered'
      <3>1. lastSent'[r] = job.period /\ job.period \in PeriodKeys
        BY <1>0, <2>4 DEF CloseRule, Job
      <3>2. Working(r, job.period)
        BY <2>4 DEF CloseRule, Working, At
      <3> QED
        BY <1>0, <2>2, <3>1, <3>2 DEF Grows
    <2>5. ASSUME ~ (CloseRule /\ r = job.rule) PROVE lastSent'[r] = lastSent[r]
      BY <1>0, <2>5, DayKinds DEF CloseRule
    <2>6. ASSUME Working(r, k) PROVE Working(r, k)' \/ <<r, k>> \in hindered' \/ (CloseRule /\ r = job.rule)
      BY <2>6, WorkGoesOn
    <2>7. IsDay(schedule[r], Date) => lastSent[r] = k \/ <<r, k>> \in hindered \/ Working(r, k)
      BY <2>1, <2>0 DEF CheckedToday
    <2>8. <<r, k>> \in hindered => <<r, k>> \in hindered'
      BY <1>0 DEF Grows
    <2>9. Working(r, KeyToday(r))' <=> Working(r, k)'
      BY <2>1 DEF Working, At
    <2> QED
      BY <2>1, <2>3, <2>4, <2>5, <2>6, <2>7, <2>8, <2>9
  <1>4. ASSUME NEW r0 \in Rules, NEW s \in Schedules, ChangeSchedule(r0, s)
        PROVE  schedule'[r] = schedule[r] \/ <<r, KeyToday(r)'>> \in hindered'
    BY <1>4, Rescheduled
  <1>5. ASSUME NEW r0 \in Rules, NEW s \in Schedules, ChangeSchedule(r0, s)
        PROVE  UNCHANGED <<today, checks>>
    BY <1>5, Rescheduled
  <1> QED
    BY <1>1, <1>2, <1>3, <1>4, <1>5, DayKinds

\* A key begins with the mode, and only the three modes have a day.
LEMMA KeyMode ==
  ASSUME NEW s, NEW date, NEW other, IsDay(s, date)
  PROVE  PeriodKey(s.mode, other)[1] = s.mode
  <1>1. s.mode \in {"weekly", "monthly", "quarterly"}
    BY DEF IsDay
  <1>2. CASE s.mode = "weekly"
    BY <1>2 DEF PeriodKey
  <1>3. CASE s.mode = "monthly"
    BY <1>3 DEF PeriodKey
  <1>4. CASE s.mode = "quarterly"
    BY <1>4 DEF PeriodKey
  <1> QED
    BY <1>1, <1>2, <1>3, <1>4

\* A row that waits beyond its period without being in work never had a day.
LEMMA NoDay ==
  ASSUME DayInv, NEW i \in RowIds, Waits(i), Over(i), ~ InWork(i)
  PROVE  ~ HadADay(i)
  <1> SUFFICES ASSUME NEW d \in queue[i].day..Len(Calendar), IsDayOf(i, d) PROVE FALSE
    BY DEF HadADay
  <1>1. today \in 1..Len(Calendar) /\ Len(Calendar) \in Nat /\ queue[i].day \in 1..Len(Calendar)
    BY QueueFacts, DigestAssumption DEF DayInv, TypeOK, QueueRow
  <1> DEFINE s == schedule[queue[i].event.rule]
  <1>2. IsDay(s, Calendar[d]) /\ PeriodKey(s.mode, Calendar[d]) = queue[i].period
    BY DEF IsDayOf
  <1> HIDE DEF s
  <1>3. PeriodKey(queue[i].period[1], Calendar[d]) = queue[i].period
    BY <1>2, KeyMode
  <1>4. d \notin today..Len(Calendar)
    BY <1>3 DEF Over
  <1>5. d \in queue[i].day..today /\ d # today
    BY <1>1, <1>4
  <1> QED
    BY <1>5 DEF DayInv, DayIsTaken

\* A digest row that is still pending when its period is over came late, was hindered -
\* a check broken off, missed, outside the window or in maintenance on the rule's day,
\* a rule or a schedule that was changed - or had no day of its rule in its period.
THEOREM StrandedCaused == Spec => []StrandedHasCause
  <1>1. Init => DayInv
    <2> SUFFICES ASSUME Init PROVE DayInv
      OBVIOUS
    <2>1. RowIds = {}
      BY EmptySeq DEF Init, RowIds
    <2>2. LateIsMarked
      BY <2>1 DEF Init, Idle, At, LateIsMarked
    <2>3. DayIsTaken /\ CheckedToday
      BY <2>1 DEF Init, DayIsTaken, CheckedToday
    <2> QED
      BY <2>2, <2>3, InitInv DEF DInv, DayInv
  <1>2. DInv /\ DayInv /\ [Next]_vars => DayInv'
    <2> SUFFICES ASSUME DInv, DayInv, [Next]_vars PROVE DayInv'
      OBVIOUS
    <2>1. TypeOK' /\ HandsArePending'
      BY StepType, StepRest DEF DInv, Rest
    <2>2. LateIsMarked'
      BY LateStep DEF DayInv
    <2> QED
      BY <2>1, <2>2, DayStep, CheckedStep DEF DayInv
  <1>3. DayInv => StrandedHasCause
    BY NoDay DEF StrandedHasCause, Waits
  <1> QED
    BY <1>1, <1>2, <1>3, Invariance, PTL DEF Spec

=============================================================================
