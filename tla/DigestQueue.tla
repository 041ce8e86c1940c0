---------------------------- MODULE DigestQueue ----------------------------
(***************************************************************************)
(* Digests: rules that collect their packages and tell them once per week, *)
(* month or quarter.                                                       *)
(*                                                                         *)
(* route_notifications inserts a row with the key of the current period;   *)
(* every six hours process_digests looks for rules whose day it is, reads  *)
(* the pending rows of the rule and the period, posts them to the robots   *)
(* of the rule and marks rows and rule.  Collections go on beside it, days *)
(* pass, and the check may break off between any two statements.           *)
(*                                                                         *)
(* Packages are numbers in the order of publication.  The calendar is a    *)
(* sequence of dates, so that the periods are computed as the code does.   *)
(***************************************************************************)
EXTENDS Integers, Sequences, FiniteSets

CONSTANTS
    Rules, Packages, Channels,
    Events,        \* records [rule, pkg, chain]: what the matching yields
    Bound,         \* rule -> channels
    Robots,        \* the channels of a type for which there is a payload
    Full, Group,   \* full packages; package -> product, branch and type
    Calendar,      \* sequence of [year, month, day, weekday, week, lastDay]
    Schedules,     \* what an administrator may choose: [mode, at, day, month]
    FirstSchedule, \* rule -> schedule
    MaxRows, MaxFaults, MaxChanges    \* bounds

VARIABLES
    status,      \* package -> status of its snapshot
    queue,       \* digest_queue, with what the properties want to know
    lastSent,    \* rule -> digest_last_sent
    schedule,    \* rule -> digest_mode and digest_config
    enabled, on, shut, maintenance,   \* rules, channels, closed windows
    today,       \* index into Calendar
    checks,      \* whether a check began today
    job,         \* process_digests
    told, log,   \* row and channel: posted; event and channel: in delivery_log
    skipped,     \* history: row and channel: the channel was inactive
    again,       \* history: rows that may be told again: a check broke off
    hindered,    \* history: rules and periods that a check or a day passed over
    faults, changes

config == <<schedule, enabled, on, shut, maintenance>>
calendar == <<today, checks>>
outcomes == <<told, log, skipped>>
history == <<again, hindered, faults, changes>>
vars == <<status, queue, lastSent, config, calendar, job, outcomes, history>>

ASSUME DigestAssumption ==
    /\ Packages \subseteq Nat /\ IsFiniteSet(Packages)
    /\ \A e \in Events : e.rule \in Rules /\ e.pkg \in Packages
    /\ Full \subseteq Packages /\ Robots \subseteq Channels
    /\ Bound \in [Rules -> SUBSET Channels]
    /\ Len(Calendar) \in Nat \ {0}
    /\ FirstSchedule \in [Rules -> Schedules]
    /\ {MaxRows, MaxFaults, MaxChanges} \subseteq Nat

-----------------------------------------------------------------------------
(* Periods *)

Quarter(date) == ((date.month - 1) \div 3) + 1

\* The key of the current period: the calendar year with the ISO week.
PeriodKey(mode, date) ==
    CASE mode = "weekly"    -> <<mode, date.year, date.week>>
      [] mode = "monthly"   -> <<mode, date.year, date.month>>
      [] mode = "quarterly" -> <<mode, date.year, Quarter(date)>>

Clipped(day, date) == IF day > date.lastDay THEN date.lastDay ELSE day
MonthOfQuarter(date) == ((date.month - 1) % 3) + 1

\* get_rules_due_for_digest: is it the rule's day?
IsDay(s, date) ==
    \/ s.mode = "weekly" /\ date.weekday = s.day
    \/ s.mode = "monthly" /\ s.at = "last" /\ date.day = date.lastDay
    \/ s.mode = "monthly" /\ s.at = "day" /\ date.day >= Clipped(s.day, date)
    \/ s.mode = "quarterly" /\ s.at = "last" /\ MonthOfQuarter(date) = 3 /\ date.day = date.lastDay
    \/ s.mode = "quarterly" /\ s.at = "first"
    \/ s.mode = "quarterly" /\ s.at = "day"
       /\ \/ MonthOfQuarter(date) > s.month
          \/ MonthOfQuarter(date) = s.month /\ date.day >= Clipped(s.day, date)

Date == Calendar[today]
KeyToday(r) == PeriodKey(schedule[r].mode, Date)

-----------------------------------------------------------------------------
Idle == [phase |-> "idle", rules |-> {}, rule |-> "", period |-> <<>>, batch |-> {},
         keep |-> {}, to |-> {}, at |-> ""]

Row(e) == [event |-> e, period |-> KeyToday(e.rule), day |-> today, state |-> "pending",
           seen |-> FALSE,
           late |-> lastSent[e.rule] = KeyToday(e.rule)
                    \/ (job.rule = e.rule /\ job.period = KeyToday(e.rule))]

RowIds == 1..Len(queue)
\* Mutant: the rows are read whatever their state.
AnyState(r, p) == {i \in RowIds : queue[i].event.rule = r /\ queue[i].period = p}

Pending(r, p) == {i \in RowIds : /\ queue[i].state = "pending"
                                 /\ queue[i].event.rule = r /\ queue[i].period = p}
SetState(S, state) ==
    queue' = [i \in RowIds |-> IF i \in S THEN [queue[i] EXCEPT !.state = state] ELSE queue[i]]

Init ==
    /\ status = [p \in Packages |-> "none"]
    /\ queue = <<>>
    /\ lastSent = [r \in Rules |-> <<>>]
    /\ schedule = FirstSchedule
    /\ enabled = Rules /\ on = Channels /\ shut \in SUBSET Rules /\ maintenance = FALSE
    /\ today = 1 /\ checks = FALSE
    /\ job = Idle
    /\ told = [x \in (1..MaxRows) \X Channels |-> 0] /\ log = {} /\ skipped = {}
    /\ again = {} /\ hindered = {} /\ faults = 0 /\ changes = 0

-----------------------------------------------------------------------------
(* The collecting side *)

Enqueued(e) == \E i \in RowIds : queue[i].event = e /\ queue[i].state = "pending"

\* enqueue_digest for a new package; a pending row of any period stands for it.
Enqueue(e) ==
    /\ status[e.pkg] \in {"none", "active"} /\ e.rule \in enabled /\ ~ maintenance
    /\ Len(queue) < MaxRows
    /\ ~ \E i \in RowIds : queue[i].event = e
    /\ status' = [status EXCEPT ![e.pkg] = "active"]
    /\ queue' = Append(queue, Row(e))
    /\ UNCHANGED <<lastSent, config, calendar, job, outcomes, history>>

\* Two overlapping runs both find the package new and route it.
EnqueueAgain(e) ==
    /\ status[e.pkg] = "active" /\ e.rule \in enabled /\ ~ maintenance
    /\ Len(queue) < MaxRows /\ faults < MaxFaults
    /\ \E i \in RowIds : queue[i].event = e
    /\ ~ Enqueued(e)
    /\ queue' = Append(queue, Row(e))
    /\ faults' = faults + 1
    /\ UNCHANGED <<status, lastSent, config, calendar, job, outcomes, again, hindered, changes>>

\* A later collection finds a package superseded or withdrawn.
Retire(p) ==
    /\ status[p] = "active"
    /\ status' = [status EXCEPT ![p] = "retired"]
    /\ UNCHANGED <<queue, lastSent, config, calendar, job, outcomes, history>>

-----------------------------------------------------------------------------
(* process_digests *)

At(phase) == job.phase = phase
Periods(R) == {<<r, KeyToday(r)>> : r \in R}
OnTheirDay == {r \in Rules : IsDay(schedule[r], Date) /\ lastSent[r] # KeyToday(r)}

\* Mutant: a rule that has had a digest is never due again.
DueOnce == {r \in enabled \cap OnTheirDay : lastSent[r] = <<>>}

\* Mutant: the configuration counts the days of the week from Sunday.
DueSundayFirst ==
    {r \in enabled : /\ lastSent[r] # KeyToday(r)
                     /\ IsDay(schedule[r], [Date EXCEPT !.weekday = (@ + 1) % 7])}

DueRules == enabled \cap OnTheirDay

\* The check begins; in maintenance mode it returns at once.
StartCheck ==
    /\ At("idle")
    /\ checks' = TRUE
    /\ job' = IF maintenance THEN Idle
              ELSE [Idle EXCEPT !.phase = "rules", !.rules = Periods(DueRules)]
    /\ hindered' = hindered \cup Periods(IF maintenance THEN OnTheirDay
                                         ELSE OnTheirDay \ enabled)
    /\ UNCHANGED <<status, queue, lastSent, config, today, outcomes, again, faults, changes>>

IsLatest(i, S) == \A j \in S : queue[i].event.pkg >= queue[j].event.pkg
SameGroup(i, S) == {j \in S : Group[queue[j].event.pkg] = Group[queue[i].event.pkg]}
FullOf(S) == {i \in S : queue[i].event.pkg \in Full}

\* _filter_full_packages: of the full packages of a group one row is kept, the latest.
IsFiltered(keep, S) ==
    /\ keep \subseteq S /\ S \ FullOf(S) \subseteq keep
    /\ \A i \in FullOf(S) :
          \E j \in SameGroup(i, FullOf(S)) :
             /\ SameGroup(i, FullOf(S)) \cap keep = {j}
             /\ IsLatest(j, SameGroup(i, FullOf(S)))

\* Mutant: rows are kept whatever became of their package.
AnyStatus(S) == S

StillActive(S) == {i \in S : status[queue[i].event.pkg] = "active"}

SkipsRule(r, p) == [job EXCEPT !.rules = @ \ {<<r, p>>}]
Handles(r, p, phase, S, keep) ==
    [job EXCEPT !.phase = phase, !.rules = @ \ {<<r, p>>}, !.rule = r, !.period = p,
                !.batch = S, !.keep = keep, !.to = Bound[r]]

Read(i) == [queue[i] EXCEPT !.seen = status[queue[i].event.pkg] = "active"]

\* Mutant: the rows are marked when they are read.
MarksAtRead(S) ==
    queue' = [i \in RowIds |->
                 IF i \notin S THEN queue[i]
                 ELSE IF i \in StillActive(S) THEN [Read(i) EXCEPT !.state = "sent"]
                 ELSE [queue[i] EXCEPT !.state = "cancelled"]]

\* cancel_digest_item for the rows of retired packages.
ReadRows(S) ==
    queue' = [i \in RowIds |->
                 IF i \notin S THEN queue[i]
                 ELSE IF i \in StillActive(S) THEN Read(i)
                 ELSE [queue[i] EXCEPT !.state = "cancelled"]]

\* The pending rows of the rule and the period are read and those of retired
\* packages cancelled; outside its window the rule is left for the next check.
ReadBatch(r, p) ==
    LET S == Pending(r, p) IN
    /\ At("rules") /\ <<r, p>> \in job.rules
    /\ ReadRows(S)
    /\ \/ /\ StillActive(S) = {}
          /\ job' = Handles(r, p, "close", {}, {})
          /\ UNCHANGED hindered
       \/ /\ StillActive(S) # {} /\ r \in shut
          /\ job' = SkipsRule(r, p)
          /\ hindered' = hindered \cup {<<r, p>>}
       \/ /\ StillActive(S) # {} /\ r \notin shut
          /\ \E keep \in SUBSET StillActive(S) :
                IsFiltered(keep, StillActive(S))
                /\ job' = Handles(r, p, "post", StillActive(S), keep)
          /\ UNCHANGED hindered
    /\ UNCHANGED <<status, lastSent, config, calendar, outcomes, again, faults, changes>>

Serves(c) == [job EXCEPT !.to = @ \ {c}]
More(n) == IF n < 2 THEN n + 1 ELSE n    \* the properties tell 0, 1 and more

\* Channels without a payload (mail) and inactive ones.
SkipChannel(c) ==
    /\ At("post") /\ c \in job.to /\ (c \notin Robots \/ c \notin on)
    /\ job' = Serves(c)
    /\ skipped' = IF c \in on THEN skipped ELSE skipped \cup (job.keep \X {c})
    /\ UNCHANGED <<status, queue, lastSent, config, calendar, told, log, history>>

\* requests.post for every part of the text; a failure is swallowed.
Post(c, ok) ==
    /\ At("post") /\ c \in job.to /\ c \in Robots /\ c \in on
    /\ job' = [Serves(c) EXCEPT !.phase = "log", !.at = c]
    /\ told' = [x \in DOMAIN told |->
                   IF ok /\ x \in job.keep \X {c} THEN More(told[x]) ELSE told[x]]
    /\ UNCHANGED <<status, queue, lastSent, config, calendar, log, skipped, history>>

\* log_delivery writes "sent" for each row that was kept, whatever the answer was.
LogRows ==
    /\ At("log")
    /\ log' = log \cup {<<queue[i].event, job.at>> : i \in job.keep}
    /\ job' = [job EXCEPT !.phase = "post", !.at = ""]
    /\ UNCHANGED <<status, queue, lastSent, config, calendar, told, skipped, history>>

MarkedRows == Pending(job.rule, job.period)

\* mark_digest_sent: every row of the rule and the period that is pending now.
MarkRows ==
    /\ At("post") /\ job.to = {}
    /\ SetState(MarkedRows, "sent")
    /\ job' = [job EXCEPT !.phase = "close"]
    /\ UNCHANGED <<status, lastSent, config, calendar, outcomes, history>>

\* mark_digest_rule_sent.
CloseRule ==
    /\ At("close")
    /\ lastSent' = [lastSent EXCEPT ![job.rule] = job.period]
    /\ job' = [Idle EXCEPT !.phase = "rules", !.rules = job.rules]
    /\ UNCHANGED <<status, queue, config, calendar, outcomes, history>>

EndCheck ==
    /\ At("rules") /\ job.rules = {}
    /\ job' = Idle
    /\ UNCHANGED <<status, queue, lastSent, config, calendar, outcomes, history>>

\* The process ends, or a statement of the database raises: what was posted and
\* is not marked will be posted again.
BreakOff ==
    /\ ~ At("idle") /\ faults < MaxFaults
    /\ faults' = faults + 1
    /\ hindered' = hindered \cup job.rules
                   \cup (IF At("rules") THEN {} ELSE {<<job.rule, job.period>>})
    /\ again' = IF At("post") \/ At("log") THEN again \cup job.keep ELSE again
    /\ job' = Idle
    /\ UNCHANGED <<status, queue, lastSent, config, calendar, outcomes, changes>>

-----------------------------------------------------------------------------
(* The calendar and the administrator *)

\* The check runs every six hours; a day without one has the process down.
NextDay ==
    /\ today < Len(Calendar)
    /\ today' = today + 1 /\ checks' = FALSE
    /\ checks \/ faults < MaxFaults
    /\ faults' = IF checks THEN faults ELSE faults + 1
    /\ hindered' = IF checks THEN hindered ELSE hindered \cup Periods(OnTheirDay)
    /\ UNCHANGED <<status, queue, lastSent, config, job, outcomes, again, changes>>

\* One bound for what the administrator does and for windows that open and close.
Change == changes < MaxChanges /\ changes' = changes + 1

OpenOrShut(r) ==
    /\ Change
    /\ shut' = IF r \in shut THEN shut \ {r} ELSE shut \cup {r}
    /\ UNCHANGED <<status, queue, lastSent, schedule, enabled, on, maintenance, calendar,
                   job, outcomes, again, hindered, faults>>

PeriodsWaiting(r) == {<<r, queue[i].period>> : i \in {j \in RowIds : queue[j].event.rule = r}}

\* update_rule: rows keep the key of the schedule under which they were written.
ChangeSchedule(r, s) ==
    /\ s # schedule[r] /\ Change
    /\ schedule' = [schedule EXCEPT ![r] = s]
    /\ hindered' = hindered \cup PeriodsWaiting(r) \cup {<<r, PeriodKey(s.mode, Date)>>}
    /\ UNCHANGED <<status, queue, lastSent, enabled, on, shut, maintenance, calendar,
                   job, outcomes, again, faults>>

ToggleRule(r) ==
    /\ Change
    /\ enabled' = IF r \in enabled THEN enabled \ {r} ELSE enabled \cup {r}
    /\ hindered' = hindered \cup PeriodsWaiting(r) \cup Periods({r})
    /\ UNCHANGED <<status, queue, lastSent, schedule, on, shut, maintenance, calendar,
                   job, outcomes, again, faults>>

\* (A mail channel is skipped whether it is active or not.)
ToggleChannel(c) ==
    /\ c \in Robots /\ Change
    /\ on' = IF c \in on THEN on \ {c} ELSE on \cup {c}
    /\ UNCHANGED <<status, queue, lastSent, schedule, enabled, shut, maintenance, calendar,
                   job, outcomes, again, hindered, faults>>

ToggleMaintenance ==
    /\ Change
    /\ maintenance' = ~ maintenance
    /\ UNCHANGED <<status, queue, lastSent, schedule, enabled, on, shut, calendar,
                   job, outcomes, again, hindered, faults>>

-----------------------------------------------------------------------------
Step ==
    \/ \E x \in job.rules : ReadBatch(x[1], x[2])
    \/ \E c \in Channels : SkipChannel(c) \/ \E ok \in BOOLEAN : Post(c, ok)
    \/ LogRows
    \/ MarkRows
    \/ CloseRule
    \/ EndCheck

Collection ==
    \/ \E e \in Events : Enqueue(e) \/ EnqueueAgain(e)
    \/ \E p \in Packages : Retire(p)

Administrator ==
    \/ \E r \in Rules : ToggleRule(r) \/ \E s \in Schedules : ChangeSchedule(r, s)
    \/ \E c \in Channels : ToggleChannel(c)
    \/ ToggleMaintenance

Next ==
    \/ StartCheck
    \/ Step
    \/ BreakOff
    \/ NextDay
    \/ \E r \in Rules : OpenOrShut(r)
    \/ Collection
    \/ Administrator

Spec == Init /\ [][Next]_vars

\* The interval job starts the check again and again, and a check goes on.
Fairness == WF_vars(StartCheck) /\ WF_vars(Step)

FairSpec == Spec /\ Fairness

-----------------------------------------------------------------------------
(***************************************************************************)
(* Properties.                                                             *)
(***************************************************************************)
PeriodKeys == {<<>>} \cup {PeriodKey(s.mode, Calendar[d]) : s \in Schedules, d \in 1..Len(Calendar)}
QueueRow == [event : Events, period : PeriodKeys, day : 1..Len(Calendar),
             state : {"pending", "sent", "cancelled"}, seen : BOOLEAN, late : BOOLEAN]
Job == [phase : {"idle", "rules", "post", "log", "close"},
        rules : SUBSET (Rules \X PeriodKeys), rule : Rules \cup {""}, period : PeriodKeys,
        batch : SUBSET RowIds, keep : SUBSET RowIds,
        to : SUBSET Channels, at : Channels \cup {""}]
Cells == (1..MaxRows) \X Channels

\* The tables and the check keep their types.
TypeOK ==
    /\ status \in [Packages -> {"none", "active", "retired"}]
    /\ queue \in Seq(QueueRow) /\ Len(queue) <= MaxRows
    /\ lastSent \in [Rules -> PeriodKeys]
    /\ schedule \in [Rules -> Schedules]
    /\ enabled \subseteq Rules /\ shut \subseteq Rules /\ on \subseteq Channels
    /\ maintenance \in BOOLEAN /\ checks \in BOOLEAN /\ today \in 1..Len(Calendar)
    /\ job \in Job
    /\ told \in [Cells -> 0..2] /\ log \subseteq Events \X Channels /\ skipped \subseteq Cells
    /\ again \subseteq RowIds /\ hindered \subseteq Rules \X PeriodKeys
    /\ faults \in 0..MaxFaults /\ changes \in 0..MaxChanges

\* A row is told to a channel once, unless a check broke off between the message
\* and mark_digest_sent: then the next check tells it again.
DigestToldOnce == \A x \in DOMAIN told : told[x] <= 1 \/ x[1] \in again

\* What the check has in its hands is real and pending.
HandsArePending ==
    /\ job.phase \in {"post", "log", "close"} => job.rule \in Rules
    /\ job.phase \in {"post", "log"} => job.keep \subseteq Pending(job.rule, job.period)
    /\ At("log") => job.at \in Channels

Telling(i, c) == job.phase \in {"post", "log"} /\ i \in job.keep /\ c \notin job.to

\* What was told is in the queue; while it is pending, this check told it or an
\* earlier one broke off.
TellsAreCovered ==
    \A i \in 1..MaxRows, c \in Channels : told[<<i, c>>] > 0 =>
        /\ i \in RowIds
        /\ queue[i].state = "pending" => i \in again \/ Telling(i, c)

\* The inductive invariant of DigestQueueProofs.
DInv == TypeOK /\ HandsArePending /\ TellsAreCovered /\ DigestToldOnce

Served(i, c) == <<queue[i].event, c>> \in log \/ <<i, c>> \in skipped
Newer(j, i) ==
    /\ {queue[i].event.pkg, queue[j].event.pkg} \subseteq Full
    /\ Group[queue[j].event.pkg] = Group[queue[i].event.pkg]
    /\ queue[j].event.pkg >= queue[i].event.pkg
NewerListed(i, c) ==
    \E j \in RowIds :
        Newer(j, i) /\ queue[j].event.rule = queue[i].event.rule /\ Served(j, c)

\* A row that is marked as sent was read while its package was active and went to
\* every active robot of its rule, or a newer full package of its group did; the
\* exception is a row that was inserted between the reading and the marking.
SentIsAccounted ==
    \A i \in RowIds : queue[i].state = "sent" =>
        \/ queue[i].late
        \/ /\ queue[i].seen
           /\ \A c \in Bound[queue[i].event.rule] \cap Robots :
                 Served(i, c) \/ NewerListed(i, c)

Over(i) == \A d \in today..Len(Calendar) :
              PeriodKey(queue[i].period[1], Calendar[d]) # queue[i].period
Working(r, p) ==
    \/ <<r, p>> \in job.rules
    \/ ~ At("rules") /\ ~ At("idle") /\ job.rule = r /\ job.period = p
InWork(i) == Working(queue[i].event.rule, queue[i].period)
\* The schedule has a day for the row: on or after its insertion, in its period.
IsDayOf(i, d) ==
    LET s == schedule[queue[i].event.rule] IN
    IsDay(s, Calendar[d]) /\ PeriodKey(s.mode, Calendar[d]) = queue[i].period
HadADay(i) == \E d \in queue[i].day..Len(Calendar) : IsDayOf(i, d)

\* A row whose period is over is pending only for a named cause: it came too late
\* for the digest of its period; a check was broken off, missed, outside the
\* window or in maintenance on the rule's day; or no day that bears the key was
\* the rule's day - days before it in the week, or a week that spans New Year.
StrandedHasCause ==
    \A i \in RowIds :
        queue[i].state = "pending" /\ Over(i) /\ ~ InWork(i) =>
            \/ queue[i].late
            \/ <<queue[i].event.rule, queue[i].period>> \in hindered
            \/ ~ HadADay(i)

\* How the digest of a rule is accounted for while it is in work: what is pending
\* was read or came late, what is not kept has a newer row that is, and what is
\* kept went to the channels that are done, but for the one being logged.
BatchIsRead ==
    job.phase \in {"post", "log"} =>
        /\ \A i \in Pending(job.rule, job.period) : queue[i].late \/ i \in job.batch
        /\ \A i \in job.batch : /\ queue[i].seen /\ queue[i].event.rule = job.rule
                                /\ i \in job.keep \/ \E j \in job.keep : Newer(j, i)
        /\ \A i \in job.keep, c \in Bound[job.rule] \cap Robots :
              c \in job.to \/ Served(i, c) \/ (At("log") /\ c = job.at)

\* A row for a digest that is out, or is only to be closed, is late.
LateIsMarked ==
    /\ \A i \in RowIds : queue[i].state = "pending"
          /\ queue[i].period = lastSent[queue[i].event.rule] => queue[i].late
    /\ At("close") => \A i \in Pending(job.rule, job.period) : queue[i].late
    /\ At("idle") => job.rules = {}

\* A row whose rule had its day is in work, unless today's check is still to come.
Waits(i) ==
    /\ queue[i].state = "pending" /\ ~ queue[i].late
    /\ <<queue[i].event.rule, queue[i].period>> \notin hindered
DayIsTaken ==
    \A i \in RowIds : Waits(i) =>
        \A d \in queue[i].day..today : IsDayOf(i, d) => InWork(i) \/ (d = today /\ ~ checks)

\* Today's check has dealt with each rule whose day it is, and works on today's key.
CheckedToday ==
    checks => \A r \in Rules :
        /\ IsDay(schedule[r], Date) =>
              \/ lastSent[r] = KeyToday(r)
              \/ <<r, KeyToday(r)>> \in hindered
              \/ Working(r, KeyToday(r))
        /\ \A p \in PeriodKeys :
              Working(r, p) => p = KeyToday(r) \/ <<r, KeyToday(r)>> \in hindered

\* The inductive invariants of what is sent and of what stays behind.
SentInv == DInv /\ BatchIsRead /\ SentIsAccounted
DayInv == TypeOK /\ HandsArePending /\ LateIsMarked /\ DayIsTaken /\ CheckedToday

Owed(r) ==
    /\ Pending(r, KeyToday(r)) # {}
    /\ r \in enabled \cap OnTheirDay /\ r \notin shut /\ ~ maintenance

\* On its day a rule with pending rows has its digest in the end, through breaks,
\* while its window is open.
DigestGoesOut == \A r \in Rules : ~ <>[]Owed(r)

\* The abstract outbox: rows are its items, channels its places.
Stage(i) ==
    IF i \notin RowIds THEN "absent"
    ELSE CASE queue[i].state = "pending" -> "held"
           [] queue[i].state = "sent" -> "settled"
           [] queue[i].state = "cancelled" -> "dropped"

Box == INSTANCE Outbox WITH
    Items <- 1..MaxRows, Places <- Channels,
    box <- [i \in 1..MaxRows |-> Stage(i)],
    told <- {x \in DOMAIN told : told[x] > 0}

\* digest_queue is an outbox: no row is told before it is accepted or after it was
\* settled or dropped, and what was settled stays settled.
IsOutbox == Box!Spec

=============================================================================
