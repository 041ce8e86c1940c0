-------------------------- MODULE NotificationRouter --------------------------
(***************************************************************************)
(* What becomes of a NEW or withdrawn package once it is detected:         *)
(* matching against the subscription rules, the decisions of               *)
(* route_notifications, the delayed queue and its replay, and the loop of  *)
(* _send_immediate with its check of delivery_log.  Several threads run    *)
(* this code: collections, which may overlap (CollectionGuard), and the    *)
(* requests of the resend button; an administrator and the clock change    *)
(* what they read.  Rows of digest_queue are written here and sent by      *)
(* process_digests, which is not part of this module.                      *)
(*                                                                         *)
(* All packages are of one product.  An event is a key <<snapshot, chain,  *)
(* rule>>: the columns by which delayed_queue, digest_queue and            *)
(* delivery_log tell repetitions.                                          *)
(***************************************************************************)
EXTENDS Naturals, Sequences, FiniteSets

CONSTANTS
    Runs,           \* threads that collect: run_now, run_for_source
    Requests,       \* threads that serve the resend button
    Snaps,          \* packages, one row of snapshots each
    Rules, Channels,
    NoChain,        \* chain_json = '[]'
    ChainsOf,       \* ChainsOf[s]: the chains of the URL of s, {} if unconfirmed
    Wants,          \* Wants[r]: the chains that match the conditions of r
    Policy,         \* Policy[r]: which of Policies are configured for r
    Bound,          \* Bound[r]: the channels of r
    MaxResends,     \* bound on the uses of the resend button
    MaxFaults,      \* bound on exceptions and process deaths
    MaxChanges      \* bound on the administrator's changes

Threads  == Runs \cup Requests
Chains   == (UNION {ChainsOf[s] : s \in Snaps}) \cup {NoChain}
Keys     == Snaps \X Chains \X Rules
Kinds    == {"new", "gone"}         \* is_rollback = False, True
Policies == {"everything",          \* filter_conditions is empty
             "rollback",            \* notify_rollback
             "digest",              \* digest_mode
             "hold",                \* quiet hours or a push window
             "space",               \* min_interval_hours > 0
             "delay"}               \* delay_days > 0

ASSUME RouterAssumption ==
    /\ ChainsOf \in [Snaps -> SUBSET (Chains \ {NoChain})]
    /\ Wants \in [Rules -> SUBSET (Chains \ {NoChain})]
    /\ Policy \in [Rules -> SUBSET Policies]
    /\ Bound \in [Rules -> SUBSET Channels]
    /\ Runs \cap Requests = {}
    /\ MaxResends \in Nat /\ MaxFaults \in Nat /\ MaxChanges \in Nat

VARIABLES
    status,         \* snapshots.status
    live, enabled,  \* the rules that exist, those that are enabled
    on,             \* channels with is_active
    maintenance,    \* system_settings.maintenance_mode
    shut,           \* rules in their quiet hours or outside their window
    recent,         \* some delivery is younger than min_interval_hours
    rows,           \* delayed_queue, by id
    digest,         \* pending rows of digest_queue
    log,            \* rows of delivery_log with delivery_status 'sent'
    thread,         \* the local state of each thread
    resends, faults, changes,
    told,           \* history: successful sends, 0..2
    missed,         \* history: sends that failed or met an inactive channel
    owed,           \* history: NEW events that the router took over
    dropped,        \* history: queued events dropped for their status
    lost,           \* history: events in the hands of a thread that died
    excused,        \* history: sends made by two threads at once, or whose
                    \*   row of delivery_log was not written or was removed
    overlap         \* history: two runs were active together

config   == <<live, enabled, on, maintenance>>
clock    == <<shut, recent>>
tables   == <<rows, digest, log>>
bounds   == <<resends, faults, changes>>
outcomes == <<told, missed, owed, dropped, lost>>
vars     == <<status, live, enabled, on, maintenance, shut, recent, rows, digest,
              log, thread, resends, faults, changes, told, missed, owed, dropped,
              lost, excused, overlap>>

Statuses == {"none", "active", "superseded", "withdrawn"}

Row  == [key : Keys, due : BOOLEAN, state : {"pending", "pushed", "deleted"}]
NoKey == <<>>

Local == [task : {"idle", "route", "insert", "drain", "send", "post"},
          kind : Kinds,
          jobs : SUBSET Keys,       \* matches still to be routed
          gone : SUBSET Snaps,      \* withdrawn packages still to be matched
          batch : SUBSET Nat,       \* due rows still to be replayed
          row : Nat,                \* the row being replayed, 0 for none
          key : Keys \cup {NoKey},  \* the event being inserted or sent
          chans : SUBSET Channels,  \* channels still to be served
          to : SUBSET Channels]     \* the channel of the send in progress

Idle == [task |-> "idle", kind |-> "new", jobs |-> {}, gone |-> {}, batch |-> {},
         row |-> 0, key |-> NoKey, chans |-> {}, to |-> {}]

Sends == Keys \X Channels

\* The types of all the state, and what each task of a thread leaves unused.
TypeOK ==
    /\ status \in [Snaps -> Statuses]
    /\ live \subseteq Rules /\ enabled \subseteq live /\ on \subseteq Channels
    /\ maintenance \in BOOLEAN /\ recent \in BOOLEAN /\ shut \subseteq Rules
    /\ rows \in Seq(Row) /\ digest \subseteq Keys /\ log \subseteq Sends
    /\ thread \in [Threads -> Local]
    /\ resends \in 0..MaxResends /\ faults \in 0..MaxFaults
    /\ changes \in 0..MaxChanges
    /\ told \in [Sends -> 0..2] /\ missed \subseteq Sends /\ excused \subseteq Sends
    /\ owed \subseteq Keys /\ dropped \subseteq Keys /\ lost \subseteq Keys
    /\ overlap \in BOOLEAN

Init ==
    /\ status = [s \in Snaps |-> "none"]
    /\ live = Rules /\ enabled = Rules /\ on = Channels
    /\ maintenance = FALSE /\ shut = {} /\ recent = FALSE
    /\ rows = <<>> /\ digest = {} /\ log = {}
    /\ thread = [t \in Threads |-> Idle]
    /\ resends = 0 /\ faults = 0 /\ changes = 0
    /\ told = [x \in Sends |-> 0]
    /\ missed = {} /\ owed = {} /\ dropped = {} /\ lost = {} /\ excused = {}
    /\ overlap = FALSE

------------------------------------------------------------------------------
(***************************************************************************)
(* Where events come from: a collection's detection, or the resend button. *)
(***************************************************************************)
\* get_new_for_subscription on the events of a NEW package: one per chain, or
\* one without a chain, which only rules without conditions match.
EventsOf(s) == IF ChainsOf[s] = {} THEN {NoChain} ELSE ChainsOf[s]
Matches(r, c) == "everything" \in Policy[r] \/ c \in Wants[r]
NewMatches(s) ==
    {<<s, c, r>> : c \in EventsOf(s), r \in enabled} \cap
    {k \in Keys : Matches(k[3], k[2])}

\* The dict of a withdrawn package has no source and no URL, so that its chain
\* cannot be found: it reaches the rules without conditions, as '[]'.
GoneMatches(s) ==
    {<<s, NoChain, r>> : r \in {x \in enabled : {"everything", "rollback"} \subseteq Policy[x]}}

\* A collection has compared and saved: packages appear, with a NEW event or
\* silently, are superseded, come back or are withdrawn (see CollectionCycle).
Moves == {<<"none", "active">>, <<"active", "superseded">>,
          <<"active", "withdrawn">>, <<"superseded", "active">>}

Collect(t) ==
    /\ thread[t].task = "idle"
    /\ \E next \in [Snaps -> Statuses] :
          LET born == {s \in Snaps : status[s] = "none" /\ next[s] = "active"}
              gone == {s \in Snaps : status[s] = "active" /\ next[s] = "withdrawn"} IN
          /\ \A s \in Snaps : next[s] = status[s] \/ <<status[s], next[s]>> \in Moves
          /\ status' = next
          /\ \E new \in SUBSET born :
                thread' = [thread EXCEPT ![t] =
                   [Idle EXCEPT !.task = "route", !.gone = gone,
                                !.jobs = UNION {NewMatches(s) : s \in new}]]
    /\ overlap' = (overlap \/ \E u \in Runs \ {t} : thread[u].task # "idle")
    /\ UNCHANGED <<config, clock, tables, bounds, outcomes, excused>>

\* resend: every enabled rule, whatever its conditions, and no chain.
Resend(t) ==
    /\ thread[t].task = "idle" /\ resends < MaxResends
    /\ \E s \in Snaps :
          /\ status[s] # "none"
          /\ thread' = [thread EXCEPT ![t] =
                [Idle EXCEPT !.task = "route",
                             !.jobs = {<<s, NoChain, r>> : r \in enabled}]]
    /\ resends' = resends + 1
    /\ UNCHANGED <<status, config, clock, tables, faults, changes, outcomes,
                   excused, overlap>>

\* The rollback loop reads the rules again for each withdrawn package.
MatchGone(t) ==
    /\ thread[t].task = "route" /\ thread[t].jobs = {}
    /\ \E s \in thread[t].gone :
          thread' = [thread EXCEPT ![t].kind = "gone", ![t].jobs = GoneMatches(s),
                                   ![t].gone = @ \ {s}]
    /\ UNCHANGED <<status, config, clock, tables, bounds, outcomes, excused, overlap>>

------------------------------------------------------------------------------
(***************************************************************************)
(* route_notifications: one match after the other.                         *)
(***************************************************************************)
Take(t, k) == thread[t].task = "route" /\ k \in thread[t].jobs

Suppressed(k) == maintenance \/ k[3] \notin live

\* Some policy keeps a NEW event from being sent at once.
Held(r) ==
    \/ "digest" \in Policy[r]
    \/ r \in shut
    \/ "space" \in Policy[r] /\ recent
    \/ "delay" \in Policy[r]

PendingIn(q, k) == \E i \in 1..Len(q) : q[i].key = k /\ q[i].state = "pending"

\* Already in the queue that its rule would put it into.
Queued(k) == IF "digest" \in Policy[k[3]] THEN k \in digest ELSE PendingIn(rows, k)

\* Maintenance mode, or the rule is gone.
RouteSuppressed(t, k) ==
    /\ Take(t, k) /\ Suppressed(k)
    /\ thread' = [thread EXCEPT ![t].jobs = @ \ {k}]
    /\ UNCHANGED <<status, config, clock, tables, bounds, outcomes, excused, overlap>>

\* enqueue and enqueue_digest look for a pending row and, in a later
\* statement, insert one.
RouteHeld(t, k) ==
    /\ Take(t, k) /\ ~Suppressed(k)
    /\ thread[t].kind = "new" /\ Held(k[3])
    /\ owed' = owed \cup {k}
    /\ thread' = [thread EXCEPT ![t] =
          IF Queued(k) THEN [thread[t] EXCEPT !.jobs = @ \ {k}]
          ELSE [thread[t] EXCEPT !.jobs = @ \ {k}, !.task = "insert", !.key = k]]
    /\ UNCHANGED <<status, config, clock, tables, bounds, excused, overlap,
                   told, missed, dropped, lost>>

\* What thread t loses when it ends early: NEW events in its hands that no row
\* of a queue holds.
InHand(t) == IF thread[t].key # NoKey /\ thread[t].row = 0 /\ thread[t].kind = "new"
             THEN {thread[t].key} ELSE {}

Ends(t) ==
    /\ thread' = [thread EXCEPT ![t] = Idle]
    /\ lost' = lost \cup InHand(t)

\* The connections that write do not check foreign keys: a rule that was deleted in between
\* gets its row all the same.
Insert(t) ==
    LET k == thread[t].key IN
    /\ thread[t].task = "insert"
    /\ IF "digest" \in Policy[k[3]]
       THEN digest' = digest \cup {k} /\ UNCHANGED rows
       ELSE /\ rows' = Append(rows, [key |-> k, due |-> FALSE, state |-> "pending"])
            /\ UNCHANGED digest
    /\ thread' = [thread EXCEPT ![t].task = "route", ![t].key = NoKey]
    /\ UNCHANGED <<status, config, clock, log, bounds, outcomes, excused, overlap>>

------------------------------------------------------------------------------
(***************************************************************************)
(* _send_immediate: for each channel of the rule, the check of             *)
(* delivery_log, the call of the notifier, the new row of delivery_log.    *)
(***************************************************************************)
Sending(t, k, i) ==
    [thread[t] EXCEPT !.task = "send", !.key = k, !.row = i, !.chans = Bound[k[3]],
                      !.jobs = @ \ {k}, !.batch = @ \ {i}]

\* A withdrawal, or a NEW event that no policy holds back.
RouteNow(t, k) ==
    /\ Take(t, k) /\ ~Suppressed(k)
    /\ thread[t].kind = "gone" \/ ~Held(k[3])
    /\ thread' = [thread EXCEPT ![t] = Sending(t, k, 0)]
    /\ owed' = IF thread[t].kind = "new" THEN owed \cup {k} ELSE owed
    /\ UNCHANGED <<status, config, clock, tables, bounds, excused, overlap,
                   told, missed, dropped, lost>>

Serve(t, c) == thread[t].task = "send" /\ c \in thread[t].chans

SkipInactive(t, c) ==
    /\ Serve(t, c) /\ c \notin on
    /\ thread' = [thread EXCEPT ![t].chans = @ \ {c}]
    /\ missed' = missed \cup {<<thread[t].key, c>>}
    /\ UNCHANGED <<status, config, clock, tables, bounds, excused, overlap,
                   told, owed, dropped, lost>>

SkipDuplicate(t, c) ==
    /\ Serve(t, c) /\ c \in on /\ <<thread[t].key, c>> \in log
    /\ thread' = [thread EXCEPT ![t].chans = @ \ {c}]
    /\ UNCHANGED <<status, config, clock, tables, bounds, outcomes, excused, overlap>>

\* The threads that are sending k to c.
Senders(k, c) == {u \in Threads : /\ thread[u].task = "post"
                                  /\ thread[u].key = k /\ c \in thread[u].to}

\* Mutant: no check of delivery_log.
SendsUnchecked(t, c) ==
    LET k == thread[t].key IN
    /\ Serve(t, c) /\ c \in on
    /\ thread' = [thread EXCEPT ![t].chans = @ \ {c}, ![t].to = {c},
                                ![t].task = "post"]
    /\ excused' = IF Senders(k, c) = {} THEN excused ELSE excused \cup {<<k, c>>}
    /\ UNCHANGED <<status, config, clock, tables, bounds, outcomes, overlap>>

CheckLog(t, c) ==
    LET k == thread[t].key IN
    /\ Serve(t, c) /\ c \in on /\ <<k, c>> \notin log
    /\ thread' = [thread EXCEPT ![t].chans = @ \ {c}, ![t].to = {c},
                                ![t].task = "post"]
    /\ excused' = IF Senders(k, c) = {} THEN excused ELSE excused \cup {<<k, c>>}
    /\ UNCHANGED <<status, config, clock, tables, bounds, outcomes, overlap>>

\* The notifier reports success or failure.
Answer(t, c, ok) ==
    LET k == thread[t].key IN
    /\ told' = IF ok THEN [told EXCEPT ![<<k, c>>] = IF @ = 2 THEN 2 ELSE @ + 1]
               ELSE told
    /\ missed' = IF ok THEN missed ELSE missed \cup {<<k, c>>}

Deliver(t, c, ok) ==
    LET k == thread[t].key IN
    /\ thread[t].task = "post" /\ c \in thread[t].to
    /\ Answer(t, c, ok)
    /\ log' = IF ok THEN log \cup {<<k, c>>} ELSE log
    /\ recent' = (recent \/ ok)
    /\ thread' = [thread EXCEPT ![t].task = "send", ![t].to = {}]
    /\ UNCHANGED <<status, config, shut, rows, digest, bounds, excused, overlap,
                   owed, dropped, lost>>

\* The message is out and the thread ends before log_delivery has written it:
\* the process dies or the database fails.
DeliverUnlogged(t, c, ok) ==
    LET k == thread[t].key IN
    /\ thread[t].task = "post" /\ c \in thread[t].to
    /\ faults < MaxFaults /\ faults' = faults + 1
    /\ Answer(t, c, ok)
    /\ excused' = IF ok THEN excused \cup {<<k, c>>} ELSE excused
    /\ Ends(t)
    /\ UNCHANGED <<status, config, clock, tables, resends, changes, overlap,
                   owed, dropped>>

\* All channels are served; a replayed row is marked, whatever the outcome.
Mark(i) == rows' = [rows EXCEPT ![i].state = IF @ = "deleted" THEN @ ELSE "pushed"]

\* Mutant: mark_pushed is forgotten after a replay.
ForgetsMark(t) ==
    /\ thread[t].task = "send" /\ thread[t].chans = {}
    /\ thread' = [thread EXCEPT ![t].task = IF thread[t].row = 0 THEN "route" ELSE "drain",
                                ![t].key = NoKey, ![t].row = 0]
    /\ UNCHANGED <<status, config, clock, tables, bounds, outcomes, excused, overlap>>

SendDone(t) ==
    LET i == thread[t].row IN
    /\ thread[t].task = "send" /\ thread[t].chans = {}
    /\ IF i = 0 THEN UNCHANGED rows ELSE Mark(i)
    /\ thread' = [thread EXCEPT ![t].task = IF i = 0 THEN "route" ELSE "drain",
                                ![t].key = NoKey, ![t].row = 0]
    /\ UNCHANGED <<status, config, clock, digest, log, bounds, outcomes, excused,
                   overlap>>

------------------------------------------------------------------------------
(***************************************************************************)
(* process_delayed_queue, at the end of a collection.                      *)
(***************************************************************************)
Routed(t) ==
    thread[t].task = "route" /\ thread[t].jobs = {} /\ thread[t].gone = {}

ReadDue(t) ==
    /\ Routed(t) /\ ~maintenance
    /\ thread' = [thread EXCEPT ![t].task = "drain", ![t].kind = "new",
          ![t].batch = {i \in 1..Len(rows) : rows[i].due /\ rows[i].state = "pending"}]
    /\ UNCHANGED <<status, config, clock, tables, bounds, outcomes, excused, overlap>>

Turn(t, i) == thread[t].task = "drain" /\ i \in thread[t].batch

\* The package is not active any more, or the rule is gone: the row is marked.
DropRow(t, i) ==
    LET k == rows[i].key IN
    /\ Turn(t, i)
    /\ status[k[1]] # "active" \/ k[3] \notin live
    /\ Mark(i)
    /\ dropped' = IF status[k[1]] # "active" THEN dropped \cup {k} ELSE dropped
    /\ thread' = [thread EXCEPT ![t].batch = @ \ {i}]
    /\ UNCHANGED <<status, config, clock, digest, log, bounds, excused, overlap,
                   told, missed, owed, lost>>

\* Quiet hours, or outside the window: the row waits for a later run.
PostponeRow(t, i) ==
    LET k == rows[i].key IN
    /\ Turn(t, i) /\ status[k[1]] = "active" /\ k[3] \in live \cap shut
    /\ thread' = [thread EXCEPT ![t].batch = @ \ {i}]
    /\ UNCHANGED <<status, config, clock, tables, bounds, outcomes, excused, overlap>>

\* Mutant: the status of the package is not looked at.
ReplaysAnyStatus(t, i) ==
    LET k == rows[i].key IN
    /\ Turn(t, i) /\ k[3] \in live \ shut
    /\ thread' = [thread EXCEPT ![t] = Sending(t, k, i)]
    /\ UNCHANGED <<status, config, clock, tables, bounds, outcomes, excused, overlap>>

\* Mutant: the row is marked before the message is sent.
MarksFirst(t, i) ==
    LET k == rows[i].key IN
    /\ Turn(t, i) /\ status[k[1]] = "active" /\ k[3] \in live \ shut
    /\ Mark(i)
    /\ thread' = [thread EXCEPT ![t] = Sending(t, k, i)]
    /\ UNCHANGED <<status, config, clock, digest, log, bounds, outcomes, excused,
                   overlap>>

ReplayRow(t, i) ==
    LET k == rows[i].key IN
    /\ Turn(t, i) /\ status[k[1]] = "active" /\ k[3] \in live \ shut
    /\ thread' = [thread EXCEPT ![t] = Sending(t, k, i)]
    /\ UNCHANGED <<status, config, clock, tables, bounds, outcomes, excused, overlap>>

\* The end of a request, of a run in maintenance mode, or of the replay.
Finish(t) ==
    /\ \/ Routed(t) /\ (t \in Requests \/ maintenance)
       \/ thread[t].task = "drain" /\ thread[t].batch = {}
    /\ thread' = [thread EXCEPT ![t] = Idle]
    /\ UNCHANGED <<status, config, clock, tables, bounds, outcomes, excused, overlap>>

\* An exception, or the death of the process, anywhere in a thread.
Dies(t) ==
    /\ thread[t].task # "idle" /\ faults < MaxFaults
    /\ faults' = faults + 1
    /\ Ends(t)
    /\ UNCHANGED <<status, config, clock, tables, resends, changes, excused,
                   overlap, told, missed, owed, dropped>>

------------------------------------------------------------------------------
(***************************************************************************)
(* The administrator and the clock.                                        *)
(***************************************************************************)
Change ==
    /\ changes < MaxChanges /\ changes' = changes + 1
    /\ UNCHANGED <<status, shut, thread, resends, faults, outcomes,
                   overlap>>

\* delete_rule takes the rule's rows in all tables with it.
DeleteRule(r) ==
    /\ r \in live
    /\ live' = live \ {r} /\ enabled' = enabled \ {r}
    /\ rows' = [i \in 1..Len(rows) |->
                   IF rows[i].key[3] = r THEN [rows[i] EXCEPT !.state = "deleted"]
                   ELSE rows[i]]
    /\ digest' = {k \in digest : k[3] # r}
    /\ log' = {x \in log : x[1][3] # r}
    /\ recent' \in {recent, FALSE}
    /\ Change
    /\ UNCHANGED <<on, maintenance, excused>>

ToggleRule(r) ==
    /\ r \in live
    /\ enabled' = IF r \in enabled THEN enabled \ {r} ELSE enabled \cup {r}
    /\ Change
    /\ UNCHANGED <<live, on, maintenance, recent, tables, excused>>

ToggleChannel(c) ==
    /\ on' = IF c \in on THEN on \ {c} ELSE on \cup {c}
    /\ Change
    /\ UNCHANGED <<live, enabled, maintenance, recent, tables, excused>>

ToggleMaintenance ==
    /\ maintenance' = ~maintenance
    /\ Change
    /\ UNCHANGED <<live, enabled, on, recent, tables, excused>>

\* clear_history, by the button or by the daily cleanup: all or the old rows.
ClearHistory ==
    /\ \E old \in SUBSET log :
          old # {} /\ log' = log \ old /\ excused' = excused \cup old
    /\ recent' \in {recent, FALSE}
    /\ Change
    /\ UNCHANGED <<live, enabled, on, maintenance, rows, digest>>

\* The quiet hours of a rule begin or end, its window closes or opens.
OpenOrShut(r) ==
    /\ "hold" \in Policy[r]
    /\ shut' = IF r \in shut THEN shut \ {r} ELSE shut \cup {r}
    /\ UNCHANGED <<status, config, recent, tables, thread, bounds, outcomes,
                   excused, overlap>>

IntervalPasses ==
    /\ recent /\ recent' = FALSE
    /\ UNCHANGED <<status, config, shut, tables, thread, bounds, outcomes,
                   excused, overlap>>

\* push_after is reached.
ComesDue(i) ==
    /\ rows[i].state = "pending" /\ ~rows[i].due
    /\ rows' = [rows EXCEPT ![i].due = TRUE]
    /\ UNCHANGED <<status, config, clock, digest, log, thread, bounds, outcomes,
                   excused, overlap>>

------------------------------------------------------------------------------
RouteStep(t) ==
    \/ MatchGone(t)
    \/ \E k \in thread[t].jobs : RouteSuppressed(t, k) \/ RouteHeld(t, k) \/ RouteNow(t, k)
    \/ Insert(t)

SendStep(t) ==
    \/ \E c \in Channels :
          \/ SkipInactive(t, c)
          \/ SkipDuplicate(t, c)
          \/ CheckLog(t, c)
          \/ \E ok \in BOOLEAN : Deliver(t, c, ok)
    \/ SendDone(t)

DrainStep(t) ==
    \/ t \in Runs /\ ReadDue(t)
    \/ \E i \in thread[t].batch :
          DropRow(t, i) \/ PostponeRow(t, i) \/ ReplayRow(t, i)
    \/ Finish(t)

Step(t) == RouteStep(t) \/ SendStep(t) \/ DrainStep(t)

Fault(t) ==
    \/ Dies(t)
    \/ \E c \in Channels, ok \in BOOLEAN : DeliverUnlogged(t, c, ok)

Administrator ==
    \/ \E r \in Rules : DeleteRule(r) \/ ToggleRule(r)
    \/ \E c \in Channels : ToggleChannel(c)
    \/ ToggleMaintenance
    \/ ClearHistory

Clock ==
    \/ \E r \in Rules : OpenOrShut(r)
    \/ IntervalPasses
    \/ \E i \in 1..Len(rows) : ComesDue(i)

Next ==
    \/ \E t \in Runs : Collect(t)
    \/ \E t \in Requests : Resend(t)
    \/ \E t \in Threads : Step(t) \/ Fault(t)
    \/ Administrator
    \/ Clock

Spec == Init /\ [][Next]_vars

\* Threads go on, and the interval job collects again and again.  A run that
\* collects nothing returns before it reads the queue and is a stutter here.
Fairness ==
    /\ \A t \in Threads : WF_vars(Step(t))
    /\ \A t \in Runs : WF_vars(Collect(t))

FairSpec == Spec /\ Fairness

------------------------------------------------------------------------------
(***************************************************************************)
(* Properties.                                                             *)
(***************************************************************************)
Excused(x) == x \in excused \/ x[1][3] \notin live

\* A rule's channel hears of an event once at most, be it new or withdrawn and
\* through immediate sends, replays, retries after a crash and resends, unless
\* two threads sent it at the same time, the first send could not be logged, or
\* the log was cleared.
ToldOnce ==
    \A x \in Sends : ~Excused(x) => told[x] <= 1

InHands(k) == \E t \in Threads : k \in InHand(t)

Tried(x) == told[x] > 0 \/ x \in missed

\* A NEW event that the router took over is in a thread's hands, in a queue, or
\* was tried on every channel of its rule; it is dropped only for the status of
\* its package, and lost only from the hands of a thread that died.
Settled(k) ==
    \/ PendingIn(rows, k) \/ k \in digest
    \/ \A c \in Bound[k[3]] : Tried(<<k, c>>)
    \/ k \in dropped \cup lost
    \/ k[3] \notin live
EventsAccounted == \A k \in owed : InHands(k) \/ Settled(k)

\* While runs do not overlap, no replay sends a package that is not active.
ReplaysAreActive ==
    [][\A t \in Threads, c \in Channels :
          CheckLog(t, c) /\ thread[t].row # 0 /\ ~overlap
              => status[thread[t].key[1]] = "active"]_vars

\* What was sent is in the log, short of the excuses.
LogIsComplete == \A x \in Sends : told[x] > 0 => x \in log \/ Excused(x)

\* A send in progress is not in the log, short of the excuses, and no other
\* thread is at the same one.
SendsAreFresh ==
    \A t \in Threads : thread[t].task = "post" => \A c \in thread[t].to :
        /\ <<thread[t].key, c>> \in log => Excused(<<thread[t].key, c>>)
        /\ \A u \in Senders(thread[t].key, c) \ {t} :
              <<thread[t].key, c>> \in excused

\* What a thread works on exists; requests replay nothing.
HandsAreReal ==
    \A t \in Threads :
        /\ thread[t].task \in {"insert", "send", "post"} => thread[t].key \in Keys
        /\ thread[t].batch \subseteq 1..Len(rows)
        /\ t \in Requests => thread[t].task # "drain" /\ thread[t].row = 0

\* Two active runs overlap, and a package being replayed is active otherwise.
ReplaysAreSerial ==
    /\ \A t, u \in Runs :
          t # u /\ thread[t].task # "idle" /\ thread[u].task # "idle" => overlap
    /\ \A t \in Threads : thread[t].row # 0 =>
          /\ thread[t].task \in {"send", "post"}
          /\ overlap \/ status[thread[t].key[1]] = "active"

\* A local state l, when the queue is q and the sends T were tried: a thread that
\* neither inserts nor sends holds no event; a row that is replayed is of the event
\* in hand; of the channels of its rule, those that are not ahead were tried.
Works(l, q, T) ==
    /\ l.task \in {"idle", "route", "drain"} => l.key = NoKey
    /\ l.row # 0 => l.row \in 1..Len(q) /\ q[l.row].key = l.key
    /\ l.task \in {"send", "post"} => \A c \in Bound[l.key[3]] :
          c \in l.chans \/ (l.task = "post" /\ c \in l.to) \/ <<l.key, c>> \in T
    /\ \A c, d \in l.to : c = d
TriedSends == {x \in Sends : Tried(x)}
SendsAreTried ==
    /\ \A t \in Threads : Works(thread[t], rows, TriedSends)
    /\ \A x \in log : told[x] > 0

\* The inductive invariants of NotificationRouterProofs.
EventsInv == SendsAreTried /\ EventsAccounted
RInv ==
    /\ TypeOK
    /\ HandsAreReal
    /\ LogIsComplete
    /\ SendsAreFresh
    /\ ToldOnce
    /\ ReplaysAreSerial

Overdue(k) ==
    /\ \E i \in 1..Len(rows) : /\ rows[i].key = k
                               /\ rows[i].due /\ rows[i].state = "pending"
    /\ k[3] \in live \ shut /\ ~maintenance

\* A due row is replayed or dropped in the end, through crashes and races, if
\* the quiet hours of its rule are over and the window is open.
OverdueIsHandled == \A k \in Keys : ~<>[]Overdue(k)

==============================================================================
