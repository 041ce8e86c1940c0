----------------------- MODULE NotificationRouterProofs -----------------------
(***************************************************************************)
(* Proofs about NotificationRouter, for every set of threads, packages,    *)
(* rules and channels and every bound on resends, faults and changes.      *)
(***************************************************************************)
EXTENDS NotificationRouter, TLAPS

\* What an idle thread looks like.
LEMMA IdleFacts ==
    /\ Idle \in Local
    /\ Idle.task = "idle" /\ Idle.row = 0 /\ Idle.batch = {}
PROOF
  BY DEF Idle, Local, Kinds

\* The parts of an event.
LEMMA KeyParts ==
  ASSUME NEW k \in Keys
  PROVE  k[1] \in Snaps /\ k[2] \in Chains /\ k[3] \in Rules
PROOF
  BY DEF Keys

\* A local state l that thread t may have when the queue has n rows.
Fit(t, l, n) ==
    /\ l \in Local
    /\ l.task \in {"insert", "send", "post"} => l.key \in Keys
    /\ l.batch \subseteq 1..n
    /\ t \in Requests => l.task # "drain" /\ l.row = 0

\* The types of the variables other than thread.
Tables ==
    /\ status \in [Snaps -> Statuses]
    /\ live \subseteq Rules /\ enabled \subseteq live /\ on \subseteq Channels
    /\ maintenance \in BOOLEAN /\ recent \in BOOLEAN /\ shut \subseteq Rules
    /\ rows \in Seq(Row) /\ digest \subseteq Keys /\ log \subseteq Sends
    /\ resends \in 0..MaxResends /\ faults \in 0..MaxFaults
    /\ changes \in 0..MaxChanges
    /\ told \in [Sends -> 0..2] /\ missed \subseteq Sends /\ excused \subseteq Sends
    /\ owed \subseteq Keys /\ dropped \subseteq Keys /\ lost \subseteq Keys
    /\ overlap \in BOOLEAN

Hands ==
    /\ DOMAIN thread = Threads
    /\ thread = [t \in Threads |-> thread[t]]
    /\ \A t \in Threads : Fit(t, thread[t], Len(rows))

\* What is proved invariant is the type invariant and the shape of the hands.
LEMMA Parts == TypeOK /\ HandsAreReal <=> Tables /\ Hands
PROOF
  <1>1. ASSUME TypeOK, HandsAreReal PROVE Tables /\ Hands
    BY <1>1 DEF TypeOK, HandsAreReal, Tables, Hands, Fit
  <1>2. ASSUME Tables, Hands PROVE TypeOK /\ HandsAreReal
    <2>1. \A t \in Threads : thread[t] \in Local
      BY <1>2 DEF Hands, Fit
    <2>2. thread \in [Threads -> Local]
      BY <1>2, <2>1 DEF Hands
    <2>3. TypeOK
      BY <1>2, <2>2 DEF TypeOK, Tables
    <2>4. HandsAreReal
      BY <1>2 DEF HandsAreReal, Hands, Fit
    <2> QED BY <2>3, <2>4
  <1> QED BY <1>1, <1>2

\* A thread changes its own local state; the queue may grow.
LEMMA ReplaceGrow ==
  ASSUME Hands, NEW t \in Threads, NEW l, NEW m \in Nat, NEW n \in Nat,
         thread' = [thread EXCEPT ![t] = l],
         Len(rows) = m, Len(rows') = n, n >= m, Fit(t, l, n)
  PROVE  Hands'
PROOF
  <1>1. DOMAIN thread' = Threads /\ thread' = [u \in Threads |-> thread'[u]]
    BY DEF Hands
  <1>2. ASSUME NEW u \in Threads PROVE Fit(u, thread'[u], Len(rows'))
    <2>1. CASE u = t
      BY <2>1 DEF Hands
    <2>2. CASE u # t
      <3>1. thread'[u] = thread[u]
        BY <2>2 DEF Hands
      <3>2. 1..m \subseteq 1..n
        OBVIOUS
      <3> QED BY <3>1, <3>2 DEF Hands, Fit
    <2> QED BY <2>1, <2>2
  <1> QED BY <1>1, <1>2 DEF Hands

\* A thread changes its own local state; the queue keeps its length.
LEMMA Replace ==
  ASSUME Hands, NEW t \in Threads, NEW l,
         thread' = [thread EXCEPT ![t] = l],
         Len(rows') = Len(rows), Fit(t, l, Len(rows))
  PROVE  Hands'
PROOF
  <1>1. DOMAIN thread' = Threads /\ thread' = [u \in Threads |-> thread'[u]]
    BY DEF Hands
  <1>2. ASSUME NEW u \in Threads PROVE Fit(u, thread'[u], Len(rows'))
    BY DEF Hands
  <1> QED BY <1>1, <1>2 DEF Hands

\* Nobody moves.
LEMMA Keep ==
  ASSUME Hands, UNCHANGED thread,
         Len(rows) \in Nat, Len(rows') \in Nat, Len(rows') >= Len(rows)
  PROVE  Hands'
PROOF
  <1>1. 1..Len(rows) \subseteq 1..Len(rows')
    OBVIOUS
  <1> QED BY <1>1 DEF Hands, Fit

Typed == Tables /\ Hands

\* A thread's state fits the queue.
LEMMA HandFits ==
  ASSUME Typed, NEW t \in Threads
  PROVE  Fit(t, thread[t], Len(rows)) /\ thread[t] \in Local
PROOF
  BY DEF Typed, Hands, Fit

\* One match less, or one channel less, leaves a state that fits.
LEMMA LessFits ==
  ASSUME NEW t, NEW h, NEW n, Fit(t, h, n), NEW k
  PROVE  /\ Fit(t, [h EXCEPT !.jobs = @ \ {k}], n)
         /\ Fit(t, [h EXCEPT !.chans = @ \ {k}], n)
PROOF
  <1>1. Fit(t, [h EXCEPT !.jobs = @ \ {k}], n)
    BY DEF Fit, Local
  <1>2. Fit(t, [h EXCEPT !.chans = @ \ {k}], n)
    BY DEF Fit, Local
  <1> QED BY <1>1, <1>2

\* The queue has a length.
LEMMA RowsLen == ASSUME Tables PROVE Len(rows) \in Nat
PROOF
  BY DEF Tables

\* Maintenance mode, or no rule: the match is dropped.
LEMMA RouteSuppressedTyped ==
  ASSUME Typed, NEW t \in Threads, NEW k, RouteSuppressed(t, k)
  PROVE  Typed'
PROOF
  <1>1. Fit(t, [thread[t] EXCEPT !.jobs = @ \ {k}], Len(rows))
    BY HandFits, LessFits
  <1>2. Tables' /\ UNCHANGED rows
    BY DEF RouteSuppressed, Typed, Tables, config, clock, tables, bounds, outcomes
  <1>3. thread' = [thread EXCEPT ![t] = [thread[t] EXCEPT !.jobs = @ \ {k}]]
    BY DEF RouteSuppressed
  <1> QED BY <1>1, <1>2, <1>3, Replace, RowsLen DEF Typed

\* A policy holds the event back.
LEMMA RouteHeldTyped ==
  ASSUME Typed, NEW t \in Threads, NEW k, RouteHeld(t, k)
  PROVE  Typed'
PROOF
  <1> DEFINE l == IF Queued(k) THEN [thread[t] EXCEPT !.jobs = @ \ {k}]
                  ELSE [thread[t] EXCEPT !.jobs = @ \ {k}, !.task = "insert", !.key = k]
  <1>0. k \in Keys
    BY DEF Typed, Hands, Fit, Local, RouteHeld, Take
  <1>1. Fit(t, l, Len(rows))
    <2>1. Fit(t, [thread[t] EXCEPT !.jobs = @ \ {k}], Len(rows))
      BY HandFits, LessFits
    <2>2. Fit(t, [thread[t] EXCEPT !.jobs = @ \ {k}, !.task = "insert", !.key = k], Len(rows))
      BY <1>0, HandFits DEF Fit, Local
    <2> QED BY <2>1, <2>2
  <1>2. Tables' /\ UNCHANGED rows
    BY <1>0 DEF RouteHeld, Typed, Tables, config, clock, tables, bounds
  <1>3. thread' = [thread EXCEPT ![t] = l]
    BY DEF RouteHeld
  <1> QED BY <1>1, <1>2, <1>3, Replace, RowsLen DEF Typed

\* A thread that begins to send an event, for row i or for none.
LEMMA SendingFits ==
  ASSUME Typed, NEW t \in Threads, NEW k \in Keys, NEW i \in Nat,
         t \in Requests => i = 0
  PROVE  Fit(t, Sending(t, k, i), Len(rows))
PROOF
  <1> DEFINE h == thread[t]
             chans == Bound[k[3]]
             jobs == h.jobs \ {k}
             batch == h.batch \ {i}
             l == [h EXCEPT !.task = "send", !.key = k, !.row = i, !.chans = chans,
                            !.jobs = jobs, !.batch = batch]
  <1>1. Fit(t, h, Len(rows))
    BY DEF Typed, Hands
  <1>2. chans \subseteq Channels
    BY KeyParts, RouterAssumption
  <1>3. jobs \subseteq Keys /\ batch \subseteq Nat /\ batch \subseteq 1..Len(rows)
    BY <1>1 DEF Fit, Local
  <1>4. Sending(t, k, i) = l
    BY DEF Sending
  <1> HIDE DEF h, chans, jobs, batch
  <1>5. l \in Local
    BY <1>1, <1>2, <1>3 DEF Fit, Local
  <1>6. l.task = "send" /\ l.key = k /\ l.row = i /\ l.batch = batch
    BY <1>1 DEF Fit, Local
  <1> HIDE DEF l
  <1>7. Fit(t, l, Len(rows))
    BY <1>3, <1>5, <1>6 DEF Fit
  <1> QED BY <1>4, <1>7

\* The event is sent at once.
LEMMA RouteNowTyped ==
  ASSUME Typed, NEW t \in Threads, NEW k, RouteNow(t, k)
  PROVE  Typed'
PROOF
  <1>0. k \in Keys
    BY DEF Typed, Hands, Fit, Local, RouteNow, Take
  <1>1. Fit(t, Sending(t, k, 0), Len(rows))
    BY <1>0, SendingFits
  <1>2. Tables' /\ UNCHANGED rows
    BY <1>0 DEF RouteNow, Typed, Tables, config, clock, tables, bounds
  <1>3. thread' = [thread EXCEPT ![t] = Sending(t, k, 0)]
    BY DEF RouteNow
  <1> QED BY <1>1, <1>2, <1>3, Replace, RowsLen DEF Typed

\* A thread that ends: it becomes idle and what it held is an event or nothing.
LEMMA EndsTyped ==
  ASSUME Typed, NEW t \in Threads, Ends(t), UNCHANGED rows
  PROVE  Hands' /\ lost' \subseteq Keys
PROOF
  <1>1. InHand(t) \subseteq Keys
    BY DEF Typed, Hands, Fit, Local, InHand
  <1>2. lost' \subseteq Keys
    BY <1>1 DEF Ends, Typed, Tables
  <1>3. Fit(t, Idle, Len(rows))
    BY IdleFacts DEF Fit
  <1>4. thread' = [thread EXCEPT ![t] = Idle]
    BY DEF Ends
  <1> QED BY <1>2, <1>3, <1>4, Replace DEF Typed

\* The sequence operations on the queue.
LEMMA AppendRow ==
  ASSUME NEW q \in Seq(Row), NEW r \in Row
  PROVE  Append(q, r) \in Seq(Row) /\ Len(Append(q, r)) = Len(q) + 1 /\ Len(q) \in Nat
PROOF
  OBVIOUS

\* enqueue, enqueue_digest: the new row holds an event.
LEMMA InsertTyped ==
  ASSUME Typed, NEW t \in Threads, Insert(t)
  PROVE  Typed'
PROOF
  <1> DEFINE k == thread[t].key
             r == [key |-> k, due |-> FALSE, state |-> "pending"]
             l == [thread[t] EXCEPT !.task = "route", !.key = NoKey]
  <1>1. k \in Keys
    BY DEF Typed, Hands, Fit, Insert
  <1>2. Fit(t, l, Len(rows))
    BY HandFits DEF Fit, Local
  <1>3. thread' = [thread EXCEPT ![t] = l]
    BY DEF Insert
  <1>4. CASE rows' = Append(rows, r) /\ UNCHANGED digest
    <2>1. r \in Row /\ rows \in Seq(Row)
      BY <1>1 DEF Row, Typed, Tables
    <2> DEFINE m == Len(rows)
    <2>2. m \in Nat /\ rows' \in Seq(Row) /\ Len(rows') = m + 1
      BY <1>4, <2>1, AppendRow
    <2>3. 1..m \subseteq 1..(m + 1)
      BY <2>2
    <2>4. Fit(t, l, m + 1)
      BY <1>2, <2>2, <2>3 DEF Fit
    <2>5. m + 1 \in Nat /\ m + 1 >= m
      BY <2>2
    <2> HIDE DEF m, l
    <2>6. Hands'
      BY <1>3, <2>2, <2>4, <2>5, ReplaceGrow DEF Typed, m
    <2>7. Tables'
      BY <1>4, <2>2 DEF Insert, Typed, Tables, config, clock, bounds, outcomes
    <2> QED BY <2>6, <2>7 DEF Typed
  <1>5. CASE digest' = digest \cup {k} /\ UNCHANGED rows
    <2>1. Tables'
      BY <1>1, <1>5 DEF Insert, Typed, Tables, config, clock, bounds, outcomes
    <2> QED BY <1>2, <1>3, <1>5, <2>1, Replace DEF Typed
  <1> QED BY <1>4, <1>5 DEF Insert

\* _send_immediate: an inactive channel is skipped.
LEMMA SkipInactiveTyped ==
  ASSUME Typed, NEW t \in Threads, NEW c, SkipInactive(t, c)
  PROVE  Typed'
PROOF
  <1>1. <<thread[t].key, c>> \in Sends
    BY DEF SkipInactive, Serve, Typed, Hands, Fit, Local, Sends
  <1>2. Fit(t, [thread[t] EXCEPT !.chans = @ \ {c}], Len(rows))
    BY DEF Typed, Hands, Fit, Local
  <1>3. Tables' /\ UNCHANGED rows
    BY <1>1 DEF SkipInactive, Typed, Tables, config, clock, tables, bounds
  <1>4. thread' = [thread EXCEPT ![t] = [thread[t] EXCEPT !.chans = @ \ {c}]]
    BY DEF SkipInactive
  <1> QED BY <1>2, <1>3, <1>4, Replace DEF Typed

\* The log has the event already.
LEMMA SkipDuplicateTyped ==
  ASSUME Typed, NEW t \in Threads, NEW c, SkipDuplicate(t, c)
  PROVE  Typed'
PROOF
  <1>1. Fit(t, [thread[t] EXCEPT !.chans = @ \ {c}], Len(rows))
    BY HandFits, LessFits
  <1>2. Tables' /\ UNCHANGED rows
    BY DEF SkipDuplicate, Typed, Tables, config, clock, tables, bounds, outcomes
  <1>3. thread' = [thread EXCEPT ![t] = [thread[t] EXCEPT !.chans = @ \ {c}]]
    BY DEF SkipDuplicate
  <1> QED BY <1>1, <1>2, <1>3, Replace DEF Typed

\* The log does not have the event.
LEMMA CheckLogTyped ==
  ASSUME Typed, NEW t \in Threads, NEW c, CheckLog(t, c)
  PROVE  Typed'
PROOF
  <1> DEFINE l == [thread[t] EXCEPT !.chans = @ \ {c}, !.to = {c}, !.task = "post"]
  <1>1. /\ thread[t].key \in Keys /\ c \in Channels
        /\ <<thread[t].key, c>> \in Sends
    BY DEF CheckLog, Serve, Typed, Hands, Fit, Local, Sends
  <1>2. Fit(t, l, Len(rows))
    BY <1>1, HandFits DEF Fit, Local
  <1>3. Tables' /\ UNCHANGED rows
    BY <1>1 DEF CheckLog, Typed, Tables, config, clock, tables, bounds, outcomes
  <1>4. thread' = [thread EXCEPT ![t] = l]
    BY DEF CheckLog
  <1> QED BY <1>2, <1>3, <1>4, Replace DEF Typed

\* What the notifier answers concerns an event and a channel.
LEMMA AnswerTyped ==
  ASSUME Typed, NEW t \in Threads, NEW c, NEW ok \in BOOLEAN,
         thread[t].task = "post", c \in thread[t].to, Answer(t, c, ok)
  PROVE  /\ <<thread[t].key, c>> \in Sends
         /\ told' \in [Sends -> 0..2] /\ missed' \subseteq Sends
PROOF
  <1>1. <<thread[t].key, c>> \in Sends
    BY HandFits DEF Fit, Local, Sends
  <1>2. missed' \subseteq Sends
    BY <1>1 DEF Answer, Typed, Tables
  <1>3. told' \in [Sends -> 0..2]
    BY <1>1 DEF Answer, Typed, Tables
  <1> QED BY <1>1, <1>2, <1>3

\* The delivery is logged.
LEMMA DeliverTyped ==
  ASSUME Typed, NEW t \in Threads, NEW c, NEW ok \in BOOLEAN, Deliver(t, c, ok)
  PROVE  Typed'
PROOF
  <1> DEFINE l == [thread[t] EXCEPT !.task = "send", !.to = {}]
  <1>1. /\ <<thread[t].key, c>> \in Sends
        /\ told' \in [Sends -> 0..2] /\ missed' \subseteq Sends
    BY AnswerTyped DEF Deliver
  <1>2. thread[t].key \in Keys
    BY DEF Deliver, Typed, Hands, Fit
  <1>3. Fit(t, l, Len(rows))
    BY <1>2, HandFits DEF Fit, Local
  <1>4. Tables' /\ UNCHANGED rows
    BY <1>1 DEF Deliver, Typed, Tables, config, bounds
  <1>5. thread' = [thread EXCEPT ![t] = l]
    BY DEF Deliver
  <1> QED BY <1>3, <1>4, <1>5, Replace DEF Typed

\* The delivery is not logged.
LEMMA DeliverUnloggedTyped ==
  ASSUME Typed, NEW t \in Threads, NEW c, NEW ok \in BOOLEAN, DeliverUnlogged(t, c, ok)
  PROVE  Typed'
PROOF
  <1>1. /\ <<thread[t].key, c>> \in Sends
        /\ told' \in [Sends -> 0..2] /\ missed' \subseteq Sends
    BY AnswerTyped DEF DeliverUnlogged
  <1>2. UNCHANGED rows /\ Hands' /\ lost' \subseteq Keys
    BY EndsTyped DEF DeliverUnlogged, tables
  <1>3. faults' \in 0..MaxFaults
    BY RouterAssumption DEF DeliverUnlogged, Typed, Tables
  <1>4. Tables'
    BY <1>1, <1>2, <1>3 DEF DeliverUnlogged, Typed, Tables, config, clock, tables
  <1> QED BY <1>2, <1>4 DEF Typed

\* Marking a row keeps the queue and the events in it.
LEMMA MarkRow ==
  ASSUME Tables, NEW i, Mark(i)
  PROVE  /\ rows' \in Seq(Row) /\ Len(rows') = Len(rows)
         /\ \A j \in 1..Len(rows) : rows'[j].key = rows[j].key
PROOF
  <1>1. rows \in Seq(Row) /\ Len(rows) \in Nat /\ DOMAIN rows = 1..Len(rows)
    BY DEF Tables
  <1>2. \A j \in 1..Len(rows) : rows[j] \in Row
    BY <1>1
  <1>3. DOMAIN rows' = 1..Len(rows)
    BY <1>1 DEF Mark
  <1>4. ASSUME NEW j \in 1..Len(rows)
        PROVE  rows'[j] \in Row /\ rows'[j].key = rows[j].key
    BY <1>1, <1>2 DEF Mark, Row
  <1>5. rows' = [j \in 1..Len(rows) |-> rows'[j]]
    BY <1>1, <1>3 DEF Mark
  <1>6. rows' \in Seq(Row) /\ Len(rows') = Len(rows)
    BY <1>1, <1>4, <1>5
  <1> QED BY <1>4, <1>6

\* The end of _send_immediate; only a run goes back to a replay.
LEMMA SendDoneTyped ==
  ASSUME Typed, NEW t \in Threads, SendDone(t)
  PROVE  Typed'
PROOF
  <1> DEFINE i == thread[t].row
             x == IF i = 0 THEN "route" ELSE "drain"
             l == [thread[t] EXCEPT !.task = x, !.key = NoKey, !.row = 0]
  <1>1. rows' \in Seq(Row) /\ Len(rows') = Len(rows)
    BY MarkRow DEF SendDone, Typed, Tables
  <1>2. Tables'
    BY <1>1 DEF SendDone, Typed, Tables, config, clock, bounds, outcomes
  <1>3. Fit(t, l, Len(rows))
    <2>1. x \in {"route", "drain"} /\ (t \in Requests => x # "drain")
      BY HandFits DEF Fit
    <2> HIDE DEF x, i
    <2> QED BY <2>1, HandFits DEF Fit, Local
  <1>4. thread' = [thread EXCEPT ![t] = l]
    BY DEF SendDone
  <1> QED BY <1>1, <1>2, <1>3, <1>4, Replace DEF Typed

\* process_delayed_queue reads the due rows.
LEMMA ReadDueTyped ==
  ASSUME Typed, NEW t \in Runs, ReadDue(t)
  PROVE  Typed'
PROOF
  <1> DEFINE b == {i \in 1..Len(rows) : rows[i].due /\ rows[i].state = "pending"}
             l == [thread[t] EXCEPT !.task = "drain", !.kind = "new", !.batch = b]
  <1>1. t \in Threads /\ t \notin Requests
    BY RouterAssumption DEF Threads
  <1>2. b \subseteq Nat /\ b \subseteq 1..Len(rows)
    BY DEF Typed, Tables
  <1>3. Fit(t, l, Len(rows))
    BY <1>1, <1>2, HandFits DEF Fit, Local, Kinds
  <1>4. Tables' /\ UNCHANGED rows
    BY DEF ReadDue, Typed, Tables, config, clock, tables, bounds, outcomes
  <1>5. thread' = [thread EXCEPT ![t] = l]
    BY DEF ReadDue
  <1> QED BY <1>1, <1>3, <1>4, <1>5, Replace DEF Typed

\* A due row holds an event.
LEMMA DueRow ==
  ASSUME Typed, NEW t \in Threads, NEW i \in thread[t].batch
  PROVE  i \in 1..Len(rows) /\ i \in Nat /\ rows[i] \in Row /\ rows[i].key \in Keys
PROOF
  <1>1. i \in 1..Len(rows)
    BY DEF Typed, Hands, Fit
  <1>2. rows[i] \in Row
    BY <1>1 DEF Typed, Tables
  <1> QED BY <1>1, <1>2 DEF Row, Typed, Tables

\* A row is marked without a send.
LEMMA DropRowTyped ==
  ASSUME Typed, NEW t \in Threads, NEW i \in thread[t].batch, DropRow(t, i)
  PROVE  Typed'
PROOF
  <1> DEFINE l == [thread[t] EXCEPT !.batch = @ \ {i}]
  <1>1. rows' \in Seq(Row) /\ Len(rows') = Len(rows)
    BY MarkRow DEF DropRow, Typed
  <1>2. rows[i].key \in Keys
    BY DueRow
  <1>3. Tables'
    BY <1>1, <1>2 DEF DropRow, Typed, Tables, config, clock, bounds
  <1>4. Fit(t, l, Len(rows))
    BY DEF Typed, Hands, Fit, Local
  <1>5. thread' = [thread EXCEPT ![t] = l]
    BY DEF DropRow
  <1> QED BY <1>1, <1>3, <1>4, <1>5, Replace DEF Typed

\* A row waits.
LEMMA PostponeRowTyped ==
  ASSUME Typed, NEW t \in Threads, NEW i, PostponeRow(t, i)
  PROVE  Typed'
PROOF
  <1>1. Fit(t, [thread[t] EXCEPT !.batch = @ \ {i}], Len(rows))
    BY DEF Typed, Hands, Fit, Local
  <1>2. Tables' /\ UNCHANGED rows
    BY DEF PostponeRow, Typed, Tables, config, clock, tables, bounds, outcomes
  <1>3. thread' = [thread EXCEPT ![t] = [thread[t] EXCEPT !.batch = @ \ {i}]]
    BY DEF PostponeRow
  <1> QED BY <1>1, <1>2, <1>3, Replace DEF Typed

\* A row is sent; requests have none in their batch.
LEMMA ReplayRowTyped ==
  ASSUME Typed, NEW t \in Threads, NEW i \in thread[t].batch, ReplayRow(t, i)
  PROVE  Typed'
PROOF
  <1> DEFINE k == rows[i].key
  <1>1. k \in Keys
    BY DueRow
  <1>2. t \notin Requests /\ i \in Nat
    BY DueRow DEF ReplayRow, Turn, Typed, Hands, Fit
  <1>3. Fit(t, Sending(t, k, i), Len(rows))
    BY <1>1, <1>2, SendingFits
  <1>4. Tables' /\ UNCHANGED rows
    BY DEF ReplayRow, Typed, Tables, config, clock, tables, bounds, outcomes
  <1>5. thread' = [thread EXCEPT ![t] = Sending(t, k, i)]
    BY DEF ReplayRow
  <1> QED BY <1>3, <1>4, <1>5, Replace DEF Typed

\* A thread ends.
LEMMA FinishTyped ==
  ASSUME Typed, NEW t \in Threads, Finish(t)
  PROVE  Typed'
PROOF
  <1>1. Fit(t, Idle, Len(rows))
    BY IdleFacts DEF Fit
  <1>2. Tables' /\ UNCHANGED rows
    BY DEF Finish, Typed, Tables, config, clock, tables, bounds, outcomes
  <1>3. thread' = [thread EXCEPT ![t] = Idle]
    BY DEF Finish
  <1> QED BY <1>1, <1>2, <1>3, Replace DEF Typed

\* A thread ends early.
LEMMA DiesTyped ==
  ASSUME Typed, NEW t \in Threads, Dies(t)
  PROVE  Typed'
PROOF
  <1>1. UNCHANGED rows /\ Hands' /\ lost' \subseteq Keys
    BY EndsTyped DEF Dies, tables
  <1>2. Tables'
    BY <1>1, RouterAssumption DEF Dies, Typed, Tables, config, clock, tables
  <1> QED BY <1>1, <1>2 DEF Typed

\* A collection hands over what its matches are.
LEMMA CollectTyped ==
  ASSUME Typed, NEW t \in Runs, Collect(t)
  PROVE  Typed'
PROOF
  <1>1. PICK next \in [Snaps -> Statuses] :
           /\ status' = next
           /\ \E new \in SUBSET {s \in Snaps : status[s] = "none" /\ next[s] = "active"} :
                 thread' = [thread EXCEPT ![t] =
                    [Idle EXCEPT !.task = "route",
                       !.gone = {s \in Snaps : status[s] = "active" /\ next[s] = "withdrawn"},
                       !.jobs = UNION {NewMatches(s) : s \in new}]]
    BY DEF Collect
  <1> DEFINE gone == {s \in Snaps : status[s] = "active" /\ next[s] = "withdrawn"}
  <1>a. PICK new \in SUBSET {s \in Snaps : status[s] = "none" /\ next[s] = "active"} :
           thread' = [thread EXCEPT ![t] =
                 [Idle EXCEPT !.task = "route", !.gone = gone,
                              !.jobs = UNION {NewMatches(s) : s \in new}]]
    BY <1>1
  <1>b. gone \subseteq Snaps
    OBVIOUS
  <1> HIDE DEF gone
  <1> DEFINE jobs == UNION {NewMatches(s) : s \in new}
             l == [Idle EXCEPT !.task = "route", !.gone = gone, !.jobs = jobs]
  <1>2. t \in Threads
    BY DEF Threads
  <1>3. jobs \subseteq Keys
    BY DEF NewMatches
  <1> HIDE DEF jobs
  <1>4. Fit(t, l, Len(rows))
    BY <1>3, <1>b, IdleFacts DEF Fit, Local
  <1>5. Tables' /\ UNCHANGED rows
    BY <1>1 DEF Collect, Typed, Tables, config, clock, tables, bounds, outcomes
  <1>6. thread' = [thread EXCEPT ![t] = l]
    BY <1>a DEF jobs
  <1> QED BY <1>2, <1>4, <1>5, <1>6, Replace DEF Typed

\* The resend button.
LEMMA ResendTyped ==
  ASSUME Typed, NEW t \in Requests, Resend(t)
  PROVE  Typed'
PROOF
  <1>1. PICK s \in Snaps :
           thread' = [thread EXCEPT ![t] =
                [Idle EXCEPT !.task = "route",
                             !.jobs = {<<s, NoChain, r>> : r \in enabled}]]
    BY DEF Resend
  <1> DEFINE jobs == {<<s, NoChain, r>> : r \in enabled}
             l == [Idle EXCEPT !.task = "route", !.jobs = jobs]
  <1>2. t \in Threads
    BY DEF Threads
  <1>3. jobs \subseteq Keys
    BY DEF Keys, Chains, Typed, Tables
  <1> HIDE DEF jobs
  <1>4. Fit(t, l, Len(rows))
    BY <1>3, IdleFacts DEF Fit, Local
  <1>5. Tables' /\ UNCHANGED rows
    BY RouterAssumption DEF Resend, Typed, Tables, config, clock, tables, outcomes
  <1>6. thread' = [thread EXCEPT ![t] = l]
    BY <1>1 DEF jobs
  <1> QED BY <1>2, <1>4, <1>5, <1>6, Replace DEF Typed

\* The matches of a withdrawal.
LEMMA MatchGoneTyped ==
  ASSUME Typed, NEW t \in Threads, MatchGone(t)
  PROVE  Typed'
PROOF
  <1>1. PICK s \in thread[t].gone :
           thread' = [thread EXCEPT ![t].kind = "gone", ![t].jobs = GoneMatches(s),
                                    ![t].gone = @ \ {s}]
    BY DEF MatchGone
  <1> DEFINE jobs == GoneMatches(s)
             left == thread[t].gone \ {s}
             l == [thread[t] EXCEPT !.kind = "gone", !.jobs = jobs, !.gone = left]
  <1>2. Fit(t, thread[t], Len(rows))
    BY DEF Typed, Hands
  <1>3. s \in Snaps /\ left \subseteq Snaps
    BY <1>2 DEF Fit, Local
  <1>4. jobs \subseteq Keys
    BY <1>3 DEF GoneMatches, Keys, Chains, Typed, Tables
  <1>5. thread' = [thread EXCEPT ![t] = l]
    BY <1>1
  <1> HIDE DEF jobs, left
  <1>6. l \in Local
    BY <1>2, <1>3, <1>4 DEF Fit, Local, Kinds
  <1>7. Fit(t, l, Len(rows))
    BY <1>2, <1>6 DEF Fit, Local
  <1>8. Tables' /\ UNCHANGED rows
    BY DEF MatchGone, Typed, Tables, config, clock, tables, bounds, outcomes
  <1> QED BY <1>5, <1>7, <1>8, Replace DEF Typed

\* The administrator and the clock move no thread.
LEMMA StillTyped ==
  ASSUME Typed, UNCHANGED thread, Tables', Len(rows') = Len(rows)
  PROVE  Typed'
PROOF
  <1>1. Len(rows) \in Nat
    BY RowsLen DEF Typed
  <1> QED BY <1>1, Keep DEF Typed

\* The rows of a deleted rule stay in their places.
LEMMA DeleteRows ==
  ASSUME Tables, NEW r, DeleteRule(r)
  PROVE  rows' \in Seq(Row) /\ Len(rows') = Len(rows)
PROOF
  <1> DEFINE n == Len(rows)
             q(i) == IF rows[i].key[3] = r THEN [rows[i] EXCEPT !.state = "deleted"]
                     ELSE rows[i]
  <1>1. n \in Nat /\ rows \in Seq(Row)
    BY DEF Tables
  <1>2. ASSUME NEW i \in 1..n PROVE q(i) \in Row
    <2>1. rows[i] \in Row
      BY <1>1
    <2> QED BY <2>1 DEF Row
  <1>3. rows' = [i \in 1..n |-> q(i)]
    BY DEF DeleteRule
  <1> HIDE DEF q, n
  <1>4. rows' \in Seq(Row) /\ Len(rows') = n
    BY <1>1, <1>2, <1>3
  <1> QED BY <1>4 DEF n

\* delete_rule keeps the types.
LEMMA DeleteRuleTyped ==
  ASSUME Typed, NEW r, DeleteRule(r)
  PROVE  Typed'
PROOF
  <1>1. rows' \in Seq(Row) /\ Len(rows') = Len(rows)
    BY DeleteRows DEF Typed
  <1>2. recent' \in BOOLEAN
    BY DEF DeleteRule, Typed, Tables
  <1>3. /\ live' \subseteq Rules /\ enabled' \subseteq live'
        /\ digest' \subseteq Keys /\ log' \subseteq Sends
    BY DEF DeleteRule, Typed, Tables
  <1>4. changes' \in 0..MaxChanges
    BY RouterAssumption DEF DeleteRule, Change, Typed, Tables
  <1>5. Tables'
    BY <1>1, <1>2, <1>3, <1>4 DEF DeleteRule, Change, Typed, Tables, outcomes
  <1>6. UNCHANGED thread
    BY DEF DeleteRule, Change
  <1> QED BY <1>1, <1>5, <1>6, StillTyped

\* So do the other changes of the administrator.
LEMMA AdministratorTyped ==
  ASSUME Typed, Administrator
  PROVE  Typed'
PROOF
  <1>1. ASSUME NEW r \in Rules, ToggleRule(r) PROVE Typed'
    <2>1. Tables' /\ UNCHANGED <<rows, thread>>
      BY <1>1, RouterAssumption DEF ToggleRule, Change, Typed, Tables, tables, outcomes
    <2> QED BY <2>1, StillTyped
  <1>2. ASSUME NEW c \in Channels, ToggleChannel(c) PROVE Typed'
    <2>1. Tables' /\ UNCHANGED <<rows, thread>>
      BY <1>2, RouterAssumption DEF ToggleChannel, Change, Typed, Tables, tables, outcomes
    <2> QED BY <2>1, StillTyped
  <1>3. CASE ToggleMaintenance
    <2>1. Tables' /\ UNCHANGED <<rows, thread>>
      BY <1>3, RouterAssumption DEF ToggleMaintenance, Change, Typed, Tables, tables,
         outcomes
    <2> QED BY <2>1, StillTyped
  <1>4. CASE ClearHistory
    <2>1. log' \subseteq Sends /\ excused' \subseteq Sends
      BY <1>4 DEF ClearHistory, Typed, Tables
    <2>2. recent' \in BOOLEAN
      BY <1>4 DEF ClearHistory, Typed, Tables
    <2>3. changes' \in 0..MaxChanges
      BY <1>4, RouterAssumption DEF ClearHistory, Change, Typed, Tables
    <2>4. Tables' /\ UNCHANGED <<rows, thread>>
      BY <1>4, <2>1, <2>2, <2>3 DEF ClearHistory, Change, Typed, Tables, outcomes
    <2> QED BY <2>4, StillTyped
  <1> QED BY <1>1, <1>2, <1>3, <1>4, DeleteRuleTyped DEF Administrator

\* And what the clock does.
LEMMA ClockTyped ==
  ASSUME Typed, Clock
  PROVE  Typed'
PROOF
  <1>1. ASSUME NEW r \in Rules, OpenOrShut(r) PROVE Typed'
    <2>1. Tables' /\ UNCHANGED <<rows, thread>>
      BY <1>1 DEF OpenOrShut, Typed, Tables, config, tables, bounds, outcomes
    <2> QED BY <2>1, StillTyped
  <1>2. CASE IntervalPasses
    <2>1. Tables' /\ UNCHANGED <<rows, thread>>
      BY <1>2 DEF IntervalPasses, Typed, Tables, config, tables, bounds, outcomes
    <2> QED BY <2>1, StillTyped
  <1>3. ASSUME NEW i \in 1..Len(rows), ComesDue(i) PROVE Typed'
    <2>1. rows \in Seq(Row) /\ rows[i] \in Row
      BY DEF Typed, Tables
    <2>2. [rows[i] EXCEPT !.due = TRUE] \in Row
      BY <2>1 DEF Row
    <2>3. rows' = [rows EXCEPT ![i] = [rows[i] EXCEPT !.due = TRUE]]
      BY <1>3 DEF ComesDue
    <2>4. rows' \in Seq(Row) /\ Len(rows') = Len(rows)
      BY <2>1, <2>2, <2>3
    <2>5. Tables' /\ UNCHANGED thread
      BY <1>3, <2>4 DEF ComesDue, Typed, Tables, config, clock, bounds, outcomes
    <2> QED BY <2>4, <2>5, StillTyped
  <1> QED BY <1>1, <1>2, <1>3 DEF Clock

\* Every step keeps the types and what the threads hold.
LEMMA TypedStep ==
  ASSUME Typed, [Next]_vars
  PROVE  Typed'
PROOF
  <1>1. ASSUME NEW t \in Threads, Step(t) PROVE Typed'
    <2>1. CASE RouteStep(t)
      BY <2>1, MatchGoneTyped, RouteSuppressedTyped, RouteHeldTyped, RouteNowTyped,
         InsertTyped DEF RouteStep
    <2>2. CASE SendStep(t)
      BY <2>2, SkipInactiveTyped, SkipDuplicateTyped, CheckLogTyped, DeliverTyped,
         SendDoneTyped DEF SendStep
    <2>3. CASE DrainStep(t)
      BY <2>3, ReadDueTyped, DropRowTyped, PostponeRowTyped, ReplayRowTyped,
         FinishTyped DEF DrainStep
    <2> QED BY <1>1, <2>1, <2>2, <2>3 DEF Step
  <1>2. ASSUME NEW t \in Threads, Fault(t) PROVE Typed'
    BY <1>2, DiesTyped, DeliverUnloggedTyped DEF Fault
  <1>3. CASE UNCHANGED vars
    <2>1. Tables' /\ UNCHANGED <<rows, thread>>
      BY <1>3 DEF vars, Typed, Tables
    <2> QED BY <2>1, StillTyped
  <1> QED BY <1>1, <1>2, <1>3, CollectTyped, ResendTyped, AdministratorTyped,
             ClockTyped DEF Next

\* The initial state is well typed.
LEMMA InitTyped == Init => Typed
PROOF
  <1> SUFFICES ASSUME Init PROVE Typed
    OBVIOUS
  <1>1. rows \in Seq(Row)
    BY DEF Init
  <1>2. told \in [Sends -> 0..2] /\ status \in [Snaps -> Statuses]
    BY DEF Init, Statuses
  <1>3. resends \in 0..MaxResends /\ faults \in 0..MaxFaults /\ changes \in 0..MaxChanges
    BY RouterAssumption DEF Init
  <1>4. Tables
    BY <1>1, <1>2, <1>3 DEF Init, Tables
  <1>5. Hands
    BY IdleFacts DEF Init, Hands, Fit, Idle
  <1> QED BY <1>4, <1>5 DEF Typed

\* Every table and every local state of the router's threads keeps its type,
\* what a thread holds exists, and a request replays nothing.
THEOREM Typing == Spec => [](TypeOK /\ HandsAreReal)
PROOF
  <1>1. Spec => []Typed
    BY InitTyped, TypedStep, PTL DEF Spec
  <1>2. Typed => TypeOK /\ HandsAreReal
    BY Parts DEF Typed
  <1> QED BY <1>1, <1>2, PTL

------------------------------------------------------------------------------
(***************************************************************************)
(* The sends and the replays.                                              *)
(***************************************************************************)
Fresh  == LogIsComplete /\ SendsAreFresh /\ ToldOnce
Proper == Fresh /\ ReplaysAreSerial

\* No send begins, and what was told, logged and excused only moves where an
\* excuse covers it: the invariant of the sends is kept.
LEMMA FreshKept ==
  ASSUME Fresh, live' \subseteq live, excused \subseteq excused', log' \subseteq log,
         \A x \in log : x \in log' \/ Excused(x)',
         \A x \in Sends : ~Excused(x)' => told'[x] = told[x],
         \A u \in Threads : thread'[u].task = "post" => thread'[u] = thread[u]
  PROVE  Fresh'
PROOF
  <1>1. \A x : Excused(x) => Excused(x)'
    BY DEF Excused
  <1>2. LogIsComplete'
    BY <1>1 DEF Fresh, LogIsComplete
  <1>3. ToldOnce'
    BY <1>1 DEF Fresh, ToldOnce
  <1>4. ASSUME NEW u \in Threads, thread'[u].task = "post", NEW c \in thread'[u].to
        PROVE  /\ <<thread'[u].key, c>> \in log' => Excused(<<thread[u].key, c>>)'
               /\ \A v \in Senders(thread[u].key, c)' \ {u} :
                     <<thread'[u].key, c>> \in excused'
    <2>1. thread'[u] = thread[u]
      BY <1>4
    <2>2. Senders(thread[u].key, c)' \subseteq Senders(thread[u].key, c)
      BY <2>1 DEF Senders
    <2> QED BY <1>1, <1>4, <2>1, <2>2 DEF Fresh, SendsAreFresh
  <1>5. SendsAreFresh'
    BY <1>4 DEF SendsAreFresh
  <1> QED BY <1>2, <1>3, <1>5 DEF Fresh

\* Nobody starts to run, no row starts to be replayed unless its package is
\* active: the invariant of the replays is kept.
LEMMA SerialKept ==
  ASSUME ReplaysAreSerial, UNCHANGED <<status, overlap>>,
         \A u \in Runs : thread'[u].task # "idle" => thread[u].task # "idle",
         \A u \in Threads : thread'[u].row # 0 =>
            /\ thread'[u].task \in {"send", "post"}
            /\ \/ thread[u].row # 0 /\ thread'[u].key = thread[u].key
               \/ status[thread'[u].key[1]] = "active"
  PROVE  ReplaysAreSerial'
PROOF
  BY DEF ReplaysAreSerial

\* Thread t goes from its local state to l; it begins no send.
Moving(t, l) ==
    /\ thread' = [thread EXCEPT ![t] = l]
    /\ l.task # "post"
    /\ t \in Runs /\ l.task # "idle" => thread[t].task # "idle"
    /\ l.row # 0 => /\ l.task = "send"
                    /\ \/ thread[t].row # 0 /\ l.key = thread[t].key
                       \/ status[l.key[1]] = "active"

\* One thread moves and nothing else of the sends changes.
LEMMA Calm ==
  ASSUME Typed, Proper, NEW t \in Threads, NEW l, Moving(t, l),
         UNCHANGED <<status, live, log, told, excused, overlap>>
  PROVE  Proper'
PROOF
  <1>1. \A u \in Threads : thread'[u] = IF u = t THEN l ELSE thread[u]
    BY DEF Moving, Typed, Hands
  <1>2. Fresh'
    <2>1. \A u \in Threads : thread'[u].task = "post" => thread'[u] = thread[u]
      BY <1>1 DEF Moving
    <2> QED BY <2>1, FreshKept DEF Proper
  <1>3. ReplaysAreSerial'
    <2>1. Runs \subseteq Threads
      BY DEF Threads
    <2>2. \A u \in Runs : thread'[u].task # "idle" => thread[u].task # "idle"
      BY <1>1, <2>1 DEF Moving
    <2>3. \A u \in Threads : thread'[u].row # 0 =>
            /\ thread'[u].task \in {"send", "post"}
            /\ \/ thread[u].row # 0 /\ thread'[u].key = thread[u].key
               \/ status[thread'[u].key[1]] = "active"
      BY <1>1 DEF Moving, Proper, ReplaysAreSerial
    <2> QED BY <2>2, <2>3, SerialKept DEF Proper
  <1> QED BY <1>2, <1>3 DEF Proper

\* No thread moves.
LEMMA Still ==
  ASSUME Proper, UNCHANGED <<status, thread, overlap, told>>,
         live' \subseteq live, excused \subseteq excused', log' \subseteq log,
         \A x \in log : x \in log' \/ Excused(x)'
  PROVE  Proper'
PROOF
  <1>1. Fresh'
    BY FreshKept DEF Proper
  <1>2. ReplaysAreSerial'
    BY SerialKept DEF Proper, ReplaysAreSerial
  <1> QED BY <1>1, <1>2 DEF Proper

\* Only a send has a row; a thread that routes or inserts has none.
LEMMA RowOnlyInSends ==
  ASSUME Proper, NEW t \in Threads, thread[t].row # 0
  PROVE  /\ thread[t].task \in {"send", "post"}
         /\ overlap \/ status[thread[t].key[1]] = "active"
PROOF
  BY DEF Proper, ReplaysAreSerial

\* The steps of route_notifications begin no send and replay nothing.
LEMMA RouteProper ==
  ASSUME Typed, Proper, NEW t \in Threads, RouteStep(t)
  PROVE  Proper'
PROOF
  <1>1. thread[t] \in Local
    BY DEF Typed, Hands, Fit
  <1>2. CASE MatchGone(t)
    <2>1. PICK s \in thread[t].gone :
             thread' = [thread EXCEPT ![t].kind = "gone", ![t].jobs = GoneMatches(s),
                                      ![t].gone = @ \ {s}]
      BY <1>2 DEF MatchGone
    <2> DEFINE l == [thread[t] EXCEPT !.kind = "gone", !.jobs = GoneMatches(s),
                                      !.gone = @ \ {s}]
    <2>2. thread' = [thread EXCEPT ![t] = l]
      BY <2>1
    <2>3. l.task = "route" /\ l.row = 0
      BY <1>1, <1>2, RowOnlyInSends DEF MatchGone, Local
    <2>4. thread[t].task = "route"
      BY <1>2 DEF MatchGone
    <2> HIDE DEF l
    <2>5. Moving(t, l)
      BY <2>2, <2>3, <2>4 DEF Moving
    <2> QED BY <1>2, <2>5, Calm DEF MatchGone, config, tables, outcomes
  <1>3. ASSUME NEW k, RouteSuppressed(t, k) PROVE Proper'
    <2> DEFINE l == [thread[t] EXCEPT !.jobs = @ \ {k}]
    <2>1. thread' = [thread EXCEPT ![t] = l]
      BY <1>3 DEF RouteSuppressed
    <2>2. thread[t].task = "route" /\ l.task = "route" /\ l.row = 0
      BY <1>1, <1>3, RowOnlyInSends DEF RouteSuppressed, Take, Local
    <2> HIDE DEF l
    <2>3. Moving(t, l)
      BY <2>1, <2>2 DEF Moving
    <2> QED BY <1>3, <2>3, Calm DEF RouteSuppressed, config, tables, outcomes
  <1>4. ASSUME NEW k, RouteHeld(t, k) PROVE Proper'
    <2> DEFINE a == [thread[t] EXCEPT !.jobs = @ \ {k}]
               b == [thread[t] EXCEPT !.jobs = @ \ {k}, !.task = "insert", !.key = k]
               l == IF Queued(k) THEN a ELSE b
    <2>1. thread' = [thread EXCEPT ![t] = l]
      BY <1>4 DEF RouteHeld
    <2>2. thread[t].task = "route" /\ thread[t].row = 0
      BY <1>4, RowOnlyInSends DEF RouteHeld, Take
    <2>3. a.task = "route" /\ a.row = 0 /\ b.task = "insert" /\ b.row = 0
      BY <1>1, <2>2 DEF Local
    <2> HIDE DEF a, b
    <2>4. l.task \in {"route", "insert"} /\ l.row = 0
      BY <2>3
    <2> HIDE DEF l
    <2>5. Moving(t, l)
      BY <2>1, <2>2, <2>4 DEF Moving
    <2> QED BY <1>4, <2>5, Calm DEF RouteHeld, config, tables
  <1>5. ASSUME NEW k, RouteNow(t, k) PROVE Proper'
    <2> DEFINE l == Sending(t, k, 0)
    <2>1. thread' = [thread EXCEPT ![t] = l]
      BY <1>5 DEF RouteNow
    <2>2. thread[t].task = "route" /\ l.task = "send" /\ l.row = 0
      BY <1>1, <1>5 DEF RouteNow, Take, Local, Sending
    <2> HIDE DEF l
    <2>3. Moving(t, l)
      BY <2>1, <2>2 DEF Moving
    <2> QED BY <1>5, <2>3, Calm DEF RouteNow, config, tables
  <1>6. CASE Insert(t)
    <2> DEFINE l == [thread[t] EXCEPT !.task = "route", !.key = NoKey]
    <2>1. thread' = [thread EXCEPT ![t] = l]
      BY <1>6 DEF Insert
    <2>2. thread[t].task = "insert" /\ l.task = "route" /\ l.row = 0
      BY <1>1, <1>6, RowOnlyInSends DEF Insert, Local
    <2> HIDE DEF l
    <2>3. Moving(t, l)
      BY <2>1, <2>2 DEF Moving
    <2> QED BY <1>6, <2>3, Calm DEF Insert, config, outcomes
  <1> QED BY <1>2, <1>3, <1>4, <1>5, <1>6 DEF RouteStep

\* The check of the log: the send that begins is not in it, and another thread
\* at the same send is an excuse for both.
LEMMA CheckLogProper ==
  ASSUME Typed, Proper, NEW t \in Threads, NEW c, CheckLog(t, c)
  PROVE  Proper'
PROOF
  <1> DEFINE k == thread[t].key
             l == [thread[t] EXCEPT !.chans = @ \ {c}, !.to = {c}, !.task = "post"]
  <1>1. thread[t] \in Local /\ thread[t].task = "send" /\ <<k, c>> \notin log
    BY DEF CheckLog, Serve, Typed, Hands, Fit
  <1>2. thread' = [thread EXCEPT ![t] = l]
    BY DEF CheckLog
  <1>3. l.task = "post" /\ l.key = k /\ l.to = {c} /\ l.row = thread[t].row
    BY <1>1 DEF Local
  <1> HIDE DEF l
  <1>4. \A u \in Threads : thread'[u] = IF u = t THEN l ELSE thread[u]
    BY <1>2 DEF Typed, Hands
  <1>5. UNCHANGED <<status, live, log, told, overlap>> /\ excused \subseteq excused'
    BY DEF CheckLog, config, tables, outcomes
  <1>6. Senders(k, c) # {} => <<k, c>> \in excused'
    BY DEF CheckLog
  <1>7. LogIsComplete' /\ ToldOnce'
    BY <1>5 DEF Proper, Fresh, LogIsComplete, ToldOnce, Excused
  <1>8. SendsAreFresh'
    <2>1. ASSUME NEW u \in Threads, thread'[u].task = "post", NEW d \in thread'[u].to,
                 <<thread'[u].key, d>> \in log'
          PROVE  Excused(<<thread[u].key, d>>)' /\ u # t
      <3>1. u # t
        BY <1>1, <1>3, <1>4, <1>5, <2>1
      <3> QED BY <1>4, <1>5, <2>1, <3>1 DEF Proper, Fresh, SendsAreFresh, Excused
    <2>2. ASSUME NEW u \in Threads, thread'[u].task = "post", NEW d \in thread'[u].to,
                 NEW v \in Threads, v # u, thread'[v].task = "post",
                 thread'[v].key = thread'[u].key, d \in thread'[v].to
          PROVE  <<thread'[u].key, d>> \in excused'
      <3>1. CASE u # t /\ v # t
        <4>1. v \in Senders(thread[u].key, d) \ {u}
          BY <1>4, <2>2, <3>1 DEF Senders
        <4> QED BY <1>4, <1>5, <2>2, <3>1, <4>1 DEF Proper, Fresh, SendsAreFresh
      <3>2. CASE u = t
        <4>1. d = c /\ thread'[u].key = k /\ v \in Senders(k, c)
          BY <1>3, <1>4, <2>2, <3>2 DEF Senders
        <4> QED BY <1>6, <4>1
      <3>3. CASE v = t
        <4>1. d = c /\ thread'[u].key = k /\ u \in Senders(k, c)
          BY <1>3, <1>4, <2>2, <3>3 DEF Senders
        <4> QED BY <1>6, <4>1
      <3> QED BY <3>1, <3>2, <3>3
    <2> QED BY <2>1, <2>2 DEF SendsAreFresh, Senders
  <1>9. ReplaysAreSerial'
    <2>1. Runs \subseteq Threads
      BY DEF Threads
    <2>2. \A u \in Runs : thread'[u].task # "idle" => thread[u].task # "idle"
      BY <1>1, <1>4, <2>1
    <2>3. \A u \in Threads : thread'[u].row # 0 =>
            /\ thread'[u].task \in {"send", "post"}
            /\ thread[u].row # 0 /\ thread'[u].key = thread[u].key
      BY <1>3, <1>4 DEF Proper, ReplaysAreSerial
    <2> QED BY <1>5, <2>2, <2>3, SerialKept DEF Proper
  <1> QED BY <1>7, <1>8, <1>9 DEF Proper, Fresh

\* A delivery that is logged: it was in nobody else's hands and not told before,
\* short of the excuses.
LEMMA DeliverProper ==
  ASSUME Typed, Proper, NEW t \in Threads, NEW c, NEW ok \in BOOLEAN, Deliver(t, c, ok)
  PROVE  Proper'
PROOF
  <1> DEFINE k == thread[t].key
             x == <<k, c>>
             l == [thread[t] EXCEPT !.task = "send", !.to = {}]
  <1>1. thread[t] \in Local /\ thread[t].task = "post" /\ c \in thread[t].to /\ x \in Sends
    BY AnswerTyped DEF Deliver, Typed, Hands, Fit
  <1>2. l.task = "send" /\ l.key = k /\ l.row = thread[t].row
    BY <1>1 DEF Local
  <1>3. thread' = [thread EXCEPT ![t] = l]
    BY DEF Deliver
  <1> HIDE DEF l
  <1>4. \A u \in Threads : thread'[u] = IF u = t THEN l ELSE thread[u]
    BY <1>3 DEF Typed, Hands
  <1>5. UNCHANGED <<status, live, excused, overlap>>
    BY DEF Deliver, config
  <1>6. ReplaysAreSerial'
    <2>1. Runs \subseteq Threads
      BY DEF Threads
    <2>2. \A u \in Runs : thread'[u].task # "idle" => thread[u].task # "idle"
      BY <1>1, <1>4, <2>1
    <2>3. \A u \in Threads : thread'[u].row # 0 =>
            /\ thread'[u].task \in {"send", "post"}
            /\ thread[u].row # 0 /\ thread'[u].key = thread[u].key
      BY <1>2, <1>4 DEF Proper, ReplaysAreSerial
    <2> QED BY <1>5, <2>2, <2>3, SerialKept DEF Proper
  <1>7. \A u \in Threads : thread'[u].task = "post" => thread'[u] = thread[u] /\ u # t
    BY <1>2, <1>4
  <1>8. CASE ok = FALSE
    <2>1. UNCHANGED <<told, log>>
      BY <1>8 DEF Deliver, Answer
    <2> QED BY <1>5, <1>6, <1>7, <2>1, FreshKept DEF Proper
  <1>9. CASE ok = TRUE
    <2>1. log' = log \cup {x}
      BY <1>9 DEF Deliver
    <2>2. \A y \in Sends : y # x => told'[y] = told[y]
      BY <1>9 DEF Deliver, Answer, Typed, Tables
    <2>3. told[x] = 0 => told'[x] = 1
      BY <1>1, <1>9 DEF Deliver, Answer, Typed, Tables
    <2>4. \A y : Excused(y)' <=> Excused(y)
      BY <1>5 DEF Excused
    <2>5. LogIsComplete'
      BY <2>1, <2>2, <2>4 DEF Proper, Fresh, LogIsComplete
    <2>6. ~Excused(x) => told[x] = 0
      <3>1. x \in log => Excused(x)
        BY <1>1 DEF Proper, Fresh, SendsAreFresh
      <3>2. told[x] \in 0..2
        BY <1>1 DEF Typed, Tables
      <3> QED BY <1>1, <3>1, <3>2 DEF Proper, Fresh, LogIsComplete
    <2>7. ToldOnce'
      <3>1. ASSUME NEW y \in Sends, ~Excused(y) PROVE told'[y] <= 1
        BY <2>2, <2>3, <2>6, <3>1 DEF Proper, Fresh, ToldOnce
      <3> QED BY <2>4, <3>1 DEF ToldOnce
    <2>8. SendsAreFresh'
      <3>1. ASSUME NEW u \in Threads, thread'[u].task = "post", NEW d \in thread'[u].to
            PROVE  /\ <<thread'[u].key, d>> \in log' => Excused(<<thread[u].key, d>>)'
                   /\ \A v \in Senders(thread[u].key, d)' \ {u} :
                         <<thread'[u].key, d>> \in excused'
        <4>1. thread'[u] = thread[u] /\ u # t
          BY <1>7, <3>1
        <4>2. Senders(thread[u].key, d)' \subseteq Senders(thread[u].key, d)
          BY <1>7, <4>1 DEF Senders
        <4>3. <<thread[u].key, d>> = x => x \in excused
          <5>1. SUFFICES ASSUME thread[u].key = k, d = c PROVE x \in excused
            OBVIOUS
          <5>2. t \in Senders(thread[u].key, d) \ {u}
            BY <1>1, <4>1, <5>1 DEF Senders
          <5> QED BY <3>1, <4>1, <5>1, <5>2 DEF Proper, Fresh, SendsAreFresh
        <4> QED BY <1>5, <2>1, <2>4, <3>1, <4>1, <4>2, <4>3
                DEF Proper, Fresh, SendsAreFresh, Excused
      <3> QED BY <3>1 DEF SendsAreFresh
    <2> QED BY <1>6, <2>5, <2>7, <2>8 DEF Proper, Fresh
  <1> QED BY <1>8, <1>9

\* The other steps of _send_immediate begin no send.
LEMMA SendProper ==
  ASSUME Typed, Proper, NEW t \in Threads, SendStep(t)
  PROVE  Proper'
PROOF
  <1>1. thread[t] \in Local
    BY DEF Typed, Hands, Fit
  <1>2. ASSUME NEW c, SkipInactive(t, c) \/ SkipDuplicate(t, c) PROVE Proper'
    <2> DEFINE l == [thread[t] EXCEPT !.chans = @ \ {c}]
    <2>1. thread' = [thread EXCEPT ![t] = l]
      BY <1>2 DEF SkipInactive, SkipDuplicate
    <2>2. /\ thread[t].task = "send" /\ l.task = "send"
          /\ l.row = thread[t].row /\ l.key = thread[t].key
      BY <1>1, <1>2 DEF SkipInactive, SkipDuplicate, Serve, Local
    <2> HIDE DEF l
    <2>3. Moving(t, l)
      BY <2>1, <2>2 DEF Moving
    <2> QED BY <1>2, <2>3, Calm DEF SkipInactive, SkipDuplicate, config, tables, outcomes
  <1>3. CASE SendDone(t)
    <2> DEFINE x == IF thread[t].row = 0 THEN "route" ELSE "drain"
               l == [thread[t] EXCEPT !.task = x, !.key = NoKey, !.row = 0]
    <2>1. thread' = [thread EXCEPT ![t] = l]
      BY <1>3 DEF SendDone
    <2>2. x \in {"route", "drain"}
      OBVIOUS
    <2> HIDE DEF x
    <2>3. thread[t].task = "send" /\ l.task = x /\ l.row = 0
      BY <1>1, <1>3 DEF SendDone, Local
    <2> HIDE DEF l
    <2>4. Moving(t, l)
      BY <2>1, <2>2, <2>3 DEF Moving
    <2> QED BY <1>3, <2>4, Calm DEF SendDone, config, outcomes
  <1> QED BY <1>2, <1>3, CheckLogProper, DeliverProper DEF SendStep

\* process_delayed_queue replays a row when its package is active.
LEMMA DrainProper ==
  ASSUME Typed, Proper, NEW t \in Threads, DrainStep(t)
  PROVE  Proper'
PROOF
  <1>1. thread[t] \in Local
    BY DEF Typed, Hands, Fit
  <1>2. CASE ReadDue(t)
    <2> DEFINE b == {i \in 1..Len(rows) : rows[i].due /\ rows[i].state = "pending"}
               l == [thread[t] EXCEPT !.task = "drain", !.kind = "new", !.batch = b]
    <2>1. thread' = [thread EXCEPT ![t] = l]
      BY <1>2 DEF ReadDue
    <2> HIDE DEF b
    <2>2. thread[t].task = "route" /\ l.task = "drain" /\ l.row = 0
      BY <1>1, <1>2, RowOnlyInSends DEF ReadDue, Routed, Local
    <2> HIDE DEF l
    <2>3. Moving(t, l)
      BY <2>1, <2>2 DEF Moving
    <2> QED BY <1>2, <2>3, Calm DEF ReadDue, config, tables, outcomes
  <1>3. ASSUME NEW i, DropRow(t, i) \/ PostponeRow(t, i) PROVE Proper'
    <2> DEFINE l == [thread[t] EXCEPT !.batch = @ \ {i}]
    <2>1. thread' = [thread EXCEPT ![t] = l]
      BY <1>3 DEF DropRow, PostponeRow
    <2>2. thread[t].task = "drain" /\ l.task = "drain" /\ l.row = 0
      BY <1>1, <1>3, RowOnlyInSends DEF DropRow, PostponeRow, Turn, Local
    <2> HIDE DEF l
    <2>3. Moving(t, l)
      BY <2>1, <2>2 DEF Moving
    <2> QED BY <1>3, <2>3, Calm DEF DropRow, PostponeRow, config, tables, outcomes
  <1>4. ASSUME NEW i, ReplayRow(t, i) PROVE Proper'
    <2> DEFINE k == rows[i].key
               l == Sending(t, k, i)
    <2>1. thread' = [thread EXCEPT ![t] = l]
      BY <1>4 DEF ReplayRow
    <2>2. thread[t].task = "drain" /\ status[k[1]] = "active"
      BY <1>4 DEF ReplayRow, Turn
    <2> HIDE DEF k
    <2>3. l.task = "send" /\ l.key = k
      BY <1>1 DEF Sending, Local
    <2> HIDE DEF l
    <2>4. Moving(t, l)
      BY <2>1, <2>2, <2>3 DEF Moving
    <2> QED BY <1>4, <2>4, Calm DEF ReplayRow, config, tables, outcomes
  <1>5. CASE Finish(t)
    <2>1. Moving(t, Idle)
      BY <1>5, IdleFacts DEF Finish, Moving
    <2> QED BY <1>5, <2>1, Calm DEF Finish, config, tables, outcomes
  <1> QED BY <1>2, <1>3, <1>4, <1>5 DEF DrainStep

\* A send that could not be logged is an excuse for its event and channel.
LEMMA FaultProper ==
  ASSUME Typed, Proper, NEW t \in Threads, Fault(t)
  PROVE  Proper'
PROOF
  <1>1. CASE Dies(t)
    <2>1. Moving(t, Idle)
      BY <1>1, IdleFacts DEF Dies, Ends, Moving
    <2> QED BY <1>1, <2>1, Calm DEF Dies, config, tables
  <1>2. ASSUME NEW c \in Channels, NEW ok \in BOOLEAN, DeliverUnlogged(t, c, ok)
        PROVE  Proper'
    <2> DEFINE x == <<thread[t].key, c>>
    <2>1. x \in Sends /\ thread[t].task = "post"
      BY <1>2, AnswerTyped DEF DeliverUnlogged
    <2>2. UNCHANGED <<status, live, log, overlap>>
      BY <1>2 DEF DeliverUnlogged, config, tables
    <2>3. \A y \in Sends : y # x => told'[y] = told[y]
      BY <1>2 DEF DeliverUnlogged, Answer, Typed, Tables
    <2>4. excused \subseteq excused' /\ (x \in excused' \/ told' = told)
      BY <1>2 DEF DeliverUnlogged, Answer
    <2>5. \A u \in Threads : thread'[u] = IF u = t THEN Idle ELSE thread[u]
      BY <1>2 DEF DeliverUnlogged, Ends, Typed, Hands
    <2>6. \A u \in Threads :
             thread'[u] = thread[u] \/ (thread'[u].task = "idle" /\ thread'[u].row = 0)
      BY <2>5, IdleFacts
    <2>7. Fresh'
      <3>1. \A y \in Sends : ~Excused(y)' => told'[y] = told[y]
        BY <2>3, <2>4 DEF Excused
      <3>2. \A u \in Threads : thread'[u].task = "post" => thread'[u] = thread[u]
        BY <2>6
      <3> QED BY <2>2, <2>4, <3>1, <3>2, FreshKept DEF Proper
    <2>8. ReplaysAreSerial'
      <3>1. \A u \in Runs : thread'[u].task # "idle" => thread[u].task # "idle"
        BY <2>6 DEF Threads
      <3>2. \A u \in Threads : thread'[u].row # 0 =>
            /\ thread'[u].task \in {"send", "post"}
            /\ thread[u].row # 0 /\ thread'[u].key = thread[u].key
        BY <2>6 DEF Proper, ReplaysAreSerial
      <3> QED BY <2>2, <3>1, <3>2, SerialKept DEF Proper
    <2> QED BY <2>7, <2>8 DEF Proper
  <1> QED BY <1>1, <1>2 DEF Fault

\* A collection that moves a package which another run may be replaying overlaps
\* with that run.
LEMMA CollectProper ==
  ASSUME Typed, Proper, NEW t \in Runs, Collect(t)
  PROVE  Proper'
PROOF
  <1>1. PICK l : l.task = "route" /\ l.row = 0 /\ thread' = [thread EXCEPT ![t] = l]
    <2>1. PICK gone, jobs :
             thread' = [thread EXCEPT ![t] =
                [Idle EXCEPT !.task = "route", !.gone = gone, !.jobs = jobs]]
      BY DEF Collect
    <2> DEFINE l == [Idle EXCEPT !.task = "route", !.gone = gone, !.jobs = jobs]
    <2>2. l.task = "route" /\ l.row = 0
      BY IdleFacts DEF Local
    <2> HIDE DEF l
    <2> QED BY <2>1, <2>2 DEF l
  <1>2. t \in Threads /\ Runs \subseteq Threads
    BY DEF Threads
  <1>3. \A u \in Threads : thread'[u] = IF u = t THEN l ELSE thread[u]
    BY <1>1, <1>2 DEF Typed, Hands
  <1>4. UNCHANGED <<live, log, told, excused>>
    BY DEF Collect, config, tables, outcomes
  <1>5. Fresh'
    <2>1. \A u \in Threads : thread'[u].task = "post" => thread'[u] = thread[u]
      BY <1>1, <1>3
    <2> QED BY <1>4, <2>1, FreshKept DEF Proper
  <1>6. /\ overlap => overlap'
        /\ \A u \in Runs \ {t} : thread[u].task # "idle" => overlap'
    BY DEF Collect
  <1>7. ReplaysAreSerial'
    <2>1. ASSUME NEW u \in Runs, NEW v \in Runs, u # v,
                 thread'[u].task # "idle", thread'[v].task # "idle"
          PROVE  overlap'
      BY <1>2, <1>3, <1>6, <2>1 DEF Proper, ReplaysAreSerial
    <2>2. ASSUME NEW u \in Threads, thread'[u].row # 0
          PROVE  thread'[u].task \in {"send", "post"} /\ overlap'
      <3>1. u # t /\ thread'[u] = thread[u]
        BY <1>1, <1>3, <2>2
      <3>2. u \in Runs /\ thread[u].task \in {"send", "post"}
        BY <2>2, <3>1, RowOnlyInSends DEF Typed, Hands, Fit, Threads
      <3> QED BY <1>6, <3>1, <3>2
    <2> QED BY <2>1, <2>2 DEF ReplaysAreSerial
  <1> QED BY <1>5, <1>7 DEF Proper

\* The resend button starts a request, which is no run.
LEMMA ResendProper ==
  ASSUME Typed, Proper, NEW t \in Requests, Resend(t)
  PROVE  Proper'
PROOF
  <1>1. PICK jobs : thread' = [thread EXCEPT ![t] =
                                 [Idle EXCEPT !.task = "route", !.jobs = jobs]]
    BY DEF Resend
  <1> DEFINE l == [Idle EXCEPT !.task = "route", !.jobs = jobs]
  <1>2. l.task = "route" /\ l.row = 0
    BY IdleFacts DEF Local
  <1>3. t \in Threads /\ t \notin Runs
    BY RouterAssumption DEF Threads
  <1> HIDE DEF l
  <1>4. Moving(t, l)
    BY <1>1, <1>2, <1>3 DEF Moving, l
  <1> QED BY <1>3, <1>4, Calm DEF Resend, config, tables, outcomes

\* A deleted rule and a cleared log are excuses for what they remove.
LEMMA AdministratorProper ==
  ASSUME Typed, Proper, Administrator
  PROVE  Proper'
PROOF
  <1>1. ASSUME NEW r \in Rules, DeleteRule(r) PROVE Proper'
    <2>1. live' \subseteq live /\ log' \subseteq log
      BY <1>1 DEF DeleteRule
    <2>2. \A x \in log : x \in log' \/ Excused(x)'
      BY <1>1 DEF DeleteRule, Excused
    <2> QED BY <1>1, <2>1, <2>2, Still DEF DeleteRule, Change, outcomes
  <1>2. ASSUME NEW r \in Rules, ToggleRule(r) PROVE Proper'
    BY <1>2, Still DEF ToggleRule, Change, outcomes, tables
  <1>3. ASSUME NEW c \in Channels, ToggleChannel(c) PROVE Proper'
    BY <1>3, Still DEF ToggleChannel, Change, outcomes, tables
  <1>4. CASE ToggleMaintenance
    BY <1>4, Still DEF ToggleMaintenance, Change, outcomes, tables
  <1>5. CASE ClearHistory
    <2>1. log' \subseteq log /\ excused \subseteq excused'
      BY <1>5 DEF ClearHistory
    <2>2. \A x \in log : x \in log' \/ Excused(x)'
      BY <1>5 DEF ClearHistory, Excused
    <2> QED BY <1>5, <2>1, <2>2, Still DEF ClearHistory, Change, outcomes
  <1> QED BY <1>1, <1>2, <1>3, <1>4, <1>5 DEF Administrator

\* The clock touches no send.
LEMMA ClockProper ==
  ASSUME Proper, Clock
  PROVE  Proper'
PROOF
  <1>1. ASSUME NEW r \in Rules, OpenOrShut(r) PROVE Proper'
    BY <1>1, Still DEF OpenOrShut, config, tables, outcomes
  <1>2. CASE IntervalPasses
    BY <1>2, Still DEF IntervalPasses, config, tables, outcomes
  <1>3. ASSUME NEW i, ComesDue(i) PROVE Proper'
    BY <1>3, Still DEF ComesDue, config, outcomes
  <1> QED BY <1>1, <1>2, <1>3 DEF Clock

\* Every step keeps the invariant of the sends and of the replays.
LEMMA ProperStep ==
  ASSUME Typed, Proper, [Next]_vars
  PROVE  Proper'
PROOF
  <1>1. ASSUME NEW t \in Threads, Step(t) PROVE Proper'
    BY <1>1, RouteProper, SendProper, DrainProper DEF Step
  <1>2. CASE UNCHANGED vars
    BY <1>2, Still DEF vars
  <1> QED BY <1>1, <1>2, FaultProper, CollectProper, ResendProper, AdministratorProper,
             ClockProper DEF Next

\* At first nothing is sent.
LEMMA InitProper == Init => Proper
PROOF
  <1> SUFFICES ASSUME Init PROVE Proper
    OBVIOUS
  <1>1. \A t \in Threads : thread[t].task = "idle" /\ thread[t].row = 0
    BY IdleFacts DEF Init
  <1>2. \A x \in Sends : told[x] = 0
    BY DEF Init
  <1>3. Fresh
    BY <1>1, <1>2 DEF Fresh, LogIsComplete, SendsAreFresh, ToldOnce
  <1>4. ReplaysAreSerial
    BY <1>1 DEF ReplaysAreSerial, Threads
  <1> QED BY <1>3, <1>4 DEF Proper

\* The inductive invariant of the sends and the replays.
THEOREM Invariance == Spec => []RInv
PROOF
  <1>1. Init => Typed /\ Proper
    BY InitTyped, InitProper
  <1>2. Typed /\ Proper /\ [Next]_vars => (Typed /\ Proper)'
    BY TypedStep, ProperStep
  <1>3. Typed /\ Proper => RInv
    BY Parts DEF Typed, Proper, Fresh, RInv
  <1> QED BY <1>1, <1>2, <1>3, PTL DEF Spec

\* A channel of a rule hears of an event once at most, whatever the immediate
\* sends, replays, retries and resends, short of the named excuses.
THEOREM Told == Spec => []ToldOnce
PROOF
  <1>1. RInv => ToldOnce
    BY DEF RInv
  <1> QED BY <1>1, Invariance, PTL

\* While runs do not overlap, process_delayed_queue sends no package that has
\* left the active state since its row was read.
THEOREM Replays == Spec => ReplaysAreActive
PROOF
  <1>1. RInv /\ [Next]_vars =>
          [\A t \in Threads, c \in Channels :
              CheckLog(t, c) /\ thread[t].row # 0 /\ ~overlap
                  => status[thread[t].key[1]] = "active"]_vars
    BY DEF RInv, ReplaysAreSerial
  <1> QED BY <1>1, Invariance, PTL DEF Spec, ReplaysAreActive

------------------------------------------------------------------------------
(***************************************************************************)
(* No event is forgotten.                                                  *)
(***************************************************************************)

\* The event that a thread in local state l has in hand and no queue holds.
Holds(l) == IF l.key # NoKey /\ l.row = 0 /\ l.kind = "new" THEN {l.key} ELSE {}

\* What a thread holds.
LEMMA HoldsFacts ==
  /\ \A t \in Threads : InHand(t) = Holds(thread[t])
  /\ \A l : l.key = NoKey \/ l.row # 0 => Holds(l) = {}
  /\ \A k \in Keys : k # NoKey
PROOF
  <1>1. \A k \in Keys : k # NoKey
    BY DEF Keys, NoKey
  <1> QED BY <1>1 DEF InHand, Holds

\* A send that was tried stays tried, and the rows keep their events.
Later ==
    /\ TriedSends \subseteq TriedSends'
    /\ \A i \in 1..Len(rows) : i \in 1..Len(rows') /\ rows'[i].key = rows[i].key

\* More sends and rows leave what a thread works on true.
LEMMA LaterWorks ==
  ASSUME Later, NEW l, Works(l, rows, TriedSends)
  PROVE  Works(l, rows', TriedSends')
PROOF
  BY DEF Later, Works

\* What is settled stays settled, but for the queues.
LEMMA SettledKept ==
  ASSUME Typed, Later, NEW k \in Keys, Settled(k),
         live' \subseteq live, dropped \subseteq dropped', lost \subseteq lost',
         PendingIn(rows, k) => Settled(k)', k \in digest => Settled(k)'
  PROVE  Settled(k)'
PROOF
  <1>1. CASE PendingIn(rows, k) \/ k \in digest
    BY <1>1
  <1>2. CASE \A c \in Bound[k[3]] : Tried(<<k, c>>)
    <2>1. Bound[k[3]] \subseteq Channels
      BY KeyParts, RouterAssumption
    <2>2. \A c \in Bound[k[3]] : <<k, c>> \in TriedSends
      BY <1>2, <2>1 DEF TriedSends, Sends
    <2>3. \A c \in Bound[k[3]] : <<k, c>> \in TriedSends'
      BY <2>2 DEF Later
    <2>4. \A c \in Bound[k[3]] : Tried(<<k, c>>)'
      BY <2>3 DEF TriedSends
    <2> QED BY <2>4 DEF Settled
  <1>3. CASE k \in dropped \cup lost \/ k[3] \notin live
    BY <1>3 DEF Settled
  <1> QED BY <1>1, <1>2, <1>3 DEF Settled

\* Thread t goes on in local state l; what it had in hand and what a queue held
\* is still in hand or settled, and so is what the router takes over.
LEMMA MoveTidy ==
  ASSUME Typed, EventsInv, NEW t \in Threads, NEW l, thread' = [thread EXCEPT ![t] = l],
         Works(l, rows', TriedSends'), Later, \A x \in log' : told'[x] > 0,
         live' \subseteq live, dropped \subseteq dropped', lost \subseteq lost',
         \A k \in Holds(thread[t]) : k \in Holds(l) \/ Settled(k)',
         \A k \in Keys : PendingIn(rows, k) => Settled(k)',
         \A k \in Keys : k \in digest => Settled(k)',
         \A k \in owed' : k \in owed \/ k \in Holds(l) \/ Settled(k)'
  PROVE  EventsInv'
PROOF
  <1>1. \A u \in Threads : thread'[u] = IF u = t THEN l ELSE thread[u]
    BY DEF Typed, Hands
  <1>2. SendsAreTried'
    <2>1. ASSUME NEW u \in Threads PROVE Works(thread'[u], rows', TriedSends')
      <3>1. CASE u = t
        BY <1>1, <3>1
      <3>2. CASE u # t
        BY <1>1, <3>2, LaterWorks DEF EventsInv, SendsAreTried
      <3> QED BY <3>1, <3>2
    <2> QED BY <2>1 DEF SendsAreTried
  <1>3. \A u \in Threads : InHand(u)' = Holds(thread'[u])
    BY DEF InHand, Holds
  <1>4. ASSUME NEW k \in owed' PROVE InHands(k)' \/ Settled(k)'
    <2>1. CASE k \in Holds(l)
      BY <1>1, <1>3, <2>1 DEF InHands
    <2>2. CASE k \in owed
      <3>1. k \in Keys
        BY <2>2 DEF Typed, Tables
      <3>2. CASE Settled(k)
        BY <3>1, <3>2, SettledKept
      <3>3. ASSUME NEW u \in Threads, k \in InHand(u) PROVE InHands(k)' \/ Settled(k)'
        <4>1. k \in Holds(thread[u])
          BY <3>3, HoldsFacts
        <4>2. CASE u = t
          BY <2>1, <4>1, <4>2
        <4>3. CASE u # t
          BY <1>1, <1>3, <4>1, <4>3 DEF InHands
        <4> QED BY <4>2, <4>3
      <3> QED BY <2>2, <3>2, <3>3 DEF EventsInv, EventsAccounted, InHands
    <2> QED BY <2>1, <2>2
  <1> QED BY <1>2, <1>4 DEF EventsInv, EventsAccounted, SendsAreTried

\* The queues and the outcomes stand still.
LEMMA StandStill ==
  ASSUME UNCHANGED <<rows, told, missed>>
  PROVE  Later /\ TriedSends' = TriedSends
PROOF
  BY DEF Later, TriedSends, Tried

\* A step of thread t that touches no queue and no outcome.
LEMMA QuietTidy ==
  ASSUME Typed, EventsInv, NEW t \in Threads, NEW l, thread' = [thread EXCEPT ![t] = l],
         Works(l, rows, TriedSends), UNCHANGED <<rows, digest, log, live, outcomes>>,
         Holds(thread[t]) \subseteq Holds(l)
  PROVE  EventsInv'
PROOF
  <1>1. UNCHANGED <<told, missed, owed, dropped, lost>>
    BY DEF outcomes
  <1>2. Later /\ TriedSends' = TriedSends
    BY <1>1, StandStill
  <1>3. \A k \in Keys : PendingIn(rows, k) => Settled(k)'
    BY DEF Settled
  <1>4. \A k \in Keys : k \in digest => Settled(k)'
    BY DEF Settled
  <1>5. \A x \in log' : told'[x] > 0
    BY <1>1 DEF EventsInv, SendsAreTried
  <1> QED BY <1>1, <1>2, <1>3, <1>4, <1>5, MoveTidy

\* The local states that need no argument: nothing in hand, nothing to send.
LEMMA FreeWorks ==
  ASSUME NEW l, NEW q, NEW T, l.task \in {"idle", "route", "drain"}, l.key = NoKey, l.row = 0,
         \A c, d \in l.to : c = d
  PROVE  Works(l, q, T)
PROOF
  BY DEF Works

\* A thread that routes, drains or is idle holds nothing.
LEMMA FreeHands ==
  ASSUME Typed, Proper, EventsInv, NEW t \in Threads, thread[t].task \in {"idle", "route", "drain"}
  PROVE  /\ thread[t].key = NoKey /\ thread[t].row = 0 /\ Holds(thread[t]) = {}
         /\ \A c, d \in thread[t].to : c = d
PROOF
  <1>1. thread[t].key = NoKey /\ \A c, d \in thread[t].to : c = d
    BY DEF EventsInv, SendsAreTried, Works
  <1>2. thread[t].row = 0
    BY RowOnlyInSends
  <1> QED BY <1>1, <1>2, HoldsFacts

\* A thread begins to send an event, with all channels of the rule ahead of it.
LEMMA SendingWorks ==
  ASSUME Typed, Proper, EventsInv, NEW t \in Threads, thread[t].task \in {"route", "drain"},
         NEW k, NEW i, i = 0 \/ (i \in 1..Len(rows) /\ rows[i].key = k), NEW q, NEW T, q = rows
  PROVE  /\ Works(Sending(t, k, i), q, T)
         /\ k \in Keys /\ i = 0 /\ thread[t].kind = "new" => k \in Holds(Sending(t, k, i))
PROOF
  <1> DEFINE h == thread[t]
             l == Sending(t, k, i)
  <1>1. h \in Local /\ \A c, d \in h.to : c = d
    BY FreeHands DEF Typed, Hands, Fit
  <1>2. /\ l.task = "send" /\ l.key = k /\ l.row = i /\ l.chans = Bound[k[3]] /\ l.to = h.to
        /\ l.kind = h.kind
    BY <1>1 DEF Sending, Local
  <1> HIDE DEF l, h
  <1>3. Works(l, q, T)
    BY <1>1, <1>2 DEF Works
  <1>4. k \in Keys /\ i = 0 /\ h.kind = "new" => k \in Holds(l)
    BY <1>2, HoldsFacts DEF Holds
  <1> QED BY <1>3, <1>4 DEF l, h

\* Thread t, which holds nothing, goes on to route, to drain or to rest.
LEMMA FreeTidy ==
  ASSUME Typed, Proper, EventsInv, NEW t \in Threads, NEW l, thread' = [thread EXCEPT ![t] = l],
         thread[t].task \in {"idle", "route", "drain"},
         l.task \in {"idle", "route", "drain"}, l.key = NoKey, l.row = 0,
         l.to \subseteq thread[t].to,
         UNCHANGED <<rows, digest, log, live, outcomes>>
  PROVE  EventsInv'
PROOF
  <1>1. Holds(thread[t]) = {} /\ \A c, d \in thread[t].to : c = d
    BY FreeHands
  <1>2. \A c, d \in l.to : c = d
    BY <1>1
  <1>3. Works(l, rows, TriedSends)
    BY <1>2, FreeWorks
  <1> QED BY <1>1, <1>3, QuietTidy

\* The steps of a thread that holds nothing and takes nothing.
LEMMA MatchGoneTidy ==
  ASSUME Typed, Proper, EventsInv, NEW t \in Threads, MatchGone(t)
  PROVE  EventsInv'
PROOF
  <1>1. PICK s : thread' = [thread EXCEPT ![t].kind = "gone", ![t].jobs = GoneMatches(s),
                                          ![t].gone = @ \ {s}]
    BY DEF MatchGone
  <1> DEFINE j == GoneMatches(s)
             h == thread[t]
             l == [h EXCEPT !.kind = "gone", !.jobs = j, !.gone = @ \ {s}]
  <1>2. h \in Local /\ h.task = "route" /\ h.key = NoKey /\ h.row = 0
    BY FreeHands DEF MatchGone, Typed, Hands, Fit
  <1>3. thread' = [thread EXCEPT ![t] = l]
    BY <1>1
  <1> HIDE DEF j, h
  <1>4. l.task = "route" /\ l.key = NoKey /\ l.row = 0 /\ l.to = h.to
    BY <1>2 DEF Local
  <1> HIDE DEF l
  <1> QED BY <1>2, <1>3, <1>4, FreeTidy DEF MatchGone, config, tables, h

\* An event that is dropped for its status is accounted for,
LEMMA RouteSuppressedTidy ==
  ASSUME Typed, Proper, EventsInv, NEW t \in Threads, NEW k, RouteSuppressed(t, k)
  PROVE  EventsInv'
PROOF
  <1> DEFINE h == thread[t]
             l == [h EXCEPT !.jobs = @ \ {k}]
  <1>2. h \in Local /\ h.task = "route" /\ h.key = NoKey /\ h.row = 0
    BY FreeHands DEF RouteSuppressed, Take, Typed, Hands, Fit
  <1>3. thread' = [thread EXCEPT ![t] = l]
    BY DEF RouteSuppressed
  <1> HIDE DEF h
  <1>4. l.task = "route" /\ l.key = NoKey /\ l.row = 0 /\ l.to = h.to
    BY <1>2 DEF Local
  <1> HIDE DEF l
  <1> QED BY <1>2, <1>3, <1>4, FreeTidy DEF RouteSuppressed, config, tables, h

\* reading the queue loses nothing,
LEMMA ReadDueTidy ==
  ASSUME Typed, Proper, EventsInv, NEW t \in Threads, ReadDue(t)
  PROVE  EventsInv'
PROOF
  <1> DEFINE h == thread[t]
             b == {i \in 1..Len(rows) : rows[i].due /\ rows[i].state = "pending"}
             l == [h EXCEPT !.task = "drain", !.kind = "new", !.batch = b]
  <1>2. h \in Local /\ h.task = "route" /\ h.key = NoKey /\ h.row = 0
    BY FreeHands DEF ReadDue, Routed, Typed, Hands, Fit
  <1>3. thread' = [thread EXCEPT ![t] = l]
    BY DEF ReadDue
  <1> HIDE DEF h, b
  <1>4. l.task = "drain" /\ l.key = NoKey /\ l.row = 0 /\ l.to = h.to
    BY <1>2 DEF Local
  <1> HIDE DEF l
  <1> QED BY <1>2, <1>3, <1>4, FreeTidy DEF ReadDue, config, tables, h

\* nor does postponing a row,
LEMMA PostponeRowTidy ==
  ASSUME Typed, Proper, EventsInv, NEW t \in Threads, NEW i, PostponeRow(t, i)
  PROVE  EventsInv'
PROOF
  <1> DEFINE h == thread[t]
             l == [h EXCEPT !.batch = @ \ {i}]
  <1>2. h \in Local /\ h.task = "drain" /\ h.key = NoKey /\ h.row = 0
    BY FreeHands DEF PostponeRow, Turn, Typed, Hands, Fit
  <1>3. thread' = [thread EXCEPT ![t] = l]
    BY DEF PostponeRow
  <1> HIDE DEF h
  <1>4. l.task = "drain" /\ l.key = NoKey /\ l.row = 0 /\ l.to = h.to
    BY <1>2 DEF Local
  <1> HIDE DEF l
  <1> QED BY <1>2, <1>3, <1>4, FreeTidy DEF PostponeRow, config, tables, h

\* What an idle thread has in hand: nothing.
LEMMA IdleHands == Idle.task = "idle" /\ Idle.key = NoKey /\ Idle.row = 0 /\ Idle.to = {}
PROOF
  BY DEF Idle

\* a finished thread holds nothing,
LEMMA FinishTidy ==
  ASSUME Typed, Proper, EventsInv, NEW t \in Threads, Finish(t)
  PROVE  EventsInv'
PROOF
  <1>1. thread[t].task \in {"route", "drain"}
    BY DEF Finish, Routed
  <1>2. thread' = [thread EXCEPT ![t] = Idle]
    BY DEF Finish
  <1> QED BY <1>1, <1>2, IdleHands, FreeTidy DEF Finish, config, tables

\* a collection starts with its own events,
LEMMA CollectTidy ==
  ASSUME Typed, Proper, EventsInv, NEW t \in Runs, Collect(t)
  PROVE  EventsInv'
PROOF
  <1>1. PICK g, j : thread' = [thread EXCEPT ![t] =
                                 [Idle EXCEPT !.task = "route", !.gone = g, !.jobs = j]]
    BY DEF Collect
  <1> DEFINE l == [Idle EXCEPT !.task = "route", !.gone = g, !.jobs = j]
  <1>2. l.task = "route" /\ l.key = NoKey /\ l.row = 0 /\ l.to = {}
    BY DEF Idle
  <1> HIDE DEF l
  <1>3. t \in Threads /\ thread[t].task = "idle" /\ thread' = [thread EXCEPT ![t] = l]
    BY <1>1 DEF Collect, Threads, l
  <1> QED BY <1>2, <1>3, FreeTidy DEF Collect, config, tables

\* a resend takes over no event,
LEMMA ResendTidy ==
  ASSUME Typed, Proper, EventsInv, NEW t \in Requests, Resend(t)
  PROVE  EventsInv'
PROOF
  <1>1. PICK j : thread' = [thread EXCEPT ![t] = [Idle EXCEPT !.task = "route", !.jobs = j]]
    BY DEF Resend
  <1> DEFINE l == [Idle EXCEPT !.task = "route", !.jobs = j]
  <1>2. l.task = "route" /\ l.key = NoKey /\ l.row = 0 /\ l.to = {}
    BY DEF Idle
  <1> HIDE DEF l
  <1>3. t \in Threads /\ thread[t].task = "idle" /\ thread' = [thread EXCEPT ![t] = l]
    BY <1>1 DEF Resend, Threads, l
  <1> QED BY <1>2, <1>3, FreeTidy DEF Resend, config, tables

\* A row is replayed: the event stays in the queue while it is sent.
LEMMA ReplayRowTidy ==
  ASSUME Typed, Proper, EventsInv, NEW t \in Threads, NEW i \in thread[t].batch, ReplayRow(t, i)
  PROVE  EventsInv'
PROOF
  <1> DEFINE k == rows[i].key
             l == Sending(t, k, i)
  <1>1. thread[t].task = "drain"
    BY DEF ReplayRow, Turn
  <1>2. i \in 1..Len(rows)
    BY DueRow
  <1>3. Holds(thread[t]) = {}
    BY <1>1, FreeHands
  <1>4. Works(l, rows, TriedSends)
    BY <1>1, <1>2, SendingWorks
  <1>5. thread' = [thread EXCEPT ![t] = l]
    BY DEF ReplayRow
  <1> HIDE DEF l
  <1> QED BY <1>3, <1>4, <1>5, QuietTidy DEF ReplayRow, config, tables

\* A step of thread t that touches no queue; it may add to what was tried and to
\* what is lost.
LEMMA TryTidy ==
  ASSUME Typed, EventsInv, NEW t \in Threads, NEW l, thread' = [thread EXCEPT ![t] = l],
         Works(l, rows, TriedSends'), TriedSends \subseteq TriedSends',
         UNCHANGED <<rows, digest, live, owed, dropped>>, lost \subseteq lost',
         \A x \in log' : told'[x] > 0,
         \A k \in Holds(thread[t]) : k \in Holds(l) \/ k \in lost'
  PROVE  EventsInv'
PROOF
  <1>1. Later
    BY DEF Later
  <1>2. \A k \in Keys : PendingIn(rows, k) => Settled(k)'
    BY DEF Settled
  <1>3. \A k \in Keys : k \in digest => Settled(k)'
    BY DEF Settled
  <1>4. \A k \in lost' : Settled(k)'
    BY DEF Settled
  <1>5. Works(l, rows', TriedSends')
    OBVIOUS
  <1> QED BY <1>1, <1>2, <1>3, <1>4, <1>5, MoveTidy

\* What a thread that sends has in hand.
LEMMA SendHands ==
  ASSUME Typed, EventsInv, NEW t \in Threads, thread[t].task \in {"send", "post"}
  PROVE  /\ thread[t] \in Local /\ thread[t].key \in Keys
         /\ Works(thread[t], rows, TriedSends)
         /\ \A c \in Bound[thread[t].key[3]] : c \in Channels
PROOF
  <1>1. thread[t] \in Local /\ thread[t].key \in Keys
    BY DEF Typed, Hands, Fit
  <1>2. \A c \in Bound[thread[t].key[3]] : c \in Channels
    BY <1>1, KeyParts, RouterAssumption
  <1> QED BY <1>1, <1>2 DEF EventsInv, SendsAreTried

\* One channel less ahead, since it was tried before or is tried now.
LEMMA ServedWorks ==
  ASSUME Typed, EventsInv, NEW t \in Threads, thread[t].task = "send", NEW c, NEW T,
         TriedSends \subseteq T, <<thread[t].key, c>> \in T
  PROVE  LET l == [thread[t] EXCEPT !.chans = @ \ {c}] IN
         Works(l, rows, T) /\ Holds(l) = Holds(thread[t])
PROOF
  <1> DEFINE h == thread[t]
             l == [h EXCEPT !.chans = @ \ {c}]
             q == rows
  <1>1. h \in Local /\ Works(h, q, TriedSends) /\ h.task = "send"
    BY SendHands
  <1> DEFINE k == h.key
  <1>2. <<k, c>> \in T
    OBVIOUS
  <1> HIDE DEF h, q
  <1>3. /\ l.task = "send" /\ l.key = k /\ l.row = h.row /\ l.chans = h.chans \ {c}
        /\ l.to = h.to /\ l.kind = h.kind
    BY <1>1 DEF Local
  <1> HIDE DEF l
  <1>4. Works(l, q, T)
    BY <1>1, <1>2, <1>3 DEF Works
  <1>5. Holds(l) = Holds(h)
    BY <1>3 DEF Holds
  <1> QED BY <1>4, <1>5 DEF l, h, q

\* A channel that the log has was told.
LEMMA SkipDuplicateTidy ==
  ASSUME Typed, EventsInv, NEW t \in Threads, NEW c, SkipDuplicate(t, c)
  PROVE  EventsInv'
PROOF
  <1> DEFINE l == [thread[t] EXCEPT !.chans = @ \ {c}]
  <1>1. thread[t].task = "send" /\ <<thread[t].key, c>> \in log
    BY DEF SkipDuplicate, Serve
  <1>2. <<thread[t].key, c>> \in TriedSends
    BY <1>1 DEF Typed, Tables, EventsInv, SendsAreTried, TriedSends, Tried
  <1>3. Works(l, rows, TriedSends) /\ Holds(l) = Holds(thread[t])
    BY <1>1, <1>2, ServedWorks
  <1>4. thread' = [thread EXCEPT ![t] = l]
    BY DEF SkipDuplicate
  <1> HIDE DEF l
  <1> QED BY <1>3, <1>4, QuietTidy DEF SkipDuplicate, config, tables

\* A channel that is switched off counts as tried.
LEMMA SkipInactiveTidy ==
  ASSUME Typed, EventsInv, NEW t \in Threads, NEW c, SkipInactive(t, c)
  PROVE  EventsInv'
PROOF
  <1> DEFINE l == [thread[t] EXCEPT !.chans = @ \ {c}]
  <1>1. thread[t].task = "send" /\ c \in thread[t].chans
    BY DEF SkipInactive, Serve
  <1>2. <<thread[t].key, c>> \in Sends
    BY <1>1, SendHands DEF Local, Sends
  <1>3. UNCHANGED <<rows, digest, log, live, told, owed, dropped, lost>>
    BY DEF SkipInactive, config, tables
  <1>4. <<thread[t].key, c>> \in TriedSends' /\ TriedSends \subseteq TriedSends'
    BY <1>2, <1>3 DEF SkipInactive, TriedSends, Tried
  <1>5. PICK T : T = TriedSends'
    OBVIOUS
  <1>6. Works(l, rows, T) /\ Holds(l) = Holds(thread[t])
    BY <1>1, <1>4, <1>5, ServedWorks
  <1>7. thread' = [thread EXCEPT ![t] = l]
    BY DEF SkipInactive
  <1>8. \A x \in log' : told'[x] > 0
    BY <1>3 DEF EventsInv, SendsAreTried
  <1> HIDE DEF l
  <1> QED BY <1>3, <1>4, <1>5, <1>6, <1>7, <1>8, TryTidy

\* A send begins: its channel is in progress.
LEMMA CheckLogTidy ==
  ASSUME Typed, EventsInv, NEW t \in Threads, NEW c, CheckLog(t, c)
  PROVE  EventsInv'
PROOF
  <1> DEFINE h == thread[t]
             l == [h EXCEPT !.chans = @ \ {c}, !.to = {c}, !.task = "post"]
             q == rows
  <1>1. h.task = "send"
    BY DEF CheckLog, Serve
  <1>2. h \in Local /\ Works(h, q, TriedSends)
    BY <1>1, SendHands
  <1>3. thread' = [thread EXCEPT ![t] = l]
    BY DEF CheckLog
  <1> HIDE DEF h, q
  <1>4. /\ l.task = "post" /\ l.key = h.key /\ l.row = h.row /\ l.chans = h.chans \ {c}
        /\ l.to = {c} /\ l.kind = h.kind
    BY <1>2 DEF Local
  <1> HIDE DEF l
  <1>5. Works(l, q, TriedSends)
    BY <1>1, <1>2, <1>4 DEF Works
  <1>6. Holds(h) \subseteq Holds(l)
    BY <1>4 DEF Holds
  <1> QED BY <1>3, <1>5, <1>6, QuietTidy DEF CheckLog, config, tables, h, q

\* Whatever the notifier answers, the send was tried.
LEMMA AnswerTries ==
  ASSUME Typed, NEW t \in Threads, NEW c, NEW ok \in BOOLEAN,
         thread[t].task = "post", c \in thread[t].to, Answer(t, c, ok)
  PROVE  /\ <<thread[t].key, c>> \in TriedSends' /\ TriedSends \subseteq TriedSends'
         /\ \A x \in Sends : told[x] > 0 => told'[x] > 0
         /\ ok => told'[<<thread[t].key, c>>] > 0
PROOF
  <1> DEFINE y == <<thread[t].key, c>>
  <1>1. y \in Sends
    BY AnswerTyped
  <1>2. told \in [Sends -> 0..2] /\ told[y] \in 0..2
    BY <1>1 DEF Typed, Tables
  <1>3. \A x \in Sends : told[x] > 0 => told'[x] > 0
    BY <1>1, <1>2 DEF Answer
  <1>4. ok => told'[y] > 0
    BY <1>1, <1>2 DEF Answer
  <1>5. ~ok => y \in missed'
    BY DEF Answer
  <1>6. missed \subseteq missed'
    BY DEF Answer
  <1>7. y \in TriedSends'
    BY <1>1, <1>4, <1>5 DEF TriedSends, Tried
  <1>8. TriedSends \subseteq TriedSends'
    BY <1>3, <1>6 DEF TriedSends, Tried
  <1> QED BY <1>3, <1>4, <1>7, <1>8

\* A delivery that is logged.
LEMMA DeliverTidy ==
  ASSUME Typed, EventsInv, NEW t \in Threads, NEW c, NEW ok \in BOOLEAN, Deliver(t, c, ok)
  PROVE  EventsInv'
PROOF
  <1> DEFINE h == thread[t]
             y == <<h.key, c>>
             l == [h EXCEPT !.task = "send", !.to = {}]
             q == rows
  <1>1. h.task = "post" /\ c \in h.to
    BY DEF Deliver
  <1>2. h \in Local /\ Works(h, q, TriedSends)
    BY <1>1, SendHands
  <1>3. /\ y \in TriedSends' /\ TriedSends \subseteq TriedSends'
        /\ \A x \in Sends : told[x] > 0 => told'[x] > 0
        /\ ok => told'[y] > 0
    BY <1>1, AnswerTries DEF Deliver
  <1>4. \A x \in log' : told'[x] > 0
    BY <1>3 DEF Deliver, Typed, Tables, EventsInv, SendsAreTried
  <1>5. PICK T : T = TriedSends'
    OBVIOUS
  <1>6. thread' = [thread EXCEPT ![t] = l]
    BY DEF Deliver
  <1>7. \A d \in h.to : d = c
    BY <1>1, <1>2 DEF Works
  <1> HIDE DEF h, q
  <1>8. /\ l.task = "send" /\ l.key = h.key /\ l.row = h.row /\ l.chans = h.chans
        /\ l.to = {} /\ l.kind = h.kind
    BY <1>2 DEF Local
  <1> HIDE DEF l
  <1>9. Works(l, q, T)
    BY <1>1, <1>2, <1>3, <1>5, <1>7, <1>8 DEF Works
  <1>10. Holds(l) = Holds(h)
    BY <1>8 DEF Holds
  <1> QED BY <1>3, <1>4, <1>5, <1>6, <1>9, <1>10, TryTidy DEF Deliver, config, h, q

\* What a thread had in hand when it ended is lost.
LEMMA EndsTidy ==
  ASSUME Typed, EventsInv, NEW t \in Threads, Ends(t), TriedSends \subseteq TriedSends',
         UNCHANGED <<rows, digest, live, owed, dropped>>,
         \A x \in log' : told'[x] > 0
  PROVE  EventsInv'
PROOF
  <1>1. Works(Idle, rows, TriedSends')
    BY IdleHands, FreeWorks
  <1>2. lost \subseteq lost' /\ \A k \in Holds(thread[t]) : k \in lost'
    BY HoldsFacts DEF Ends
  <1>3. thread' = [thread EXCEPT ![t] = Idle]
    BY DEF Ends
  <1> QED BY <1>1, <1>2, <1>3, TryTidy

\* a thread that dies leaves its events to the account,
LEMMA FaultTidy ==
  ASSUME Typed, EventsInv, NEW t \in Threads, Fault(t)
  PROVE  EventsInv'
PROOF
  <1>1. CASE Dies(t)
    <2>1. UNCHANGED <<rows, digest, log, live, told, missed, owed, dropped>>
      BY <1>1 DEF Dies, config, tables
    <2>2. TriedSends' = TriedSends
      BY <2>1, StandStill
    <2>3. \A x \in log' : told'[x] > 0
      BY <2>1 DEF EventsInv, SendsAreTried
    <2> QED BY <1>1, <2>1, <2>2, <2>3, EndsTidy DEF Dies
  <1>2. ASSUME NEW c \in Channels, NEW ok \in BOOLEAN, DeliverUnlogged(t, c, ok)
        PROVE  EventsInv'
    <2>1. UNCHANGED <<rows, digest, log, live, owed, dropped>>
      BY <1>2 DEF DeliverUnlogged, config, tables
    <2>2. /\ TriedSends \subseteq TriedSends'
          /\ \A x \in Sends : told[x] > 0 => told'[x] > 0
      BY <1>2, AnswerTries DEF DeliverUnlogged
    <2>3. \A x \in log' : told'[x] > 0
      BY <2>1, <2>2 DEF Typed, Tables, EventsInv, SendsAreTried
    <2> QED BY <1>2, <2>1, <2>2, <2>3, EndsTidy DEF DeliverUnlogged
  <1> QED BY <1>1, <1>2 DEF Fault

\* The router takes an event over and sends it at once, or sends a withdrawal.
LEMMA RouteNowTidy ==
  ASSUME Typed, Proper, EventsInv, NEW t \in Threads, NEW k, RouteNow(t, k)
  PROVE  EventsInv'
PROOF
  <1> DEFINE l == Sending(t, k, 0)
             q == rows
  <1>1. thread[t].task = "route" /\ k \in Keys
    BY DEF RouteNow, Take, Typed, Hands, Fit, Local
  <1>2. Holds(thread[t]) = {}
    BY <1>1, FreeHands
  <1>3. Works(l, q, TriedSends) /\ (thread[t].kind = "new" => k \in Holds(l))
    BY <1>1, SendingWorks
  <1>4. UNCHANGED <<rows, digest, log, live, told, missed, dropped, lost>>
    BY DEF RouteNow, config, tables
  <1>5. Later /\ TriedSends' = TriedSends
    BY <1>4, StandStill
  <1>6. \A x \in log' : told'[x] > 0
    BY <1>4 DEF EventsInv, SendsAreTried
  <1>7. thread' = [thread EXCEPT ![t] = l]
    BY DEF RouteNow
  <1>8. \A j \in owed' : j \in owed \/ j \in Holds(l)
    BY <1>3 DEF RouteNow
  <1>9. \A j \in Keys : PendingIn(rows, j) \/ j \in digest => Settled(j)'
    BY <1>4 DEF Settled
  <1> HIDE DEF l
  <1> QED BY <1>2, <1>3, <1>4, <1>5, <1>6, <1>7, <1>8, <1>9, MoveTidy

\* The router takes an event over that its queue has, or that is to be inserted.
LEMMA RouteHeldTidy ==
  ASSUME Typed, Proper, EventsInv, NEW t \in Threads, NEW k, RouteHeld(t, k)
  PROVE  EventsInv'
PROOF
  <1> DEFINE h == thread[t]
             a == [h EXCEPT !.jobs = @ \ {k}]
             b == [h EXCEPT !.jobs = @ \ {k}, !.task = "insert", !.key = k]
             l == IF Queued(k) THEN a ELSE b
  <1>1. /\ h \in Local /\ h.task = "route" /\ h.key = NoKey /\ h.row = 0
        /\ \A c, d \in h.to : c = d
    BY FreeHands DEF RouteHeld, Take, Typed, Hands, Fit
  <1>2. k \in Keys /\ h.kind = "new"
    BY DEF RouteHeld, Take, Typed, Hands, Fit, Local
  <1>3. Holds(h) = {}
    BY <1>1, HoldsFacts
  <1>4. UNCHANGED <<rows, digest, log, live, told, missed, dropped, lost>>
    BY DEF RouteHeld, config, tables
  <1>5. Later /\ TriedSends' = TriedSends
    BY <1>4, StandStill
  <1>6. \A x \in log' : told'[x] > 0
    BY <1>4 DEF EventsInv, SendsAreTried
  <1>7. thread' = [thread EXCEPT ![t] = l]
    BY DEF RouteHeld
  <1>8. \A j \in Keys : PendingIn(rows, j) \/ j \in digest => Settled(j)'
    BY <1>4 DEF Settled
  <1>9. Queued(k) => Settled(k)'
    BY <1>2, <1>8 DEF Queued
  <1>10. \A j \in owed' : j \in owed \/ j = k
    BY DEF RouteHeld
  <1> DEFINE q == rows
             T == TriedSends
  <1>11. q = rows' /\ T = TriedSends'
    BY <1>4, <1>5
  <1> HIDE DEF h, q, T
  <1>12. a.task = "route" /\ a.key = NoKey /\ a.row = 0 /\ a.to = h.to
    BY <1>1 DEF Local
  <1>13. b.task = "insert" /\ b.key = k /\ b.row = 0 /\ b.to = h.to /\ b.kind = "new"
    BY <1>1, <1>2 DEF Local
  <1> HIDE DEF a, b
  <1>14. Works(a, q, T)
    BY <1>1, <1>12, FreeWorks
  <1>15. Works(b, q, T) /\ k \in Holds(b)
    BY <1>1, <1>2, <1>13, HoldsFacts DEF Works, Holds
  <1>16. Works(l, q, T) /\ (k \in Holds(l) \/ Settled(k)')
    BY <1>9, <1>14, <1>15
  <1> HIDE DEF l
  <1> QED BY <1>3, <1>4, <1>5, <1>6, <1>7, <1>8, <1>10, <1>11, <1>16, MoveTidy DEF h

\* What a new row of the queue holds.
LEMMA AppendFacts ==
  ASSUME NEW q \in Seq(Row), NEW r \in Row, NEW p, p = Append(q, r)
  PROVE  /\ \A i \in 1..Len(q) : i \in 1..Len(p) /\ p[i] = q[i]
         /\ Len(p) \in 1..Len(p) /\ p[Len(p)] = r
PROOF
  OBVIOUS

\* The event in hand is put into a queue.
LEMMA InsertTidy ==
  ASSUME Typed, Proper, EventsInv, NEW t \in Threads, Insert(t)
  PROVE  EventsInv'
PROOF
  <1>0. PICK k : k = thread[t].key
    OBVIOUS
  <1> DEFINE h == thread[t]
             r == [key |-> k, due |-> FALSE, state |-> "pending"]
             l == [h EXCEPT !.task = "route", !.key = NoKey]
  <1>1. h \in Local /\ h.task = "insert" /\ h.key = k /\ k \in Keys
    BY <1>0 DEF Insert, Typed, Hands, Fit
  <1>2. h.row = 0
    BY <1>1, RowOnlyInSends
  <1>3. \A c, d \in h.to : c = d
    BY DEF EventsInv, SendsAreTried, Works
  <1>4. \A j \in Holds(h) : j = k
    BY <1>1 DEF Holds
  <1>5. UNCHANGED <<log, live, told, missed, owed, dropped, lost>>
    BY DEF Insert, config, outcomes
  <1>6. TriedSends' = TriedSends
    BY <1>5 DEF TriedSends, Tried
  <1>7. \A x \in log' : told'[x] > 0
    BY <1>5 DEF EventsInv, SendsAreTried
  <1>8. thread' = [thread EXCEPT ![t] = l]
    BY DEF Insert
  <1>9. /\ \A i \in 1..Len(rows) : i \in 1..Len(rows') /\ rows'[i] = rows[i]
        /\ digest \subseteq digest'
        /\ PendingIn(rows', k) \/ k \in digest'
    <2>1. CASE rows' = Append(rows, r) /\ UNCHANGED digest
      <3>1. r \in Row /\ rows \in Seq(Row) /\ r.key = k /\ r.state = "pending"
        BY <1>1 DEF Row, Typed, Tables
      <3> HIDE DEF r
      <3>2. /\ \A i \in 1..Len(rows) : i \in 1..Len(rows') /\ rows'[i] = rows[i]
            /\ Len(rows') \in 1..Len(rows') /\ rows'[Len(rows')] = r
        BY <2>1, <3>1, AppendFacts
      <3> QED BY <2>1, <3>1, <3>2 DEF PendingIn
    <2>2. CASE digest' = digest \cup {k} /\ UNCHANGED rows
      BY <2>2
    <2> QED BY <1>0, <2>1, <2>2 DEF Insert
  <1>10. Later
    BY <1>6, <1>9 DEF Later
  <1>11. \A j \in Keys : PendingIn(rows, j) => Settled(j)'
    BY <1>9 DEF PendingIn, Settled
  <1>12. \A j \in Keys : j \in digest => Settled(j)'
    BY <1>9 DEF Settled
  <1>13. Settled(k)'
    BY <1>9 DEF Settled
  <1> HIDE DEF h
  <1>14. l.task = "route" /\ l.key = NoKey /\ l.row = 0 /\ l.to = h.to
    BY <1>1, <1>2 DEF Local
  <1> HIDE DEF l
  <1>15. Works(l, rows', TriedSends')
    BY <1>3, <1>14, FreeWorks
  <1> QED BY <1>4, <1>5, <1>7, <1>8, <1>10, <1>11, <1>12, <1>13, <1>15, MoveTidy DEF h

\* Marking row i takes no other row out of the queue, and keeps all events.
LEMMA MarkFacts ==
  ASSUME Typed, NEW i, Mark(i), UNCHANGED <<told, missed>>
  PROVE  /\ Later /\ TriedSends' = TriedSends
         /\ \A k \in Keys : PendingIn(rows, k) => PendingIn(rows', k) \/ rows[i].key = k
PROOF
  <1>1. /\ rows' \in Seq(Row) /\ Len(rows') = Len(rows)
        /\ \A j \in 1..Len(rows) : rows'[j].key = rows[j].key
    BY MarkRow DEF Typed
  <1>2. TriedSends' = TriedSends
    BY DEF TriedSends, Tried
  <1>3. Later
    BY <1>1, <1>2 DEF Later
  <1>4. rows \in Seq(Row) /\ DOMAIN rows = 1..Len(rows)
    BY DEF Typed, Tables
  <1>5. \A j \in 1..Len(rows) : j # i => rows'[j] = rows[j]
    BY <1>4 DEF Mark
  <1>6. \A k \in Keys : PendingIn(rows, k) => PendingIn(rows', k) \/ rows[i].key = k
    BY <1>1, <1>5 DEF PendingIn
  <1> QED BY <1>2, <1>3, <1>6

\* _send_immediate is over: the event was tried on all channels of its rule, and
\* so was the one whose row is marked.
LEMMA SendDoneTidy ==
  ASSUME Typed, Proper, EventsInv, NEW t \in Threads, SendDone(t)
  PROVE  EventsInv'
PROOF
  <1>0. PICK k, i : k = thread[t].key /\ i = thread[t].row
    OBVIOUS
  <1> DEFINE h == thread[t]
             x == IF i = 0 THEN "route" ELSE "drain"
             l == [h EXCEPT !.task = x, !.key = NoKey, !.row = 0]
  <1>1. h \in Local /\ h.task = "send" /\ h.chans = {} /\ h.key = k /\ h.row = i /\ k \in Keys
    BY <1>0 DEF SendDone, Typed, Hands, Fit
  <1>2. /\ \A c \in Bound[k[3]] : <<k, c>> \in TriedSends
        /\ i # 0 => rows[i].key = k
        /\ \A c, d \in h.to : c = d
    <2>1. Works(h, rows, TriedSends)
      BY <1>1, SendHands
    <2> HIDE DEF h
    <2> QED BY <1>1, <2>1 DEF Works
  <1>3. UNCHANGED <<digest, log, live, told, missed, owed, dropped, lost>>
    BY DEF SendDone, config, outcomes
  <1>4. thread' = [thread EXCEPT ![t] = l]
    BY <1>0 DEF SendDone
  <1>5. /\ Later /\ TriedSends' = TriedSends
        /\ \A j \in Keys : PendingIn(rows, j) => PendingIn(rows', j) \/ j = k
    <2>1. CASE i = 0
      BY <1>0, <1>3, <2>1, StandStill DEF SendDone
    <2>2. CASE i # 0
      BY <1>0, <1>2, <1>3, <2>2, MarkFacts DEF SendDone
    <2> QED BY <2>1, <2>2
  <1>6. Settled(k)'
    BY <1>2, <1>3 DEF Settled, TriedSends, Tried
  <1>7. \A j \in Keys : PendingIn(rows, j) => Settled(j)'
    BY <1>5, <1>6 DEF Settled
  <1>8. \A j \in Keys : j \in digest => Settled(j)'
    BY <1>3 DEF Settled
  <1>9. \A j \in Holds(h) : j = k
    BY <1>1 DEF Holds
  <1>10. \A y \in log' : told'[y] > 0
    BY <1>3 DEF EventsInv, SendsAreTried
  <1>11. x \in {"route", "drain"}
    OBVIOUS
  <1> HIDE DEF h, x
  <1>12. l.task = x /\ l.key = NoKey /\ l.row = 0 /\ l.to = h.to
    BY <1>1 DEF Local
  <1> HIDE DEF l
  <1>13. Works(l, rows', TriedSends')
    BY <1>2, <1>11, <1>12, FreeWorks
  <1> QED BY <1>3, <1>4, <1>5, <1>6, <1>7, <1>8, <1>9, <1>10, <1>13, MoveTidy DEF h

\* A row is marked without a send: its package is not active, or its rule is gone.
LEMMA DropRowTidy ==
  ASSUME Typed, Proper, EventsInv, NEW t \in Threads, NEW i, DropRow(t, i)
  PROVE  EventsInv'
PROOF
  <1>0. PICK k : k = rows[i].key
    OBVIOUS
  <1> DEFINE h == thread[t]
             l == [h EXCEPT !.batch = @ \ {i}]
  <1>1. /\ h \in Local /\ h.task = "drain" /\ h.key = NoKey /\ h.row = 0
        /\ Holds(h) = {} /\ \A c, d \in h.to : c = d
    BY FreeHands DEF DropRow, Turn, Typed, Hands, Fit
  <1>2. UNCHANGED <<digest, log, live, told, missed, owed, lost>> /\ dropped \subseteq dropped'
    BY DEF DropRow, config
  <1>3. k \in dropped' \/ k[3] \notin live'
    BY <1>0, <1>2 DEF DropRow
  <1>4. thread' = [thread EXCEPT ![t] = l]
    BY DEF DropRow
  <1>5. /\ Later /\ TriedSends' = TriedSends
        /\ \A j \in Keys : PendingIn(rows, j) => PendingIn(rows', j) \/ j = k
    BY <1>0, <1>2, MarkFacts DEF DropRow
  <1>6. Settled(k)'
    BY <1>3 DEF Settled
  <1>7. \A j \in Keys : PendingIn(rows, j) => Settled(j)'
    BY <1>5, <1>6 DEF Settled
  <1>8. \A j \in Keys : j \in digest => Settled(j)'
    BY <1>2 DEF Settled
  <1>9. \A y \in log' : told'[y] > 0
    BY <1>2 DEF EventsInv, SendsAreTried
  <1> HIDE DEF h
  <1>10. l.task = "drain" /\ l.key = NoKey /\ l.row = 0 /\ l.to = h.to
    BY <1>1 DEF Local
  <1> HIDE DEF l
  <1>11. Works(l, rows', TriedSends')
    BY <1>1, <1>10, FreeWorks
  <1> QED BY <1>1, <1>2, <1>4, <1>5, <1>7, <1>8, <1>9, <1>11, MoveTidy DEF h

\* No thread moves: what the queues held is still settled.
LEMMA StillTidy ==
  ASSUME Typed, EventsInv, UNCHANGED <<thread, outcomes>>, log' \subseteq log, live' \subseteq live,
         \A i \in 1..Len(rows) : i \in 1..Len(rows') /\ rows'[i].key = rows[i].key,
         \A k \in Keys : PendingIn(rows, k) => Settled(k)',
         \A k \in Keys : k \in digest => Settled(k)'
  PROVE  EventsInv'
PROOF
  <1>1. UNCHANGED <<told, missed, owed, dropped, lost>>
    BY DEF outcomes
  <1>2. TriedSends' = TriedSends
    BY <1>1 DEF TriedSends, Tried
  <1>3. Later
    BY <1>2 DEF Later
  <1>4. \A u \in Threads : Works(thread[u], rows, TriedSends)
    BY DEF EventsInv, SendsAreTried
  <1>5. \A u \in Threads : Works(thread[u], rows', TriedSends')
    BY <1>3, <1>4, LaterWorks
  <1>6. SendsAreTried'
    BY <1>1, <1>5 DEF EventsInv, SendsAreTried
  <1>7. ASSUME NEW k \in owed' PROVE InHands(k)' \/ Settled(k)'
    <2>1. k \in owed /\ k \in Keys
      BY <1>1, <1>7 DEF Typed, Tables
    <2>2. CASE Settled(k)
      BY <1>1, <1>3, <2>1, <2>2, SettledKept
    <2>3. CASE InHands(k)
      BY <2>3 DEF InHands, InHand
    <2> QED BY <2>1, <2>2, <2>3 DEF EventsInv, EventsAccounted
  <1> QED BY <1>6, <1>7 DEF EventsInv, EventsAccounted

\* delete_rule takes events out of the queues, those of its rule.
LEMMA DeleteRuleTidy ==
  ASSUME Typed, EventsInv, NEW r \in Rules, DeleteRule(r)
  PROVE  EventsInv'
PROOF
  <1>1. Len(rows') = Len(rows) /\ rows \in Seq(Row)
    BY DeleteRows DEF Typed, Tables
  <1>2. \A i \in 1..Len(rows) : rows'[i].key = rows[i].key
    <2>1. ASSUME NEW i \in 1..Len(rows) PROVE rows'[i].key = rows[i].key
      <3>1. rows[i] \in Row
        BY <1>1
      <3>2. rows'[i] = IF rows[i].key[3] = r THEN [rows[i] EXCEPT !.state = "deleted"]
                       ELSE rows[i]
        BY DEF DeleteRule
      <3> QED BY <3>1, <3>2 DEF Row
    <2> QED BY <2>1
  <1>3. \A i \in 1..Len(rows) : rows[i].key[3] # r => rows'[i] = rows[i]
    BY DEF DeleteRule
  <1>4. /\ UNCHANGED <<thread, outcomes>> /\ log' \subseteq log /\ live' = live \ {r}
        /\ digest' = {k \in digest : k[3] # r}
    BY DEF DeleteRule, Change
  <1>5. \A k \in Keys : PendingIn(rows, k) => PendingIn(rows', k) \/ k[3] = r
    BY <1>1, <1>3 DEF PendingIn
  <1>6. \A k \in Keys : PendingIn(rows, k) => Settled(k)'
    BY <1>4, <1>5 DEF Settled
  <1>7. \A k \in Keys : k \in digest => Settled(k)'
    BY <1>4 DEF Settled
  <1>8. live' \subseteq live
    BY <1>4
  <1>9. \A i \in 1..Len(rows) : i \in 1..Len(rows') /\ rows'[i].key = rows[i].key
    BY <1>1, <1>2
  <1> QED BY <1>4, <1>6, <1>7, <1>8, <1>9, StillTidy

\* Nobody touches the queues.
LEMMA RestTidy ==
  ASSUME Typed, EventsInv, UNCHANGED <<thread, outcomes, rows, digest, live>>, log' \subseteq log
  PROVE  EventsInv'
PROOF
  <1>1. \A k \in Keys : PendingIn(rows, k) => Settled(k)'
    BY DEF Settled
  <1>2. \A k \in Keys : k \in digest => Settled(k)'
    BY DEF Settled
  <1> QED BY <1>1, <1>2, StillTidy

\* and the administrator drops what he cancels.
LEMMA AdministratorTidy ==
  ASSUME Typed, EventsInv, Administrator
  PROVE  EventsInv'
PROOF
  <1>1. ASSUME NEW r \in Rules, DeleteRule(r) PROVE EventsInv'
    BY <1>1, DeleteRuleTidy
  <1>2. ASSUME NEW r \in Rules, ToggleRule(r) PROVE EventsInv'
    BY <1>2, RestTidy DEF ToggleRule, Change, tables
  <1>3. ASSUME NEW c \in Channels, ToggleChannel(c) PROVE EventsInv'
    BY <1>3, RestTidy DEF ToggleChannel, Change, tables
  <1>4. CASE ToggleMaintenance
    BY <1>4, RestTidy DEF ToggleMaintenance, Change, tables
  <1>5. CASE ClearHistory
    <2>1. log' \subseteq log
      BY <1>5 DEF ClearHistory
    <2> QED BY <1>5, <2>1, RestTidy DEF ClearHistory, Change
  <1> QED BY <1>1, <1>2, <1>3, <1>4, <1>5 DEF Administrator

\* A row that comes due stays in the queue.
LEMMA ClockTidy ==
  ASSUME Typed, EventsInv, Clock
  PROVE  EventsInv'
PROOF
  <1>1. ASSUME NEW r \in Rules, OpenOrShut(r) PROVE EventsInv'
    BY <1>1, RestTidy DEF OpenOrShut, config, tables
  <1>2. CASE IntervalPasses
    BY <1>2, RestTidy DEF IntervalPasses, config, tables
  <1>3. ASSUME NEW i \in 1..Len(rows), ComesDue(i) PROVE EventsInv'
    <2>1. rows \in Seq(Row) /\ DOMAIN rows = 1..Len(rows) /\ Len(rows) \in Nat
      BY DEF Typed, Tables
    <2>2. rows' = [rows EXCEPT ![i].due = TRUE]
      BY <1>3 DEF ComesDue
    <2>3. Len(rows') = Len(rows)
      BY <2>1, <2>2
    <2>4. ASSUME NEW j \in 1..Len(rows)
          PROVE  rows'[j].key = rows[j].key /\ rows'[j].state = rows[j].state
      BY <2>1, <2>2 DEF Row
    <2>5. UNCHANGED <<thread, outcomes, digest, log, live>>
      BY <1>3 DEF ComesDue, config
    <2>6. \A k \in Keys : PendingIn(rows, k) => PendingIn(rows', k)
      BY <2>3, <2>4 DEF PendingIn
    <2>7. \A k \in Keys : PendingIn(rows, k) => Settled(k)'
      BY <2>6 DEF Settled
    <2>8. \A k \in Keys : k \in digest => Settled(k)'
      BY <2>5 DEF Settled
    <2> QED BY <2>3, <2>4, <2>5, <2>7, <2>8, StillTidy
  <1> QED BY <1>1, <1>2, <1>3 DEF Clock

\* Every step keeps account of the events.
LEMMA TidyStep ==
  ASSUME Typed, Proper, EventsInv, [Next]_vars
  PROVE  EventsInv'
PROOF
  <1>1. ASSUME NEW t \in Threads, Step(t) PROVE EventsInv'
    <2>1. CASE RouteStep(t)
      BY <2>1, MatchGoneTidy, RouteSuppressedTidy, RouteHeldTidy, RouteNowTidy,
         InsertTidy DEF RouteStep
    <2>2. CASE SendStep(t)
      BY <2>2, SkipInactiveTidy, SkipDuplicateTidy, CheckLogTidy, DeliverTidy,
         SendDoneTidy DEF SendStep
    <2>3. CASE DrainStep(t)
      BY <2>3, ReadDueTidy, DropRowTidy, PostponeRowTidy, ReplayRowTidy,
         FinishTidy DEF DrainStep
    <2> QED BY <1>1, <2>1, <2>2, <2>3 DEF Step
  <1>2. CASE UNCHANGED vars
    <2>1. UNCHANGED <<thread, outcomes, rows, digest, live, log>>
      BY <1>2 DEF vars, outcomes
    <2> QED BY <2>1, RestTidy
  <1>3. ASSUME NEW t \in Threads, Fault(t) PROVE EventsInv'
    BY <1>3, FaultTidy
  <1> QED BY <1>1, <1>2, <1>3, CollectTidy, ResendTidy, AdministratorTidy, ClockTidy DEF Next

\* At first nothing is owed.
LEMMA InitTidy == Init => EventsInv
PROOF
  <1> SUFFICES ASSUME Init PROVE EventsInv
    OBVIOUS
  <1>1. \A t \in Threads : Works(thread[t], rows, TriedSends)
    BY IdleHands, FreeWorks DEF Init
  <1> QED BY <1>1 DEF Init, EventsInv, SendsAreTried, EventsAccounted

\* A NEW event that route_notifications took over is in hand, queued, tried on all
\* channels of its rule or dropped for the status of its package; only a thread
\* that dies and a rule that is deleted lose one.
THEOREM Accounted == Spec => []EventsAccounted
PROOF
  <1>1. Init => Typed /\ Proper /\ EventsInv
    BY InitTyped, InitProper, InitTidy
  <1>2. Typed /\ Proper /\ EventsInv /\ [Next]_vars => (Typed /\ Proper /\ EventsInv)'
    BY TypedStep, ProperStep, TidyStep
  <1>3. Typed /\ Proper /\ EventsInv => EventsAccounted
    BY DEF EventsInv
  <1> QED BY <1>1, <1>2, <1>3, PTL DEF Spec
=============================================================================
