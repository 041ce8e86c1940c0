----------------------------- MODULE PushLimits -----------------------------
(***************************************************************************)
(* The two limiters of the system and the senders that go through them.    *)
(*                                                                         *)
(*  - src/core/rate_limiter.py: a row of push_rate_limits per key (a mail  *)
(*    address or a channel), for the pushes an operator asks for.  check() *)
(*    comes before the push and record() after it, each a read followed by *)
(*    a write, and every web request runs in a thread of its own.          *)
(*  - src/core/email_rate_limiter.py: counters of mails per hour and per   *)
(*    day for the channel, the customer and the whole system, read by      *)
(*    EmailNotifier.send before the SMTP conversation and raised after it. *)
(*                                                                         *)
(* Time is measured in ticks.  Stored instants are kept as what the code   *)
(* computes from them: the age of a window (Window stands for "expired"),  *)
(* the time a ban has left, the counters of the current hour and day.      *)
(***************************************************************************)
EXTENDS Integers, Sequences, FiniteSets

CONSTANTS
    Threads,     \* web requests and scheduler jobs that send at the same time
    Keys,        \* keys of push_rate_limits
    Channels, Customers,
    Nobody,      \* channel or customer id 0
    Requests,    \* the sends that may be asked for
    MaxPerWindow, Window, Ban,
    HourLength, DayLength,
    ChannelLimit,             \* channels.email_hourly_limit, email_daily_limit
    CustomerSetting, GlobalSetting,   \* system_settings
    CustomerDefault, GlobalDefault,   \* the fallbacks of EmailNotifier.send
    MaxFaults    \* bound: database errors and refused rows

Units == {"hour", "day"}
Kinds == {"push", "resend", "rule", "alert"}

ASSUME LimitAssumption ==
    /\ MaxPerWindow \in Nat \ {0} /\ Window \in Nat \ {0} /\ Ban \in Nat \ {0}
    /\ HourLength \in Nat \ {0} /\ DayLength \in Nat \ {0}
    /\ DayLength % HourLength = 0
    /\ MaxFaults \in Nat
    /\ IsFiniteSet(Threads)

ASSUME SettingAssumption ==
    /\ ChannelLimit \in [Units -> Nat]
    /\ CustomerSetting \in [Units -> Nat] /\ GlobalSetting \in [Units -> Nat]
    /\ CustomerDefault \in [Units -> Nat \ {0}]
    /\ GlobalDefault \in [Units -> Nat \ {0}]

\* (Alerts are sent with the bare configuration of their channel.)
ASSUME RequestAssumption ==
    /\ Requests \subseteq [kind: Kinds, key: Keys, channel: Channels \cup {Nobody},
                           customer: Customers \cup {Nobody}, mail: BOOLEAN]
    /\ Nobody \notin Requests \cup Channels \cup Customers
    /\ \A r \in Requests : r.kind = "alert" => r.channel = Nobody /\ r.customer = Nobody

VARIABLES
    row,        \* push_rate_limits: key -> row
    counter,    \* email_rate_counters of the current buckets
    clock,      \* position within the day
    thread,     \* what each thread is doing
    faults      \* history: errors so far

vars == <<row, counter, clock, thread, faults>>

Layers == <<"channel", "customer", "global">>
Scopes == ({"channel"} \X (Channels \cup {Nobody}))
          \cup ({"customer"} \X (Customers \cup {Nobody})) \cup {<<"global", Nobody>>}

Phases == {"idle", "banning", "limits", "posting", "counting", "logging", "reading",
           "insert", "reset", "increment"}
Fresh(phase, r) == [phase |-> phase, req |-> r, layer |-> 1, todo |-> {}, stale |-> FALSE]
Idle == Fresh("idle", Nobody)

\* A row of push_rate_limits; "present" is FALSE before the first INSERT.
Row == [present: BOOLEAN, count: Nat, age: 0 .. Window, ban: 0 .. Ban]
NoRow == [present |-> FALSE, count |-> 0, age |-> Window, ban |-> 0]

Init ==
    /\ row = [k \in Keys |-> NoRow]
    /\ counter = [s \in Scopes |-> [u \in Units |-> 0]]
    /\ clock = 0
    /\ thread = [t \in Threads |-> Idle]
    /\ faults = 0

To(t, phase) == thread' = [thread EXCEPT ![t].phase = phase]
Ends(t) == thread' = [thread EXCEPT ![t] = Idle]
At(t, phase) == thread[t].phase = phase
Asks(t) == thread[t].req
KeyOf(t) == Asks(t).key

\* A push that was let through and is not recorded yet.
InFlight(k) ==
    {t \in Threads : /\ ~ At(t, "idle") /\ ~ At(t, "banning")
                     /\ Asks(t).kind = "push" /\ KeyOf(t) = k}

-----------------------------------------------------------------------------
(* The manual limiter *)

AfterCheck(r) == IF r.mail THEN "limits" ELSE "posting"

Banned(k) == row[k].ban > 0
InWindow(k) == row[k].age < Window
\* Mutant: one push more than the limit.
OneMore(k) == InWindow(k) /\ row[k].count > MaxPerWindow

Exhausted(k) == InWindow(k) /\ row[k].count >= MaxPerWindow

Enters(t, r, phase) == thread' = [thread EXCEPT ![t] = Fresh(phase, r)]

\* Mutant: banned_until is not looked at.
AdmitsBanned(t, r) ==
    /\ At(t, "idle") /\ r.kind = "push" /\ ~ Exhausted(r.key)
    /\ Enters(t, r, AfterCheck(r))
    /\ UNCHANGED <<row, counter, clock, faults>>

\* check(): the row allows the push.
Admit(t, r) ==
    /\ At(t, "idle") /\ r.kind = "push"
    /\ ~ Banned(r.key) /\ ~ Exhausted(r.key)
    /\ Enters(t, r, AfterCheck(r))
    /\ UNCHANGED <<row, counter, clock, faults>>

\* check(): too many pushes in this window; the ban is written by a statement of its own.
\* (A key that is banned already is answered 429 and nothing changes.)
Exceed(t, r) ==
    /\ At(t, "idle") /\ r.kind = "push"
    /\ ~ Banned(r.key) /\ Exhausted(r.key)
    /\ Enters(t, r, "banning")
    /\ UNCHANGED <<row, counter, clock, faults>>

Overtaken(k, t) == [u \in Threads |-> IF u = t THEN Idle
                                     ELSE IF u \in InFlight(k)
                                          THEN [thread[u] EXCEPT !.stale = TRUE]
                                          ELSE thread[u]]

PlaceBan(t) ==
    /\ At(t, "banning")
    /\ row' = [row EXCEPT ![KeyOf(t)].ban = Ban]
    /\ thread' = Overtaken(KeyOf(t), t)
    /\ UNCHANGED <<counter, clock, faults>>

\* resend_targeted, _send_immediate and the alerts do not ask this limiter.
Bypass(t, r) ==
    /\ At(t, "idle") /\ r.kind # "push"
    /\ Enters(t, r, AfterCheck(r))
    /\ UNCHANGED <<row, counter, clock, faults>>

\* record(): the row is read ...
ReadRow(t) ==
    /\ At(t, "reading")
    /\ To(t, IF ~ row[KeyOf(t)].present THEN "insert"
             ELSE IF InWindow(KeyOf(t)) THEN "increment" ELSE "reset")
    /\ UNCHANGED <<row, counter, clock, faults>>

\* ... and written; an INSERT that finds the key taken raises, after the push.
WriteRow(t) ==
    LET k == KeyOf(t)
        fresh == [present |-> TRUE, count |-> 1, age |-> 0, ban |-> 0]
    IN  /\ \/ At(t, "insert") /\ row' = IF row[k].present THEN row ELSE [row EXCEPT ![k] = fresh]
           \/ At(t, "reset") /\ row' = [row EXCEPT ![k] = fresh]
           \/ At(t, "increment") /\ row' = [row EXCEPT ![k].count = @ + 1]
        /\ Ends(t)
        /\ UNCHANGED <<counter, clock, faults>>

\* POST /rate-limits/reset, for one key or for all of them.
ClearBan(ks) ==
    /\ row' = [k \in Keys |-> IF k \in ks /\ row[k].present
                              THEN [NoRow EXCEPT !.present = TRUE] ELSE row[k]]
    /\ UNCHANGED <<counter, clock, thread, faults>>

-----------------------------------------------------------------------------
(* The mail limiter and the SMTP conversation *)

ScopeOf(r, layer) ==
    CASE layer = "channel" -> <<"channel", r.channel>>
      [] layer = "customer" -> <<"customer", r.customer>>
      [] OTHER -> <<"global", Nobody>>

\* int(setting or default): a setting of 0 does not survive the "or".
Or(setting, default) == [u \in Units |-> IF setting[u] = 0 THEN default[u] ELSE setting[u]]

\* What send() is given: the alerts carry no limits, resend_targeted none for the channel.
LimitOf(r, layer) ==
    CASE layer = "channel" -> IF r.kind = "resend" THEN [u \in Units |-> 0] ELSE ChannelLimit
      [] layer = "customer" -> Or(CustomerSetting, CustomerDefault)
      [] OTHER -> IF r.kind = "alert" THEN GlobalDefault ELSE Or(GlobalSetting, GlobalDefault)

Applies(r, layer) ==
    CASE layer = "channel" -> r.channel # Nobody
      [] layer = "customer" -> r.customer # Nobody
      [] OTHER -> TRUE

\* Mutant: one mail more than the limit.
FullLater(limit, scope) == \E u \in Units : limit[u] > 0 /\ counter[scope][u] > limit[u]

\* _check: a limit of 0 or less lets everything pass.
Full(limit, scope) == \E u \in Units : limit[u] > 0 /\ counter[scope][u] >= limit[u]

Denied(t) ==
    LET r == Asks(t)
        layer == Layers[thread[t].layer]
    IN  Applies(r, layer) /\ Full(LimitOf(r, layer), ScopeOf(r, layer))

\* check_channel, check_customer, check_global: one layer after the other.
PassLayer(t) ==
    /\ At(t, "limits") /\ ~ Denied(t)
    /\ IF thread[t].layer = Len(Layers) THEN To(t, "posting")
                                        ELSE thread' = [thread EXCEPT ![t].layer = @ + 1]
    /\ UNCHANGED <<row, counter, clock, faults>>

RefuseMail(t) ==
    /\ At(t, "limits") /\ Denied(t)
    /\ To(t, "logging")
    /\ UNCHANGED <<row, counter, clock, faults>>

Counted(r) == r.channel # Nobody \/ r.customer # Nobody

\* Mutant: the system's counter is raised first.
SystemFirst(r) ==
    {<<2 * i + (IF u = "day" THEN 1 ELSE 0), ScopeOf(r, Layers[Len(Layers) + 1 - i]), u>> :
        i \in 1 .. Len(Layers), u \in Units}

\* record(): two statements for each of the three keys, in this order, with the buckets of
\* its first lines.
Upserts(r) ==
    {<<2 * i + (IF u = "day" THEN 1 ELSE 0), ScopeOf(r, Layers[i]), u>> :
        i \in 1 .. Len(Layers), u \in Units}

\* The conversation: the mail is accepted ...
Accepted(t) ==
    /\ At(t, "posting")
    /\ IF Asks(t).mail /\ Counted(Asks(t))
       THEN thread' = [thread EXCEPT ![t].phase = "counting", ![t].todo = Upserts(Asks(t))]
       ELSE To(t, "logging")
    /\ UNCHANGED <<row, counter, clock, faults>>

\* ... or it fails, or some recipients are refused: the result is a failure and counts nothing.
Rejected(t) ==
    /\ At(t, "posting")
    /\ To(t, "logging")
    /\ UNCHANGED <<row, counter, clock, faults>>

CountMail(t) ==
    /\ At(t, "counting")
    /\ \E w \in thread[t].todo :
          /\ \A v \in thread[t].todo : w[1] <= v[1]
          /\ counter' = [counter EXCEPT ![w[2]][w[3]] = @ + 1]
          /\ thread' = [thread EXCEPT ![t].todo = @ \ {w}]
    /\ UNCHANGED <<row, clock, faults>>

CountingDone(t) ==
    /\ At(t, "counting") /\ thread[t].todo = {}
    /\ To(t, "logging")
    /\ UNCHANGED <<row, counter, clock, faults>>

\* record() raises half way: send() turns it into a failure although the mail is out.
CountingFails(t) ==
    /\ At(t, "counting") /\ thread[t].todo # {} /\ faults < MaxFaults
    /\ faults' = faults + 1
    /\ thread' = [thread EXCEPT ![t].phase = "logging", ![t].todo = {}]
    /\ UNCHANGED <<row, counter, clock>>

\* log_delivery, after which a push is recorded whatever its result.
Log(t) ==
    /\ At(t, "logging")
    /\ IF Asks(t).kind = "push" THEN To(t, "reading") ELSE Ends(t)
    /\ UNCHANGED <<row, counter, clock, faults>>

\* The snapshot or the channel is gone: log_delivery raises and record() is not reached.
LogFails(t) ==
    /\ At(t, "logging") /\ faults < MaxFaults
    /\ faults' = faults + 1
    /\ Ends(t)
    /\ UNCHANGED <<row, counter, clock>>

-----------------------------------------------------------------------------
(* Time *)

NextClock == (clock + 1) % DayLength
Turned == {u \in Units : NextClock % (IF u = "hour" THEN HourLength ELSE DayLength) = 0}
StillCurrent(todo) == {w \in todo : w[3] \notin Turned}
Earlier(n) == IF n = 0 THEN 0 ELSE n - 1

\* Statements for a bucket that is over still run; nobody reads what they write.
Tick ==
    /\ clock' = NextClock
    /\ row' = [k \in Keys |-> [row[k] EXCEPT !.ban = Earlier(@),
                                            !.age = IF @ < Window THEN @ + 1 ELSE @]]
    /\ counter' = [s \in Scopes |-> [u \in Units |-> IF u \in Turned THEN 0 ELSE counter[s][u]]]
    /\ thread' = [t \in Threads |-> [thread[t] EXCEPT !.todo = StillCurrent(@)]]
    /\ UNCHANGED faults

Step(t) ==
    \/ PlaceBan(t) \/ PassLayer(t) \/ RefuseMail(t) \/ Accepted(t) \/ Rejected(t)
    \/ CountMail(t) \/ CountingDone(t) \/ CountingFails(t) \/ Log(t) \/ LogFails(t)
    \/ ReadRow(t) \/ WriteRow(t)

Next ==
    \/ \E t \in Threads, r \in Requests : Admit(t, r) \/ Exceed(t, r) \/ Bypass(t, r)
    \/ \E t \in Threads : Step(t)
    \/ \E k \in Keys : ClearBan({k})
    \/ ClearBan(Keys)
    \/ Tick

Spec == Init /\ [][Next]_vars

-----------------------------------------------------------------------------
(* Properties *)

Jobs == [phase: Phases, req: Requests \cup {Nobody}, layer: 1 .. Len(Layers),
         todo: SUBSET (Nat \X Scopes \X Units), stale: BOOLEAN]

\* Types: the tables and the threads keep their shape, and a thread that works
\* serves a request.
TypeOK ==
    /\ row \in [Keys -> Row]
    /\ counter \in [Scopes -> [Units -> Nat]]
    /\ clock \in 0 .. DayLength - 1
    /\ thread \in [Threads -> Jobs]
    /\ faults \in 0 .. MaxFaults

Overshoot == MaxPerWindow - 1 + Cardinality(Threads)
Incrementing(k) == {t \in InFlight(k) : At(t, "increment")}

\* The pushes a window of rate_limiter.py has counted, with those that were let
\* through and will be counted in it, exceed the limit by what the other threads can
\* have read before: check() and record() are apart, but nothing else leaks.
WindowBound ==
    \A k \in Keys :
        row[k].count + Cardinality(IF InWindow(k) THEN InFlight(k) ELSE Incrementing(k))
            <= Overshoot

\* "Exceeding triggers a 10-minute ban": it ends early only when an operator resets it, or
\* when record() restarts the window for a push that was let through before the ban.
BanStands ==
    [][\A k \in Keys :
        Banned(k) /\ ~ Banned(k)' =>
            \/ row[k].ban = 1 /\ row'[k] = [row[k] EXCEPT !.ban = 0, !.age = row'[k].age]
            \/ row'[k].count = 0
            \/ \E t \in Threads :
                  /\ At(t, "reset") /\ KeyOf(t) = k /\ thread[t].stale
                  /\ At(t, "idle")']_vars

\* Rows that are missing are blank; who is past the read found a row, and only pushes are
\* recorded.
RowsMakeSense ==
    /\ \A k \in Keys : ~ row[k].present => row[k] = NoRow
    /\ \A t \in Threads :
          /\ thread[t].phase \in {"banning", "reset", "increment"} => row[KeyOf(t)].present
          /\ thread[t].phase \in {"reading", "insert", "reset", "increment"} => Asks(t).kind = "push"

\* Whoever was let through before a ban knows that it was overtaken.
OvertakenAreStale ==
    \A k \in Keys : Banned(k) => \A t \in InFlight(k) : thread[t].stale

\* A thread counts its own mail.
CountsAreOwn ==
    \A t \in Threads :
        /\ ~ At(t, "idle") => Asks(t) \in Requests
        /\ thread[t].todo # {} => At(t, "counting") /\ thread[t].todo \subseteq Upserts(Asks(t))

LimitedScopes == ({"customer"} \X Customers) \cup {<<"global", Nobody>>}
BoundOf(s) == IF s[1] = "customer" THEN Or(CustomerSetting, CustomerDefault)
              ELSE Or(GlobalSetting, GlobalDefault)
Concerns(t, s) == Asks(t).mail /\ Counted(Asks(t)) /\ ScopeOf(Asks(t), s[1]) = s

\* The threads whose mail was checked against a scope and is not counted there yet.
Reserved(s, u) ==
    {t \in Threads :
        \/ At(t, "limits") /\ Concerns(t, s) /\ s[1] = "customer" /\ thread[t].layer = 3
        \/ At(t, "posting") /\ Concerns(t, s)
        \/ \E w \in thread[t].todo : w[2] = s /\ w[3] = u}

MailsAreReserved ==
    \A s \in LimitedScopes, u \in Units :
        counter[s][u] + Cardinality(Reserved(s, u)) <= BoundOf(s)[u] + Cardinality(Threads) - 1

\* The inductive invariant of PushLimitsProofs.
LInv ==
    /\ TypeOK /\ RowsMakeSense /\ OvertakenAreStale /\ CountsAreOwn
    /\ WindowBound /\ MailsAreReserved

\* The mails that the keys of a layer have counted: the n-th one of a key is a pair.
Mails(layer, u) == UNION {{s} \X (1 .. counter[s][u]) : s \in {x \in Scopes : x[1] = layer}}

\* No bucket of email_rate_counters passes its limit by more than the mails of the other
\* threads that were checked and not yet counted.  (No such bound holds for a channel:
\* resend_targeted does not read its limits and is counted.)
MailBound ==
    \A u \in Units :
        LET others == Cardinality(Threads) - 1
        IN  /\ \A c \in Customers : counter[<<"customer", c>>][u]
                                        <= Or(CustomerSetting, CustomerDefault)[u] + others
            /\ counter[<<"global", Nobody>>][u] <= Or(GlobalSetting, GlobalDefault)[u] + others

\* The three layers count the same mails, in the order channel, customer, system: whenever
\* nobody is between the six statements and none has failed, the sums are equal; otherwise
\* the system's counter is the one that lags, never the channel's.
LayersAgree ==
    \A u \in Units :
        LET Sum(layer) == Cardinality(Mails(layer, u))
        IN  /\ Sum("global") <= Sum("customer") /\ Sum("customer") <= Sum("channel")
            /\ faults = 0 /\ (\A t \in Threads : ~ At(t, "counting"))
                  => Sum("global") = Sum("channel")

\* A mail that is still to be counted in a layer is still to be counted in the next ones.
LayersInOrder ==
    \A t \in Threads : \A w \in thread[t].todo : \A v \in Upserts(Asks(t)) :
        v[3] = w[3] /\ w[1] <= v[1] => v \in thread[t].todo

\* What a layer will have counted when the threads are done.
Due(layer, u) == {t \in Threads : \E w \in thread[t].todo : w[2][1] = layer /\ w[3] = u}
Expected(layer, u) == Cardinality(Mails(layer, u)) + Cardinality(Due(layer, u))

LayersBalance ==
    \A u \in Units :
        /\ \A i \in 1 .. Len(Layers) : IsFiniteSet(Mails(Layers[i], u))
        /\ Expected("global", u) <= Expected("customer", u)
        /\ Expected("customer", u) <= Expected("channel", u)
        /\ faults = 0 => Expected("global", u) = Expected("channel", u)

LayersInv == LayersInOrder /\ LayersBalance
=============================================================================
