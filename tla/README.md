# Verification of the update monitor

This directory holds TLA+ models of the update monitor (the Python program
under `src/`), the TLC configurations that check them, and proofs for TLAPS.
The program polls a vendor's download pages, records every package it sees as a
*snapshot*, decides which packages are new, replaced or withdrawn, and tells
customers through mail and chat channels according to subscription rules.

What makes it hard is not any single function but what happens between them:
several threads start collections; a page is compared with rows that were read
earlier and are written one by one; events live in memory while the statuses
they stand for are already committed; sends are recorded only after they have
happened; checks and the things they check are minutes apart; and requests to
the vendor, the database and the channels fail at any of these points.

Paths below are relative to `src/`, which contains the repository; the Python
package is `src/src/`.

## 1. Inventory

| Component | Code | State | Operations | Talks to |
|---|---|---|---|---|
| Collection guard, scheduler jobs | `src/core/scheduler.py`, trigger routes in `src/web/routes/` | `_is_running`, `_single_product_state`, `system_settings.collection_running` | `run_now`, `run_for_source`, `_smart_collect`, triggers, force-stop, start-up, heartbeat | everything below |
| Collection cycle | `src/collectors/nsfocus.py`, `src/core/scheduler.py` | the page cache, the lists of items and withdrawn rows of a run; table `snapshots` | `_collect_quick`, `_collect_full`, product loop, detection loop | vendor, snapshots, router |
| Snapshots | `src/models/snapshot.py` | `snapshots.status`, `first_seen_at`, `last_seen_at` | `save_snapshot` | cycle, router, cleanup |
| Change detection | `src/detector/change.py` | none of its own | `run_detection` | cycle, snapshots |
| Chain cache | `_build_url_chain_cache`, `_get_chain` in the scheduler | `_url_chain_cache`, `_chain_cache_loaded` | build, invalidate, look up | `content_sources`, matching |
| Notification router | `src/notifiers/router.py`, `src/models/subscription.py` | `delayed_queue`, `delivery_log` | `route_notifications`, `_send_immediate`, `process_delayed_queue`, resend | channels, rules |
| Digests | `src/notifiers/router.py`, `src/models/subscription.py` | `digest_queue`, `digest_last_sent` | `enqueue_digest`, `process_digests` | channels, rules, calendar |
| Rate limiters | `src/core/rate_limiter.py`, `src/core/email_rate_limiter.py`, `src/notifiers/email.py` | `push_rate_limits`, `email_rate_counters` | `check`, `record`, `clear_ban`; three layers of mail counters | manual pushes, mail |
| Session pool | `src/models/user_session.py`, pre-flight and heartbeat in the scheduler, `session_routes.py` | status, purpose, mode, heartbeat result of each vendor session | pre-flight, heartbeat, fall back of full runs, validation, edits | cycle, notices |
| Discovery and confirmation | `src/web/routes/system_routes.py`, `src/collectors/nsfocus.py`, refreshes in the scheduler | `_auto_discover_state`, `_confirm_state`, the pending file, `content_sources` | discover, cancel, confirm, discard, refresh, check | vendor, chain cache |
| Log scanner | `src/core/log_scanner.py`, `ingest_log_alert` | positions and their file, three deduplications | scan, post, fall back, deduplicate | the log files, the web server, notices |
| System events | `src/core/event_handler.py`, `src/models/event_log.py` | `event_log` | emit summaries and errors | notify channel |
| Quiet hours and push windows | `src/detector/change.py` | none | `is_quiet_time`, `is_window_time`, `compute_next_window_push_time` | router, digests |
| Cleanup | `src/core/scheduler.py` | retention of snapshots, logs | daily job | snapshots, delivery log |
| Database access, migration | `src/models/database.py`, `src/app.py` | connections per thread, schema | execute, retry, add columns | all |
| Notifiers | `src/notifiers/*.py` | none | format, split, send | HTTP, SMTP |
| Diff tool, web interface, users, channels, logging, scripts | the rest | records | request and response | database |

### What is hard in each, and what makes it correct

* **Guard.** `_is_running` is a plain Boolean that every trigger tests and,
  some statements later, sets. Correct means: at most one collection at a time;
  the flag comes down afterwards whatever happened; a restart is not shut out
  by what the last process left behind.
* **Cycle.** The vendor's pages show only the newest packages, so a package
  that is missing may have been pushed off by newer ones or withdrawn.
  `_collect_quick` decides by publication times. Correct means: nothing is
  called withdrawn that is not; a new package is announced once; a withdrawal
  is reported; the active rows are what the page shows; and where an event is
  lost because a run ended early, it is known where.
* **Router.** One event (a package, its chain, a rule) may reach
  `_send_immediate` at once, by a replay, by an overlapping run and by the
  resend button. Correct means: each channel hears of it once; none that the
  router took over disappears; a replay does not announce a package that has
  been withdrawn meanwhile; a due row is handled in the end.
* **Digests.** Rows wait for a day that is computed from a calendar, are read,
  posted, logged and marked in separate statements, and collect on meanwhile.
  Correct means: told once, marked only when told, and stranded only for a
  reason one can name.
* **Limiters.** Check and record are apart by a whole conversation. Correct
  means: a limit is overshot by no more than what was under way, and a ban ends
  when it should.
* **Sessions.** Three judges with three opinions write the same two columns, in
  two statements each, from answers that may be old. Correct means: a run works
  with a session that was seen working; a wrong verdict has a cause one can
  name; a loss is told; an expired session leaves the pool.
* **Discovery.** Rows are read, the vendor is asked for minutes, and the
  difference is applied days later from a copy in a browser. Correct means: what
  a writer who was not overtaken leaves behind is what the vendor shows; a
  result is not lost before it is used, nor offered afterwards; the running
  flags tell the truth.
* **Chain cache.** A dictionary is replaced by an empty one and filled while
  others look things up, without a lock. Correct means: once loaded and quiet it
  agrees with the table.
* **Log scanner.** Files rotate while they are read; the scanner gives up on an
  endpoint that is still at work; positions are saved last. Correct means:
  nothing read is forgotten, nothing is told twice without a cause.

## 2. The modules

| Module | What it is |
|---|---|
| `CollectionGuard` | threads, flags, triggers, heartbeat, crash and restart |
| `CollectionCycle` | vendor, page diff, snapshots, detection, hand-over of events |
| `NotificationRouter` | matching outcome, policies, queue, replay, sends, administrator, clock |
| `DigestQueue` | the rows of `digest_queue`, the check, the calendar, schedules |
| `Outbox` | what a queue in front of the notifiers promises; `DigestQueue` implements it |
| `PushLimits` | both limiters, the senders that pass them, time |
| `SessionPool` | sessions, the three judges, runs that use them, the user |
| `Discovery` | discoveries, confirmations, refreshes, the file, restarts |
| `ChainCache` | writers of the table, builds, look-ups |
| `LogScanner` | log files, scanner thread, endpoint, fallback |
| `...Proofs` | theorems about the module whose name comes before |
| `ServiceProofs` | theorems about `ChainCache` and `LogScanner` |
| `MC...` | the instances for TLC |

Each module has one action per operation or per stretch of a handler between
two points at which another thread, the process's death or an error can come
in; `PROJECT.json` gives the source lines of every definition. Definitions
headed *Mutant* are faulty variants of the definition after them: each is used
to see that a property notices that fault. History variables (their comments
say so) record what the code does not keep, for the properties only.

### CollectionGuard

A thread that executes `run_now` or `run_for_source` walks through `stale`
(about to read the database flag), `test` (about to read `_is_running`),
`window` (has read `False`, has not yet assigned), `init` (has assigned, is not
yet inside the `try`) and `body`. `run_now` checks the database flag first,
`run_for_source` the memory flag first, which is why the window is one state of
the former and two of the latter (`InWindow`). The web routes add their own
guards: `TriggerCollect` tests `_is_running` before it starts a thread,
`CollectSingleProduct` tests and sets `_single_product_state` in one lock,
`TriggerScheduler` tests nothing. `InitFails` is an exception between the
assignment and the `try`; `Crash` ends the process and clears all memory;
`StartScheduler` clears a flag that the last process left in the database.
Nothing in the code ever writes "1" to that flag (its setter has no caller), so
the model starts with either value, as a database from an older version may.
Writing it off may fail, and the failure is swallowed: hence
`dbFlag' \in {"0", dbFlag}`.

The interval job and the heartbeat exist only while `refresh_scheduler_jobs` has
let them in (`jobs`), and that follows the persistent switch `scheduler_enabled`
(`enabled`). `ForceStop` writes it off (an error of that write is swallowed) and
then saves the settings it was posted with, which turn it on again only if they
say so; `UpdateConfig` saves it too. Either reaches the refresh
(`RefreshSchedulerJobs`) or does not (`KeepJobs`): it is not asked for, or an
error comes first. A start finds the switch as it was left.

`missed` is history as well: the switch was turned on by a save that refreshed
nothing. `raced` and `leaked` are history: two threads were in the window
together; a run died in `init`. They let the properties say exactly what the
code promises *except* in those two cases.

### CollectionCycle

Packages are numbers in the order of publication. The vendor publishes, pulls
and relists packages at any time; a page shows a non-empty newest part of what
is listed on it. A row of `snapshots` is a pair of a product and a package. The
record `run` is what `run_now` or `run_for_source` keeps in local variables:
the products and URLs to go, the page cache shared by the products
(`shared_url_cache`, with the product that wrote each entry), the page being
compared, the items and the withdrawn rows collected so far, the NEW rows still
to be routed.

* `FetchPage` reads the page, the old rows and the resurrection mark; `DiffRow`
  handles one old row that is no longer on the page: by publication time it is
  superseded or withdrawn (`Displaced`), and that status is committed at once.
  Nothing is assumed of these times, which the code reads to the minute or the
  day: packages may show the same one or disagree with the order of publication
  (`Misdated`), and are then compared as the code compares them. `PageDone`
  caches the page.
* `CacheHit` is a second product on a page that was already read.
* `DetectSource`, `SaveItem`, `SaveDone`, `Announce`, `Report` are the
  detection loop: `SaveSnapshot` is the three-tier identity rule of
  `save_snapshot`; `IsNew` is the test `first_seen_at = last_seen_at`, whose
  granularity is the second (`fresh`, `Tick`).
* The faults are a request that fails, an error while a page is compared or an
  item is saved, a session that expires, and the end of the process or run
  (`RunDies`) between any two steps.

### NotificationRouter

An event is a key `<<snapshot, chain, rule>>`, the columns by which the tables
tell repetitions. `Collect` hands a thread the matches of a collection;
`Resend` is the button. `RouteSuppressed`, `RouteHeld` and `RouteNow` are the
three outcomes of `route_notifications`. The insertion into a queue is a step
of its own (`Insert`), since the look-up for an equal pending row is an earlier
statement. Sending is the loop of `_send_immediate`: `SkipInactive`,
`SkipDuplicate`, `CheckLog` (the look-up in `delivery_log`), and then, a step
later, `Deliver` (the answer of the notifier and the new row of
`delivery_log`), or `DeliverUnlogged` when the message is out and the row is
not written. `ReadDue`, `DropRow`, `PostponeRow`, `ReplayRow` and `SendDone`
are `process_delayed_queue`. The administrator deletes and toggles rules,
toggles channels and maintenance mode and clears the history; the clock opens
and closes quiet hours and windows, lets the minimal interval pass and rows
come due. `execute()` opens a connection without `PRAGMA foreign_keys`, so rows
of a rule that is deleted meanwhile are written all the same.

### DigestQueue and Outbox

A row of `digest_queue` holds its event and the key of the period in which it
was written. `PeriodKey`, `IsDay`, `Clipped` and `KeyToday` are the arithmetic of
`route_notifications` and `get_rules_due_for_digest`, over a calendar that is a
sequence of dates: the key of a week joins the calendar year with the ISO week.
`StartCheck` computes the rules that are due; `ReadBatch` reads the pending rows
of one of them, cancels those of retired packages, skips a rule outside its
window, and keeps one full package per group (`IsFiltered`); `Post` and `LogRows`
serve one channel, `SkipChannel` passes over mail and inactive ones; `MarkRows`
marks every row of the period that is pending *now*; `CloseRule` writes
`digest_last_sent`. `BreakOff` is an exception or the end of the process between
any two of them. Collections insert rows and retire packages at any time,
`NextDay` may come without a check, the administrator changes schedules.

`Outbox` is the abstract specification: items are accepted, told, and settled or
dropped for good; nothing is told that is not held. The refinement mapping
`Box` takes rows as items and channels as places, the state of a row as its
stage, and the posts that were answered as what was told.

### PushLimits

A thread serves a push by hand, a resend, a rule or an alert. `Admit`, `Exceed`
and `PlaceBan` are `check()` (the ban is an UPDATE of its own); `Bypass` are the
senders that do not ask. `PassLayer` and `RefuseMail` are the three layers that
`EmailNotifier.send` asks one after the other, `CountMail` one of the six upserts
of `record()` after the SMTP conversation, `Log` and `LogFails` the delivery log
that comes before `record()` of the other limiter (`ReadRow`, `WriteRow`). Stored
instants are kept as what the code computes from them: the age of a window, the
time a ban has left, the counters of the current buckets; `Tick` advances all of
them. `Or` is Python's `int(setting or default)`, in which a 0 does not survive.

### SessionPool

A row has a status, a purpose, a mode and a heartbeat result. The judges are the
pre-flight of a run, the heartbeat and the user's validation; each probes
(`Probe`), writes the status (`WriteStatus`), then the result and the notice
(`WriteBeat`), with the verdict in hand meanwhile (`hand`). The page of a
session that works may carry the marker of a switched context, as the pages of
some products do by design (`src/collectors/nsfocus.py:783`, `Misleads`): a
verdict by the page alone is `marked`. The verdicts differ: `PreflightVerdict`
follows redirects and calls a network error a failure, `HeartbeatVerdict` looks
for the marker of a switched context in collecting sessions only, `UserVerdict`
does not look at the page. `BeginCollecting`, `NextProduct`, `FallBack` and
`GiveUp` are the use of the pool by quick and full runs; `WriteFails` and
`ThrownOut` are what an exception skips or ends; `Crash` ends the process. The
vendor lets sessions expire or switches their context. `edited` remembers what
the user edited or deleted since the run began.

### Discovery

`StartDiscover`, `Scan`, `Begin`, `Worked`, `Publish`, `Save` and `Fails` are
the thread of `discover_products` with its two stages and its workers (`OnlyNew`
stands for the workers of new products, which ask the vendor nothing). A worker
that raises (`Raised`) leaves its product without a difference; all of them do
while `state.workers` is missing, since the end of a confirmation replaces the
state by one without that key. `Confirm` to `Reset` are the thread of
`discover_products_confirm`, which applies the plan that the user's page shows
(any published one) if any result is on offer; `Discard`, `Cancel` and `Edits`
are the user, `StartJob`, `Crawl` and `JobWrites` the refreshes by hand and
after a full run. A confirmation that fails (`ConfirmFails`) leaves its flag up,
`left` in `masked`. `Restart` ends all threads and reads the pending file back.
A path stands for a chain with its type; what a page shows of a product may be
fetched in part (`Fetched`).

### ChainCache

The chains of a source are the number of the write that put them there, or
`Missing` if the table has no active row of it: sources come and go (`come`).
`Save` writes and then invalidates, `WriteSilently` are the writers that do not,
the creation and deletion of products among them. `Bind`, `ReadTable`, `Fill`
and `EndBuild` are `_build_url_chain_cache`, one step for each row it fills in;
`ReadFails` is a query that raises. `LookUp` builds when nothing is loaded, then
`Look` takes a source's entry from the dictionary in place.

### LogScanner

A line is a record in `log` (one that patterns of two types match gives two
findings and stands for two), and `content` has the lines of each current file,
which `Rotate` empties. Positions, byte offsets in the code, count lines. What a
scan has found is a set, sent in the order of the files and their lines
(`Takes`). `ReadLog`, `ReadHeartbeats` and `ReadAudit` are the scans by kind of
file, `Post`, `GivesUp`, `Fallback` and `FallbackRaises` the sending of a
finding, `IsRefused` an answer other than 200, which is only logged, `Skip`,
`Remember` and `Notify` the endpoint, which runs in a thread of the web server
and goes on when the scanner has given up on it. `SavePositions` is the end of a
scan, `Restart` a new process with the positions of the file.

## 3. Runs

| Run | Question | Instance |
|---|---|---|
| `guard` | What does the flag guarantee, and do collections keep coming? | the worker and two route threads, one crash, two saves of the settings, switch on or off at first |
| `cycle_one_page` | Is the page diff right about what is gone, and do rows mirror pages? | three packages on a page, the last two with the same time, one pulled and relisted, one fault |
| `cycle_shared` | Do events survive a page shared by two products, an undated package, an unconfirmed page, an expiry? | two products, two pages, three packages |
| `cycle_modes` | Is anything announced twice between quick, full and single-product runs, and is the newest package recorded in the end? | two packages, one page, one pull, fault and expiry |
| `router` | Is each channel told once, through sends, replays and resends, with a fault? | one run, one request, two channels, a rule with quiet hours and an interval, a rule that collects for a digest |
| `router_overlap` | Do overlapping runs and the administrator lose anything, and are due rows handled? | two runs, one rule, one channel, one fault, one change |
| `digest` | Are rows told once, marked when told, and not stranded without a cause? Is the queue an outbox? | one rule, a robot and a mail channel, two rows, three days around New Year 2027, a weekly and a quarterly schedule, one fault, one change (of a window, or by the administrator) |
| `push_limits` | How far are limits overshot, what ends a ban, do the layers agree? | two threads, one key, one channel, one customer, one fault |
| `sessions` | Which session does a run work with, which verdicts are wrong, who is told? | two sessions of two modes, one that turns, one upset (a misleading page among them) |
| `discovery` | What do discoveries and confirmations leave behind, and what becomes of results and flags? | two products with a path each, two discoveries, two confirmations, two upsets |
| `chain_cache` | When does the cache agree with the table, which look-ups are blind? | two sources that come and go, two savers, one look-up thread, four writes, one failed query |
| `log_scanner` | Is what was read handed over, once, in the end? | three files, two lines, files of one line, two troubles |

The properties, and why each could fail:

* `ExclusiveUnlessRaced`: one collection at a time, as long as no two threads
  were in the check-then-set window together. It needs every trigger to test and
  every path out of a run to release. `FlagTellsTruth`: unless raced, no run
  loses the flag to another thread, be it one that is refused, one that rejects
  its source or a starting scheduler; and, raced or not, a raised flag belongs
  to a run or to a failed set-up. `CollectionsKeepComing`: through crashes,
  refusals and saved settings, collections happen again and again, unless a
  failed set-up left the flag up, or there is for good no interval job, because
  the switch stayed off or was turned on by a save that refreshed nothing.
* `NoFalseWithdrawal`, `WithdrawnNeverRevives`: a row is called withdrawn only
  if the vendor pulled its package, or if the page dates a later package no
  later (`Misdated`), and then for good. The diff works on a page and rows read
  at different times, with packages displaced by newer ones.
* `NewsAccounted`, `WithdrawalsAccounted`: between runs every row was announced
  (reported), or was silenced as a resurrection, or its event is in the named
  list of losses: an early end of its run.
* `AnnouncedOnce`: no row is announced twice unless it was saved twice in its
  first second. `SilenceHasCause`: silence needs a row on that page that was
  withdrawn by the vendor or for its time.
* `MirrorsPage`: after an undisturbed run, the active rows of a page are what it
  shows. `NewestIsRecorded`: a package that stays the newest gets a row.
* `ToldOnce`: a channel gets an event at most once, unless two threads sent it
  at the same moment, its log row was not written, or the log was cleared.
* `EventsAccounted`: what the router took over is in a thread's hands, in a
  queue, or was tried on every channel; or it was dropped for its package's
  status, or died with its thread.
* `ReplaysAreActive`: a replay sends only active packages, as long as runs do
  not overlap. `OverdueIsHandled`: no row stays due and pending for ever while
  its rule may send.
* `DigestToldOnce`: a row is told to a channel once, unless a check broke off
  between message and mark. `SentIsAccounted`: a row marked as sent was read
  while its package was active and is in the log for every active robot (or a
  newer full package of its group is), unless it came between reading and
  marking. `StrandedHasCause`: when its period is over, a pending row came too
  late, or its day was missed, or it never had a day. `DigestGoesOut`: on its
  day, with its window open, a rule's rows go out in the end. `IsOutbox`: the
  queue implements `Outbox`.
* `WindowBound`, `MailBound`: limits are passed by at most what the other
  threads had under way. `LayersAgree`: channel, customer and system count the
  same mails, and between the six statements the system lags. `BanStands`: a ban
  ends early only by an operator, or by a push let through before it that
  restarts the window.
* `CollectsWithSeen`: the session a run works with is meant for collecting,
  unless the user edited it during this run, and one that the run's own
  pre-flight saw working, but for the fall back of a full run. `MarksAreTrue`: a
  session the vendor still takes is out of the pool only after a network error
  in the pre-flight, when a full run blamed it, or when its page carried the
  marker. `LossIsTold`: each loss a judge wrote down is told, is in its hands,
  or its notice was lost, and a failure or crash loses at most two of them.
  `ResultAgrees`: but for verdicts that crossed and writes that failed, an
  active session that `get_expired_active_count` counts has the result of a
  request without a proper answer, and one that is out does not have a good one.
  `ExpiryIsNoticed`: expired sessions leave the pool in the end.
* `FlagsTellThreads`: one discovery and one confirmation at a time, and flags
  that say so, except where a discard or the end of a confirmation takes them
  down under a thread, and the flag that a failed confirmation leaves up.
  `ResultStaysOffered`, `ClosedStaysClosed`: a saved result is offered, through
  failures and restarts, until it is used, and never again (after a failed
  confirmation it is shown, but confirming it is refused until a restart).
  `CancelIsHeeded`: a cancelled discovery delivers nothing. `CleanWriteMirrors`:
  whoever writes the paths of a product without having been overtaken or having
  missed a page leaves what the vendor shows, with its mark.
* `CacheIsCurrent`: a loaded cache without a build under way has the chains of
  the table, save for writes nobody announced, unless builds crossed or failed.
  `BlindForACause`: a look-up misses a source of the table only if that came
  without a build since, beside somebody else's build, or after such an
  accident.
* `SavedIsHandled`: lines below a saved position were handed over, or their scan
  was broken off or their finding refused. `ToldAgainForACause`: a line is told
  again only after a call without answer or a restart. `OneRingPerWindow`: one
  alert of a kind per five minutes, also for calls that overlap. `ErrorsGetOut`:
  an error is handed over in the end unless rotated away, dropped or refused,
  switched off or stood for.

### What the code does otherwise than it says

Found while modelling. The models follow the code, so that the properties above
hold *with* these exceptions, each of which is a disjunct or a history variable
of a property or a case its comment names.

Guard and cycle
* `run_for_source` says "与全局采集互斥 (共用 _is_running lock)"
  (`src/core/scheduler.py:1005`), but test and assignment are apart (`:1013`):
  two triggers can both pass (`raced`).
* The database flag is never raised, although `_check_concurrent_stale` speaks
  of persisted state (`:305`). Force-stop answers that the collection is
  stopped, but no running collection reads what it writes
  (`src/web/routes/api_routes.py:1450`).
* Force-stop turns the switch of the scheduler off as something temporary ("临时",
  `api_routes.py:1457`), but the row stays "0" unless the posted settings carry
  a "1" (`:1474`; the page posts its checkbox): after a restart
  `refresh_scheduler_jobs` adds no interval job. A save by the settings route
  that fails half-way leaves the switch on and the jobs as they were (`missed`).
* `_collect_quick` tells displacement from withdrawal by publication times
  (`src/collectors/nsfocus.py:621`), which are read to the minute or the day
  (`:49`): a package pushed off a page that shows no later time than its own is
  written off as withdrawn, reported so, and silences what comes after
  (`NoFalseWithdrawal`, `SilenceHasCause`).
* Two saves of a row in one second both find it NEW (`src/models/snapshot.py:326`
  against `src/detector/change.py:80`); after one withdrawal on a page,
  packages published later there are inserted silently
  (`src/models/snapshot.py:343`, `src/collectors/nsfocus.py:573`).
* An expired session, a dead run or an empty result drops withdrawals that are
  already written to their rows (`src/core/scheduler.py:906`); `_collect_full`
  adds the *pair* returned by `_collect_quick` to its items, and the detection
  loop fails on it (`FullRunFails`). A NEW row of an unconfirmed page is dropped
  when another row has a chain (`:681`).

Router and digests
* `delivery_log` has no kind: after a resend of a package its withdrawal is
  skipped (`docs/modules/04-订阅规则.md:249`, `src/notifiers/router.py:211`).
  Withdrawals match no rule with chain conditions, since they travel without
  URL (`src/core/scheduler.py:747`, `src/collectors/nsfocus.py:553`).
* A row is marked pushed whatever the channels answered (`router.py:416`).
  `push_after` is local time and is compared with UTC; `cancel_for_snapshot`,
  `cancel_digest_for_snapshot` and `reset_timer_for_rule` have no caller.
* A weekly digest goes out on its day only for rows written since the week
  began: with the default Monday, packages of Tuesday to Sunday are never sent
  (the manual puts the day at the end of the week, `docs/modules/04-订阅规则.md:138`).
  Around New Year year and ISO week disagree, and the rows of such a week are
  stranded. Rows that arrive after the digest of their period are stranded too.
* Mail channels get no digest, and failed posts are logged as sent; the rows are
  marked in both cases. Older full packages that the digest leaves out are marked
  as well. `_split_text` drops characters at the cuts.

Limits
* `resend_targeted` asks neither the manual limiter nor the limits of the channel,
  alerts only the system's, and alerts are not counted. The "sliding" window
  (`src/core/rate_limiter.py:3`) is a fixed one. Two first pushes of a key
  collide in an INSERT, and a delivery log that fails skips `record()`.
* The page says "0=不限制" for limits of mails; `int(x or 10)` makes 10 of it
  (`src/notifiers/email.py:110`).

Sessions
* A heartbeat round that began before a collection goes on during it
  (`src/core/scheduler.py:1703`). A network error in the pre-flight marks a
  session expired, and only the user's validation brings it back; that one also
  revives a session whose context was switched. A redirect to the licence page
  is a sign of life for heartbeats and an error for the user.
* A full run falls back on a pool read before the pre-flight, blames its first
  session, and does not return to the chosen cookie. `last_valid` is never
  written. `get_expired_active_count` is to find active sessions whose heartbeat
  says they are lost, but of those a judge writes the status as well; what it
  counts is sessions whose last probe had no answer
  (`src/core/scheduler.py:1794`), and lost ones only when verdicts crossed or a
  write failed (`ResultAgrees`).
* The marker by which the pre-flight and the heartbeat recognise a switched
  context is part of some products' good pages by design, as `verify_session`
  says of itself (`src/collectors/nsfocus.py:783`): a session that works can be
  written off as polluted (`MarksAreTrue`).

Discovery and chain cache
* The difference compares chains and types, although `diff_package_types` says
  that the URL is the key: moved pages are never updated. `if not discovered`
  never holds for an empty answer, so that a failed entry page empties the
  types of a product (`src/core/scheduler.py:1302`). A difference that the row
  already has takes its mark down (`system_routes.py:1417`).
* A confirmation that fails raises again in its handler, since the local
  `_log(msg)` (`system_routes.py:1261`) takes no `level` (`:1562`): its flag
  stays up, and later confirmations are answered 409 until something is
  discarded or the service restarts (`FlagsTellThreads`). A confirmation that
  ends replaces the state of a discovery at work by one without `workers`
  (`:1556`): each of its workers then fails with a KeyError, and its products
  look unchanged.
* `upsert_source` by name takes types and activity from a product that has
  moved. A result of long ago may be applied from another tab. A
  cancellation is looked for only when a worker answers: during the scan of the
  index it waits, and with no product on the index it is ignored; after one, an
  older file can still be confirmed. The 409 of a refresh is decided before its job is
  queued (`:1799`).
* The cache is rebuilt after edits of a product, as its docstring says
  (`src/core/scheduler.py:78`), but not after refreshes, the check after a full
  run, a confirmation that breaks off (`unseen`), or the creation of a product
  (`system_routes.py:758`), whose packages then match no rule with conditions on
  chains (`come`).

Log scanner
* Rotated files are never opened although the module's text names them
  (`src/core/log_scanner.py:4`); a new file that has grown past the old position
  is read from there. An answer other than 200, for instance of the guard that
  precedes the endpoint when its query raises (`src/app.py:343`), is logged as a
  warning, and its finding is lost (`src/core/log_scanner.py:546`). The list of
  failed logins keeps two entries after an alarm, so that one more failure
  raises the next.

### Bounds

Bounded are: crashes, saved settings, faults, upsets, expiries, withdrawals,
resends, writes and administrative changes (`Max...`, tested in the guards of
their actions), and the counters of history variables (the properties only tell
"none", "one" and "more"). Threads may start again any number of times, runs
follow each other without bound, and rows come due in any order. One crash is
enough for the guard, since a crash resets all of memory and its history
variables; two saves of the settings turn the switch off and on again, in both
orders; three packages are the least with which a page can lose its newest, its
oldest and one in the middle; two products share a page in both orders; two
overlapping threads suffice for every check-then-act in router and limiters,
since each of their checks looks at one key; two rows are the least of which a
digest keeps one; three days hold a week before, over and after New Year; two
discoveries and two confirmations cross in every way that one flag, one file and
one result in memory can be fought over; two builds are the least that cross;
two lines make an alarm and a repetition. One upset in `sessions` lets each
failed write or answer happen at any point, not two of them. Symmetric sets
(channels, threads, products) are used as such only without liveness. The proofs
do without all of these bounds.

### Fairness

* `CollectionGuard`: threads that have started take steps, a supervisor restarts
  a dead process (`deploy/nsfocus-monitor.service`: `Restart=`), and the
  interval job, while it exists, calls `_smart_collect` again (APScheduler, one
  worker). Settings are saved finitely often. Nothing is assumed of the routes,
  of the heartbeat or of faults. The stored interval is a number: with any other
  text a start would fail; a save of one is a refresh that fails. The fairness
  of the models below, as far as it is that of jobs, presupposes
  `scheduler_enabled = '1'`.
* `CollectionCycle`: a run goes on; a quick run starts again and again although
  other runs come in between (strong fairness). That is what
  `CollectionsKeepComing` establishes for the guard while the switch is on.
  Failures need no fairness but are bounded in number: a page that always fails
  is never read.
* `NotificationRouter`: threads go on and runs recur. A run that collects
  nothing ends before it reads the queue; it changes nothing here and does not
  count as a `Collect`.
* `DigestQueue`: the interval job starts the check again and a check goes on
  (weak fairness). That the window stays open is a premise of the property.
* `SessionPool`: run and heartbeat threads go on (weak), runs come to an end and
  rounds start again and again although most attempts meet a run or are passed
  over (5 % of the rounds are): strong fairness of `EndRun` and `StartRound`. It
  assumes that heartbeats are switched on (`heartbeat_enabled`; off by default).
* `LogScanner`: the loop wakes every 30 minutes, and requests have timeouts
  (weak fairness of `ScanStep` and `EndpointStep`).
* `PushLimits`, `Discovery` and `ChainCache` state safety only.

## 4. Proofs

For every set of threads, every catalogue and every bound:

* `CollectionGuardProofs`: `Invariance` (`Spec => []IInv`), and from it
  `Typing`, `Exclusion` (`ExclusiveUnlessRaced`), `FlagsTell`
  (`FlagTellsTruth`), `FlagTruth` and, with the action of the heartbeat,
  `HeartbeatStart`. Exclusion alone is not inductive: a thread may enter the
  window because the flag is down, so the flag must be tied to the threads past
  the test (`FlagTellsTruthUnlessRaced`); a flag left up by a failed set-up must
  be known to keep everybody out (`LeakShutsOut`), since that run is no longer
  past the test; and a process that starts must be known to have no threads
  (`DownIsEmpty`). `JobsFollowSwitch` is the part of the switch.
* `CollectionCycleProofs`: `Invariance` (`Spec => []CInv`), and from it
  `Typing`, `Withdrawals` (`NoFalseWithdrawal`) and `NoRevival`
  (`WithdrawnNeverRevives`). That a row marked withdrawn was pulled follows from
  the moment of the comparison, when page and rows are local variables and the
  vendor has moved on. `DiffIsSound` carries over what was true when the page
  was read: a missing row is older than all the page shows, or was pulled. Of a
  row that is older and not `Displaced` by its time, the page itself is the
  witness that it is `Misdated`. It needs that what is not pulled stays listed
  and that rows, pages and cache hold published packages only (`OnlyPublished`).
  On top of it, `NewsTold` (`NewsAccounted`), `NewsOnce` (`AnnouncedOnce`),
  `WithdrawalsTold` (`WithdrawalsAccounted`), `SilenceCaused`
  (`SilenceHasCause`) and `Mirrored` (`MirrorsPage`). These speak of a run that
  has ended; in the middle of it a row, an item or a withdrawal is in one of six
  lists of local variables. `PhasesAreClean` says which lists are empty in which
  phase. `NewsAreHeld` and `WithdrawnAreHeld` keep the accounts open: each row
  of the table is announced, silenced, lost, or still in the list of its
  product. The mark of a resurrection goes from page to cache to item, and
  `MarksHaveCause` follows it. A page is mirrored when its items are saved;
  until then `PagesAreRecorded` asks for the items that are still on their way
  (`ToSave`), of the same page (`ItemsAreOfPages`), and while it is compared
  `PageIsCompared` leaves out the rows that the comparison has yet to reach.
* `NotificationRouterProofs`: `Invariance` (`Spec => []RInv`), and from it
  `Typing`, `Told` (`ToldOnce`) and `Replays` (`ReplaysAreActive`).
  `ToldOnce` alone is not inductive: a delivery adds one to what was told, so
  nothing may have been told before. The log says so only if it is complete
  (`LogIsComplete`), and what it said when `CheckLog` read it must still hold
  when the notifier answers (`SendsAreFresh`): no other thread can have logged
  the same event and channel meanwhile without having been seen at that send.
  A replay checks the status of its package once; that it still holds at the
  later sends needs `ReplaysAreSerial` (a status changes only with a collection,
  and two collections at a time are an overlap) and the fact that requests
  replay nothing (`HandsAreReal`). All actions that neither begin nor end a send
  share one lemma (`Calm`). `Accounted` (`EventsAccounted`) needs to know of
  each thread which channels of its event it has tried: those that are not
  ahead of it (`SendsAreTried`), and that what is in the log was sent.
* `ServiceProofs`, of `ChainCache`: `Invariance` (`Spec => []IInv`), and from it
  `Currency` (`CacheIsCurrent`) and `SightedLookUps` (`BlindForACause`). What is
  in the cache when a build ends was read before, so the invariant speaks of
  builds: unless spoiled there is one (`OneBuild`), which reads into an empty
  dictionary (`ReadsIntoNothing`: the entry of a source that was deleted
  would stay), what it holds is current but for what was written since
  (`BuildIsCurrent`), it has an entry for each source of the table that has not
  come since (`RowsAreThere`), and so has a quiet loaded cache
  (`CacheIsComplete`).
* `ServiceProofs`, of `LogScanner`: `ScannerInvariance` (`ScannerSpec =>
  []ScannerInv`), and from it `RestartsLoseNothing` (`SavedIsHandled`),
  `TellsHaveCause` (`ToldAgainForACause`) and `RingsOncePerWindow`
  (`OneRingPerWindow`). The saved position is a copy of the one in memory, made
  when nothing is in hand; so the invariant says what the latter covers: lines
  handed over, in the hands of the scan, or stood for by another heartbeat
  (`PositionsAreHandled`). That a stamp kept in memory stands for a line needs
  `StampsAreLines`: the line is there and has been read, so it is not the one that
  is skipped for it. A line can be told by the scan, by its request and by the
  fallback, and `TellsAreCounted` reserves one for each hand it is in:
  unread, found, posted, given up. That it is in one at most is
  `LinesAreReadOnce`. An alert rings only when its entry is gone, and the entry
  goes no earlier than the window (`RingsAreRemembered`). The two services share
  no state, and share a module of theorems only.
* `DigestQueueProofs`: `Invariance` (`Spec => []DInv`), `Typing`, `ToldOnce`
  (`DigestToldOnce`) and `Implementation` (`IsOutbox`, that every behaviour of
  the queue is one of `Outbox`). A row may be told only if it was not told
  before, and no log is asked: what protects it is that it is still pending. So
  the invariant says whose hands told rows are in (`TellsAreCovered`: a row told
  and still pending is the present check's, or an earlier one broke off), and
  that those hands hold pending rows of their rule and period
  (`HandsArePending`), which nobody but the check itself settles. The refinement
  goes step by step: each action of the queue is one of the outbox or a stutter.
  `SentAccounted` (`SentIsAccounted`) and `StrandedCaused` (`StrandedHasCause`)
  need more of a check at work. A row is marked although its message may be that
  of a newer one, so `BatchIsRead` says of the batch in hand that each row was
  seen active, is kept or has a kept newer one, and that what is kept is in the log
  of every robot that is not ahead. A row is stranded by days that pass: what
  waits has none of its days behind it, unless its digest is in work
  (`DayIsTaken`), since the check of a day deals with every rule whose day it is
  (`CheckedToday`) and what comes after it is marked (`LateIsMarked`).
* `PushLimitsProofs`: `Invariance` (`Spec => []LInv`), `Typing`,
  `PushesAreBounded` (`WindowBound`), `MailsAreBounded` (`MailBound`) and
  `BansStand` (`BanStands`), for any limits, windows, threads and customers. A
  counter stays below its limit plus the other threads only because those that
  were let through and have not counted yet are threads too: the invariants add
  them to the count (`WindowBound`, `MailsAreReserved`), each thread once, also
  while it is between the six upserts of one mail (`CountsAreOwn`). A ban marks
  everybody it overtakes (`OvertakenAreStale`); who is not marked cannot restart
  the window. `LayersCountAlike` (`LayersAgree`) compares sums over all channels,
  all customers and the system. The model takes such a sum as the cardinality of
  the set of mails counted (`Mails`), which changes by one element at a time, so
  that no induction over the keys is needed; what the threads have yet to count
  is added (`LayersBalance`): with it the layers are even, failures apart, and it
  is never less for the system than for the others, because the layers are counted
  in order (`LayersInOrder`).
* `SessionPoolProofs`: `Invariance` (`Spec => []PInv`), `Typing`, `CollectsSeen`
  (`CollectsWithSeen`), `MarksHold` (`MarksAreTrue`), `LossTold` (`LossIsTold`)
  and `ResultsAgree` (`ResultAgrees`). Verdicts are written when the session may
  already be another, so the invariant follows the verdict in hand: a bad one is
  about a session that was bad and cannot have become good by itself, or was
  given by the page alone (`ProbesAreReal`), the second write of a pair fits the
  status that the first one left, unless verdicts crossed (`WritesWillFit`), and
  the chosen session was seen by this run's pre-flight (`RunsAreSeen`). Whoever
  a run may still turn to was in the table for collecting when it began, and
  only an edit changes that (`RunsAreMeant`).
* `DiscoveryProofs`: `Invariance` (`Spec => []KInv`), `Typing`, `FlagsTell`
  (`FlagsTellThreads`), `StaysOffered` (`ResultStaysOffered`), `StaysClosed`
  (`ClosedStaysClosed`), `Heeded` (`CancelIsHeeded`) and `CleanWrites`
  (`CleanWriteMirrors`). The last one is the long argument. A write is days away
  from the reading it rests on, through several sets of local variables; each is
  tied to the row and the vendor's pages for the products that nothing has
  touched since: the plan of a run (`PlansAreTrue`, product by product in
  `Knows`), the row picked by a confirmation (`ConfirmsAreTrue`), what a refresh
  read and fetched (`JobsAreTrue`). Each change of a row or a page puts its product
  in doubt everywhere (`Touched` in the proofs). The flags are proved without
  counting (`FlagsAreTrue`), cardinalities come at the end; `ClosedAreDone` keeps
  results that are not yet saved from being closed, `StopsAreSeen` keeps the
  request of a cancellation in place until it is seen.

The type invariants and `HeartbeatStartsOutsideRuns` are proved and not part of
a run.

The assumptions are those of the modules (`GuardAssumption`, `CycleAssumption`,
`RouterAssumption`, `DigestAssumption`, `LimitAssumption`, `SettingAssumption`,
`RequestAssumption`, `PoolAssumption`, `DiscoveryAssumption`, `CacheAssumption`,
`ScannerAssumption`): types, and that threads of different kinds are different
threads. TLC evaluates them in every run.

All safety properties of the runs are proved. Checked by TLC only are the
liveness properties (`CollectionsKeepComing`, `NewestIsRecorded`,
`OverdueIsHandled`, `DigestGoesOut`, `ExpiryIsNoticed`, `ErrorsGetOut`), which the
prover cannot reach, as it knows neither fairness nor `ENABLED`. Where a proof
needs the greatest element of a set (`Max` in the stamps of heartbeats), it comes
from the well-founded order of the natural numbers (`LeastNatural`,
`MaxIsGreatest`), not from an induction. No module with a theorem declares a
RECURSIVE operator.

## 5. What the models leave out

* Runs are serial in `CollectionCycle`. That they can overlap is shown by
  `CollectionGuard`; the router, which can be reached by two runs at a time, is
  modelled with overlapping threads.
* Statements of one handler without a fault or another thread's interest
  between them are one step. `delete_rule` is one step although it is five
  statements; a thread that inserts between them leaves rows of a rule that is
  gone, which `NotificationRouter` reaches by inserting after it.
* Legacy products whose snapshots have no URL; two packages that share both file
  name and md5.
* Messages, templates, recipients, attachments and the push summary. A channel
  that fails and one without recipients look the same: a send that failed.
  `told` counts the sends that the notifier reported as successful; a message
  that arrived although its send was reported as failed is not counted.
* Limits are natural numbers in `PushLimits`; the settings routes do not refuse
  negative ones (`src/web/routes/api_routes.py:1467`, `:1494`).
* The policies of a rule are constants of the router; only existence, the
  enabled flag and the clock change. All packages are of one product there, so
  that `min_interval_hours` is one Boolean. In `DigestQueue` schedules change.
* `push_after` is local time and is compared with UTC; rows may come due at any
  time in the model, which covers both.
* The patterns of the log scanner, the pages of the discovery and the verdicts
  of the vendor's portal are abstracted to what the program concludes from them.

## 6. Not modelled

* **Quiet hours, push windows, chain matching**: functions of a time or of two
  lists of names, without state. The models let windows open and close at any
  time and take the outcome of the matching as a constant, which covers every
  clock and every rule.
* **System events and the push summary**: one insert and one call of a notifier.
* **Cleanup**: DELETE statements by age that nothing waits for. (Their condition
  spares snapshots that `delivery_log` refers to, not those of `delayed_queue`,
  `src/core/scheduler.py:2016`.)
* **Database access and migration**: `execute()` is one atomic step of the
  models, which is what its lock provides; retries and added columns are left
  out.
* **Intervals and the other jobs of `refresh_scheduler_jobs`**:
  `CollectionGuard` has its switch and whether the interval job exists. How long
  the intervals are does not matter there, since a job may start at any time it
  exists; the other models leave the switch on.
* **Notifiers, package diff, web pages, authentication, users, channels,
  audit, logging, scripts**: formatting, I/O and records without a protocol.
