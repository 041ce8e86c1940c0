--------------------------- MODULE CollectionGuard ---------------------------
(***************************************************************************)
(* Who may collect: the memory flag _is_running, the database flag         *)
(* collection_running, and the triggers, heartbeat, force-stop and restart *)
(* that meet at them (core/scheduler.py and the routes that start runs).   *)
(*                                                                         *)
(* A thread that executes run_now or run_for_source goes through           *)
(*   stale   about to read collection_running   (_check_concurrent_stale)  *)
(*   test    about to read _is_running                                     *)
(*   window  has read _is_running = False and has not set it yet           *)
(*   init    has set it, and is outside the try block                      *)
(*   body    inside the try block                                          *)
(* run_now checks in the order stale, test; run_for_source in the order    *)
(* test, stale.  Nothing makes the test and the assignment one step, so    *)
(* they are two; `raced' remembers that two threads were between them.     *)
(*                                                                         *)
(* The interval job exists only while the persistent switch                *)
(* scheduler_enabled let refresh_scheduler_jobs add it; force-stop turns   *)
(* the switch off, and the settings page saves it.                         *)
(***************************************************************************)
EXTENDS Naturals

CONSTANTS
    Worker,        \* the scheduler's thread, which runs the interval job
    Background,    \* threads the routes and the first-run check start
    MaxCrashes,    \* bound on process deaths
    MaxSaves       \* bound on saved settings: a save may restart the interval

ASSUME GuardAssumption ==
    MaxCrashes \in Nat /\ MaxSaves \in Nat /\ Worker \notin Background

Threads == Background \cup {Worker}

VARIABLES
    pc,            \* where each thread is
    kind,          \* what each thread executes: run_now, or run_for_source
    isRunning,     \* scheduler._is_running
    singleActive,  \* scheduler._single_product_state['active']
    dbFlag,        \* system_settings.collection_running: status "1" or not
    process,       \* "down", or "up" once start_scheduler has completed
    heartbeat,     \* _session_heartbeat: "idle", "delay" or "probing"
    raced,         \* history: two threads were inside the window together
    leaked,        \* history: a run died between the assignment and the try
    crashes,       \* process deaths so far
    enabled,       \* system_settings.scheduler_enabled is "1": persistent
    jobs,          \* the interval job is in the scheduler
    missed,        \* history: saved as "1" by a save that refreshed nothing
    saves          \* saves of the settings so far

threadVars == <<pc, kind>>
flagVars   == <<isRunning, singleActive, dbFlag>>
history    == <<raced, leaked>>
switchVars == <<enabled, jobs, missed, saves>>
lifeVars == <<process, crashes, switchVars>>
vars == <<pc, kind, isRunning, singleActive, dbFlag, process, heartbeat,
          raced, leaked, crashes, switchVars>>

Places == {"idle", "stale", "test", "window", "init", "body"}
Kinds  == {"now", "single"}

\* The types of all the state: the places of a thread, the flags, the heartbeat.
TypeOK ==
    /\ pc \in [Threads -> Places]
    /\ kind \in [Threads -> Kinds]
    /\ isRunning \in BOOLEAN
    /\ singleActive \in BOOLEAN
    /\ dbFlag \in {"0", "1"}
    /\ process \in {"down", "up"}
    /\ heartbeat \in {"idle", "delay", "probing"}
    /\ raced \in BOOLEAN
    /\ leaked \in BOOLEAN
    /\ crashes \in 0..MaxCrashes
    /\ enabled \in BOOLEAN
    /\ jobs \in BOOLEAN
    /\ missed \in BOOLEAN
    /\ saves \in 0..MaxSaves

\* A thread that has read _is_running = False and will set it.  A
\* run_for_source thread reads the database flag inside the window.
InWindow(t) == \/ pc[t] = "window"
               \/ pc[t] = "stale" /\ kind[t] = "single"

\* A thread between `_is_running = True' and the end of its finally block.
Holds(t) == pc[t] \in {"init", "body"}

------------------------------------------------------------------------------
\* A database written by an earlier release may still say "running", and
\* the scheduler may have been switched off in it.
Init ==
    /\ pc = [t \in Threads |-> "idle"]
    /\ kind = [t \in Threads |-> "now"]
    /\ isRunning = FALSE
    /\ singleActive = FALSE
    /\ dbFlag \in {"0", "1"}
    /\ process = "down"
    /\ heartbeat = "idle"
    /\ raced = FALSE
    /\ leaked = FALSE
    /\ crashes = 0
    /\ enabled \in BOOLEAN
    /\ jobs = FALSE
    /\ missed = FALSE
    /\ saves = 0

\* _clear_collection_running swallows "database is locked": the flag may stay.
ClearCollectionRunning == dbFlag' \in {"0", dbFlag}

\* refresh_scheduler_jobs adds the jobs or removes them, as the switch says.
RefreshSchedulerJobs == jobs' = enabled' /\ missed' = FALSE

\* A save that does not come to it: not asked to, or an error on the way (a
\* locked database, an interval that is no number).
KeepJobs == UNCHANGED jobs /\ missed' = (enabled' /\ (missed \/ ~enabled))

\* start_scheduler: force-clear the database flag, reset the memory flag, add
\* the jobs, and only then let _smart_collect run (_startup_complete).
StartScheduler ==
    /\ process = "down"
    /\ ClearCollectionRunning
    /\ isRunning' = FALSE
    /\ process' = "up"
    /\ UNCHANGED <<threadVars, singleActive, heartbeat, history, crashes,
                   enabled, saves>>
    /\ RefreshSchedulerJobs

\* A thread starts executing run_now (first step: the database flag) or
\* run_for_source (first step: the memory flag).
Begin(t, k) ==
    /\ process = "up"
    /\ pc[t] = "idle"
    /\ pc' = [pc EXCEPT ![t] = IF k = "single" THEN "test" ELSE "stale"]
    /\ kind' = [kind EXCEPT ![t] = k]
    /\ UNCHANGED <<flagVars, heartbeat, raced, leaked, lifeVars>>

\* The interval job, while there is one; APScheduler runs one instance of a
\* job at a time.
SmartCollect == jobs /\ Begin(Worker, "now")

\* POST /collect refuses with 409 while the flag it reads is up.
TriggerCollect(t) == ~isRunning /\ Begin(t, "now")

\* POST /scheduler/trigger, and the first-run thread: no check of their own.
TriggerScheduler(t) == Begin(t, "now")

\* POST /products/<id>/collect refuses while another single run is active.
CollectSingleProduct(t) == ~singleActive /\ Begin(t, "single")

\* _check_concurrent_stale: a flag set before this process started is stale
\* and is cleared; the caller goes on in either case.  (Its "skip" answer
\* needs a flag set by this process, and nothing calls the setter.)
CheckConcurrentStale(t) ==
    /\ pc[t] = "stale"
    /\ IF dbFlag = "1" THEN ClearCollectionRunning ELSE UNCHANGED dbFlag
    /\ pc' = [pc EXCEPT ![t] = IF kind[t] = "single" THEN "window" ELSE "test"]
    /\ UNCHANGED <<kind, isRunning, singleActive, heartbeat, history, lifeVars>>

\* Mutant: run_for_source forgets to test the flag.
SingleSkipsTest(t) ==
    /\ pc[t] = "test"
    /\ pc' = [pc EXCEPT ![t] = IF kind[t] = "single" THEN "stale"
                               ELSE IF isRunning THEN "idle" ELSE "window"]
    /\ raced' = (raced \/ (~isRunning /\ \E u \in Threads \ {t} : InWindow(u)))
    /\ UNCHANGED <<kind, flagVars, heartbeat, leaked, lifeVars>>

\* Mutant: the refusal goes through the finally block and takes the flag down.
SkippedClearsFlag(t) ==
    /\ pc[t] = "test"
    /\ isRunning' = FALSE
    /\ pc' = [pc EXCEPT ![t] = IF isRunning THEN "idle"
                               ELSE IF kind[t] = "single" THEN "stale"
                               ELSE "window"]
    /\ raced' = \/ raced
                \/ ~isRunning /\ \E u \in Threads \ {t} : InWindow(u)
    /\ UNCHANGED <<kind, singleActive, dbFlag, heartbeat, leaked, lifeVars>>

\* `if _is_running: return skipped'
TestIsRunning(t) ==
    /\ pc[t] = "test"
    /\ pc' = [pc EXCEPT ![t] = IF isRunning THEN "idle"
                               ELSE IF kind[t] = "single" THEN "stale"
                               ELSE "window"]
    /\ raced' = \/ raced
                \/ ~isRunning /\ \E u \in Threads \ {t} : InWindow(u)
    /\ UNCHANGED <<kind, flagVars, heartbeat, leaked, lifeVars>>

\* run_for_source: source unknown or not active, error before the assignment.
RejectSource(t) ==
    /\ pc[t] = "window" /\ kind[t] = "single"
    /\ pc' = [pc EXCEPT ![t] = "idle"]
    /\ UNCHANGED <<kind, flagVars, heartbeat, history, lifeVars>>

\* `_is_running = True'; run_for_source publishes its progress state as well.
SetIsRunning(t) ==
    /\ pc[t] = "window"
    /\ isRunning' = TRUE
    /\ singleActive' = (singleActive \/ kind[t] = "single")
    /\ pc' = [pc EXCEPT ![t] = "init"]
    /\ UNCHANGED <<kind, dbFlag, heartbeat, history, lifeVars>>

\* Progress and summary are set up, and the try block is entered.
EnterBody(t) ==
    /\ pc[t] = "init"
    /\ pc' = [pc EXCEPT ![t] = "body"]
    /\ UNCHANGED <<kind, flagVars, heartbeat, history, lifeVars>>

\* run_now queries the product list while it sets up its progress; an error
\* there leaves the function before the try block, and the flag stays up.
InitFails(t) ==
    /\ pc[t] = "init" /\ kind[t] # "single"
    /\ pc' = [pc EXCEPT ![t] = "idle"]
    /\ leaked' = TRUE
    /\ UNCHANGED <<kind, flagVars, heartbeat, raced, lifeVars>>

\* Mutant: an early return leaves the flag up.
FinallyKeepsFlag(t) ==
    /\ pc[t] = "body"
    /\ IF kind[t] = "single"
       THEN singleActive' = FALSE /\ UNCHANGED dbFlag
       ELSE ClearCollectionRunning /\ UNCHANGED singleActive
    /\ pc' = [pc EXCEPT ![t] = "idle"]
    /\ UNCHANGED <<kind, isRunning, heartbeat, history, lifeVars>>

\* The finally block, on every way out of the try block.
Finally(t) ==
    /\ pc[t] = "body"
    /\ isRunning' = FALSE
    /\ IF kind[t] = "single"
       THEN singleActive' = FALSE /\ UNCHANGED dbFlag
       ELSE ClearCollectionRunning /\ UNCHANGED singleActive
    /\ pc' = [pc EXCEPT ![t] = "idle"]
    /\ UNCHANGED <<kind, heartbeat, history, lifeVars>>

\* POST /force-stop clears the database flag, turns the switch off (errors of
\* both are swallowed), saves the settings it is given and answers "collection
\* stopped".  The switch stays off unless the settings turn it on again; the
\* jobs are refreshed only if they do, or if they set the heartbeat.
ForceStop ==
    /\ process = "up" /\ saves < MaxSaves
    /\ saves' = saves + 1
    /\ dbFlag' \in {"0", dbFlag}
    /\ \E stopped \in {FALSE, enabled}, posted \in {{}, {TRUE}, {FALSE}} :
          enabled' \in IF posted = {} THEN {stopped} ELSE posted \cup {stopped}
    /\ RefreshSchedulerJobs \/ KeepJobs
    /\ UNCHANGED <<threadVars, isRunning, singleActive, process, heartbeat,
                   raced, leaked, crashes>>

\* PUT /config saves the settings it is given, the switch among them or not.
UpdateConfig ==
    /\ process = "up" /\ saves < MaxSaves
    /\ saves' = saves + 1
    /\ enabled' \in BOOLEAN
    /\ RefreshSchedulerJobs \/ KeepJobs
    /\ UNCHANGED <<threadVars, flagVars, process, heartbeat, history, crashes>>

\* _session_heartbeat sleeps, reads _is_running once, then probes the sessions
\* one after the other with more sleeps in between.
HeartbeatWakes ==
    /\ process = "up" /\ heartbeat = "idle" /\ jobs
    /\ heartbeat' = "delay"
    /\ UNCHANGED <<threadVars, flagVars, history, lifeVars>>

HeartbeatChecks ==
    /\ heartbeat = "delay"
    /\ heartbeat' \in IF isRunning THEN {"idle"} ELSE {"idle", "probing"}
    /\ UNCHANGED <<threadVars, flagVars, history, lifeVars>>

HeartbeatEnds ==
    /\ heartbeat = "probing"
    /\ heartbeat' = "idle"
    /\ UNCHANGED <<threadVars, flagVars, history, lifeVars>>

\* The process dies: every thread and all memory is gone, the database stays.
\* (A clean exit clears the flag on the way out, _shutdown_cleanup.)
Crash ==
    /\ process = "up" /\ crashes < MaxCrashes
    /\ process' = "down"
    /\ crashes' = crashes + 1
    /\ pc' = [t \in Threads |-> "idle"]
    /\ isRunning' = FALSE
    /\ singleActive' = FALSE
    /\ heartbeat' = "idle"
    /\ raced' = FALSE
    /\ leaked' = FALSE
    /\ jobs' = FALSE
    /\ missed' = FALSE
    /\ ClearCollectionRunning
    /\ UNCHANGED <<kind, enabled, saves>>

ThreadStep(t) ==
    \/ CheckConcurrentStale(t)
    \/ TestIsRunning(t)
    \/ RejectSource(t)
    \/ SetIsRunning(t)
    \/ EnterBody(t)
    \/ InitFails(t)
    \/ Finally(t)

Next ==
    \/ StartScheduler
    \/ SmartCollect
    \/ \E t \in Background :
          \/ TriggerCollect(t)
          \/ TriggerScheduler(t)
          \/ CollectSingleProduct(t)
    \/ \E t \in Threads : ThreadStep(t)
    \/ ForceStop
    \/ UpdateConfig
    \/ HeartbeatWakes
    \/ HeartbeatChecks
    \/ HeartbeatEnds
    \/ Crash

Spec == Init /\ [][Next]_vars

\* Threads that have started keep running, the process supervisor restarts the
\* process, and the interval job, while it exists, fires again and again.
Fairness ==
    /\ WF_vars(StartScheduler)
    /\ \A t \in Threads : WF_vars(ThreadStep(t))
    /\ WF_vars(SmartCollect)

FairSpec == Spec /\ Fairness

------------------------------------------------------------------------------
(***************************************************************************)
(* Properties.                                                             *)
(***************************************************************************)

\* The check-then-set window is the only hole of the guard: as long as no two
\* threads have been inside it together, at most one thread is past the test,
\* whatever the order of triggers, refusals, failures and restarts.
ExclusiveUnlessRaced ==
    ~raced => \A t, u \in Threads :
        (Holds(t) \/ InWindow(t)) /\ (Holds(u) \/ InWindow(u)) => t = u

\* While nobody raced, the flag that every trigger and the heartbeat read is
\* up exactly when a run holds it or a failed set-up left it up.
FlagTellsTruthUnlessRaced ==
    ~raced => (isRunning <=> leaked \/ \E t \in Threads : Holds(t))

\* Raced or not, the flags come down with the last run: nothing but a set-up
\* failure can leave the collector, or the single-product button, refused.
ReleasedWhenQuiet ==
    /\ isRunning => leaked \/ \E t \in Threads : Holds(t)
    /\ singleActive => \E t \in Threads : Holds(t) /\ kind[t] = "single"

\* What the flags say of the runs: no run ever loses the flag to another
\* thread (a skipped one, a rejected one, a starting scheduler) unless two had
\* been in the window together, and, raced or not, no flag outlives its run.
FlagTellsTruth == FlagTellsTruthUnlessRaced /\ ReleasedWhenQuiet

\* A heartbeat round never begins while an unraced collection is in progress.
HeartbeatStartsOutsideRuns ==
    [][heartbeat' = "probing" /\ heartbeat # "probing" =>
          raced \/ \A t \in Threads : pc[t] # "body"]_vars

\* Collections keep coming: either runs enter their body again and again, or
\* the flag was left up by a failed set-up, or there is for good no interval
\* job, because the switch stayed off (force-stop turns it off, and a restart
\* finds it off) or was saved as on by a request that refreshed nothing.
CollectionsKeepComing ==
    \/ []<>(\E t \in Threads : pc[t] = "body")
    \/ <>leaked
    \/ <>[](~jobs /\ (~enabled \/ missed))

\* A flag left up by a failed set-up shuts every later run out (until the
\* process is restarted): nobody is past the test while it is up.
LeakShutsOut ==
    ~raced /\ leaked => \A t \in Threads : ~Holds(t) /\ ~InWindow(t)

\* A process that is down has no threads and no memory.
DownIsEmpty ==
    process = "down" =>
        /\ \A t \in Threads : pc[t] = "idle"
        /\ ~isRunning /\ ~singleActive /\ ~raced /\ ~leaked
        /\ heartbeat = "idle"
        /\ ~jobs /\ ~missed

\* A running process whose switch is on has its jobs, unless the save that
\* turned it on refreshed nothing.
JobsFollowSwitch == process = "up" /\ enabled /\ ~missed => jobs

\* The inductive invariant of CollectionGuardProofs.
IInv ==
    /\ TypeOK
    /\ ExclusiveUnlessRaced
    /\ FlagTellsTruthUnlessRaced
    /\ ReleasedWhenQuiet
    /\ LeakShutsOut
    /\ DownIsEmpty
    /\ JobsFollowSwitch

==============================================================================
