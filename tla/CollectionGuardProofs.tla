------------------------ MODULE CollectionGuardProofs ------------------------
(***************************************************************************)
(* Proofs about CollectionGuard, for any set of threads and any number of  *)
(* process deaths.                                                         *)
(***************************************************************************)
EXTENDS CollectionGuard, TLAPS

\* The initial states satisfy the inductive invariant.
LEMMA InitEstablishes == Init => IInv
PROOF
  <1> SUFFICES ASSUME Init PROVE IInv
    OBVIOUS
  <1> USE DEF Init
  <1>1. TypeOK
    <2>1. crashes \in 0..MaxCrashes /\ saves \in 0..MaxSaves
      BY GuardAssumption
    <2>2. pc \in [Threads -> Places] /\ kind \in [Threads -> Kinds]
      BY DEF Places, Kinds
    <2> QED BY <2>1, <2>2 DEF TypeOK
  <1>2. \A t \in Threads : ~Holds(t) /\ ~InWindow(t)
    BY DEF Holds, InWindow
  <1>3. DownIsEmpty /\ JobsFollowSwitch
    BY DEF DownIsEmpty, JobsFollowSwitch
  <1> QED BY <1>1, <1>2, <1>3
    DEF IInv, ExclusiveUnlessRaced, FlagTellsTruthUnlessRaced,
        ReleasedWhenQuiet, LeakShutsOut

\* Passing the test is what could break the invariant: a thread gets past it
\* only when the flag is down, hence when nobody holds it, and two threads in
\* the window are what `raced' records.
LEMMA TestPreserves ==
  ASSUME IInv, NEW t \in Threads, TestIsRunning(t)
  PROVE  IInv'
PROOF
  <1> USE DEF lifeVars, switchVars
  <1>1. TypeOK'
    BY DEF IInv, TypeOK, TestIsRunning, Places, Kinds, flagVars
  <1>2. ExclusiveUnlessRaced'
    BY DEF IInv, TypeOK, ExclusiveUnlessRaced, FlagTellsTruthUnlessRaced,
           TestIsRunning, Holds, InWindow, flagVars
  <1>3. FlagTellsTruthUnlessRaced' /\ ReleasedWhenQuiet'
    BY DEF IInv, TypeOK, FlagTellsTruthUnlessRaced, ReleasedWhenQuiet,
           TestIsRunning, Holds, flagVars
  <1>4. LeakShutsOut'
    BY DEF IInv, TypeOK, LeakShutsOut, FlagTellsTruthUnlessRaced,
           TestIsRunning, Holds, InWindow, flagVars
  <1>5. DownIsEmpty' /\ JobsFollowSwitch'
    BY DEF IInv, TypeOK, DownIsEmpty, JobsFollowSwitch, TestIsRunning, flagVars
  <1> QED BY <1>1, <1>2, <1>3, <1>4, <1>5 DEF IInv

\* Raising the flag moves one thread from the window into the run.
LEMMA SetPreserves ==
  ASSUME IInv, NEW t \in Threads, SetIsRunning(t)
  PROVE  IInv'
PROOF
  <1> USE DEF lifeVars, switchVars
  <1>1. TypeOK'
    BY DEF IInv, TypeOK, SetIsRunning, Places, Kinds, history
  <1>2. ExclusiveUnlessRaced'
    BY DEF IInv, TypeOK, ExclusiveUnlessRaced, SetIsRunning, Holds, InWindow,
           history
  <1>3. FlagTellsTruthUnlessRaced' /\ ReleasedWhenQuiet'
    BY DEF IInv, TypeOK, FlagTellsTruthUnlessRaced, ReleasedWhenQuiet,
           SetIsRunning, Holds, history, Kinds
  <1>4. LeakShutsOut'
    BY DEF IInv, TypeOK, LeakShutsOut, SetIsRunning, Holds, InWindow, history
  <1>5. DownIsEmpty' /\ JobsFollowSwitch'
    BY DEF IInv, TypeOK, DownIsEmpty, JobsFollowSwitch, SetIsRunning, history
  <1> QED BY <1>1, <1>2, <1>3, <1>4, <1>5 DEF IInv

\* Leaving the run, by the finally block or by a failed set-up.
LEMMA LeavePreserves ==
  ASSUME IInv, NEW t \in Threads, Finally(t) \/ InitFails(t)
  PROVE  IInv'
PROOF
  <1> USE DEF lifeVars, switchVars
  <1>1. TypeOK'
    <2>1. CASE Finally(t)
      BY <2>1 DEF IInv, TypeOK, Finally, ClearCollectionRunning, Places, Kinds,
                  history
    <2>2. CASE InitFails(t)
      BY <2>2 DEF IInv, TypeOK, InitFails, Places, Kinds, history, flagVars
    <2> QED BY <2>1, <2>2
  <1>2. ExclusiveUnlessRaced'
    BY DEF IInv, TypeOK, ExclusiveUnlessRaced, Finally, InitFails, Holds,
           InWindow, history, flagVars
  <1>3. FlagTellsTruthUnlessRaced'
    BY DEF IInv, TypeOK, FlagTellsTruthUnlessRaced, ExclusiveUnlessRaced,
           LeakShutsOut, Finally, InitFails, Holds, InWindow, history, flagVars
  <1>4. ReleasedWhenQuiet'
    BY DEF IInv, TypeOK, ReleasedWhenQuiet, Finally, InitFails, Holds, history,
           flagVars
  <1>5. LeakShutsOut'
    BY DEF IInv, TypeOK, LeakShutsOut, ExclusiveUnlessRaced, Finally, InitFails,
           Holds, InWindow, history, flagVars
  <1>6. DownIsEmpty' /\ JobsFollowSwitch'
    BY DEF IInv, TypeOK, DownIsEmpty, JobsFollowSwitch, Finally, InitFails,
           history, flagVars
  <1> QED BY <1>1, <1>2, <1>3, <1>4, <1>5, <1>6 DEF IInv

\* The steps that neither pass the test nor touch the memory flag.
LEMMA OtherThreadStepsPreserve ==
  ASSUME IInv, NEW t \in Threads,
         CheckConcurrentStale(t) \/ RejectSource(t) \/ EnterBody(t)
  PROVE  IInv'
PROOF
  <1> USE DEF CheckConcurrentStale, RejectSource, EnterBody, history, flagVars,
              lifeVars, switchVars
  <1>1. TypeOK'
    BY DEF IInv, TypeOK, ClearCollectionRunning, Places, Kinds
  <1>2. ExclusiveUnlessRaced' /\ LeakShutsOut'
    BY DEF IInv, TypeOK, ExclusiveUnlessRaced, LeakShutsOut, Holds, InWindow
  <1>3. FlagTellsTruthUnlessRaced' /\ ReleasedWhenQuiet'
    BY DEF IInv, TypeOK, FlagTellsTruthUnlessRaced, ReleasedWhenQuiet, Holds
  <1>4. DownIsEmpty' /\ JobsFollowSwitch'
    BY DEF IInv, TypeOK, DownIsEmpty, JobsFollowSwitch
  <1> QED BY <1>1, <1>2, <1>3, <1>4 DEF IInv

\* A trigger puts an idle thread in front of its first check.
LEMMA BeginPreserves ==
  ASSUME IInv, NEW t \in Threads, NEW k \in Kinds, Begin(t, k)
  PROVE  IInv'
PROOF
  <1> USE DEF Begin, flagVars, lifeVars, switchVars
  <1>1. TypeOK'
    BY DEF IInv, TypeOK, Places, Kinds
  <1>2. ExclusiveUnlessRaced' /\ LeakShutsOut'
    BY DEF IInv, TypeOK, ExclusiveUnlessRaced, LeakShutsOut, Holds, InWindow
  <1>3. FlagTellsTruthUnlessRaced' /\ ReleasedWhenQuiet'
    BY DEF IInv, TypeOK, FlagTellsTruthUnlessRaced, ReleasedWhenQuiet, Holds
  <1>4. DownIsEmpty' /\ JobsFollowSwitch'
    BY DEF IInv, TypeOK, DownIsEmpty, JobsFollowSwitch
  <1> QED BY <1>1, <1>2, <1>3, <1>4 DEF IInv

\* Refreshed jobs follow the switch, and jobs that are kept still follow it
\* unless the miss is remembered.
LEMMA SwitchPreserves ==
  ASSUME IInv, RefreshSchedulerJobs \/ (KeepJobs /\ process = "up"),
         enabled' \in BOOLEAN
  PROVE  jobs' \in BOOLEAN /\ missed' \in BOOLEAN /\ JobsFollowSwitch'
PROOF
  <1>1. CASE RefreshSchedulerJobs
    BY <1>1 DEF RefreshSchedulerJobs, JobsFollowSwitch
  <1>2. CASE KeepJobs /\ process = "up"
    <2>1. missed' = (enabled' /\ (missed \/ ~enabled)) /\ jobs' = jobs
      BY <1>2 DEF KeepJobs
    <2>2. enabled' /\ ~missed' => jobs'
      BY <1>2, <2>1 DEF IInv, TypeOK, JobsFollowSwitch
    <2> QED BY <2>1, <2>2 DEF IInv, TypeOK, JobsFollowSwitch
  <1> QED BY <1>1, <1>2

\* Saving the settings touches the switch, the jobs and the database flag.
LEMMA SettingsPreserve ==
  ASSUME IInv, ForceStop \/ UpdateConfig
  PROVE  IInv'
PROOF
  <1> USE DEF threadVars, flagVars, history
  <1>1. /\ UNCHANGED <<pc, kind, isRunning, singleActive, process, heartbeat>>
        /\ UNCHANGED <<raced, leaked, crashes>>
    BY DEF ForceStop, UpdateConfig
  <1>2. saves' \in 0..MaxSaves
    <2>1. saves < MaxSaves /\ saves' = saves + 1
      BY DEF ForceStop, UpdateConfig
    <2>2. saves \in 0..MaxSaves
      BY DEF IInv, TypeOK
    <2> QED BY <2>1, <2>2, GuardAssumption
  <1>3. enabled' \in BOOLEAN
    BY Zenon DEF ForceStop, UpdateConfig, IInv, TypeOK
  <1>4. dbFlag' \in {"0", "1"}
    BY DEF ForceStop, UpdateConfig, IInv, TypeOK
  <1>5. process = "up" /\ (RefreshSchedulerJobs \/ KeepJobs)
    BY DEF ForceStop, UpdateConfig
  <1>6. jobs' \in BOOLEAN /\ missed' \in BOOLEAN /\ JobsFollowSwitch'
    BY <1>3, <1>5, SwitchPreserves
  <1>7. TypeOK'
    BY <1>1, <1>2, <1>3, <1>4, <1>6 DEF IInv, TypeOK
  <1>8. ExclusiveUnlessRaced' /\ LeakShutsOut'
    BY <1>1 DEF IInv, ExclusiveUnlessRaced, LeakShutsOut, Holds, InWindow
  <1>9. FlagTellsTruthUnlessRaced' /\ ReleasedWhenQuiet'
    BY <1>1 DEF IInv, FlagTellsTruthUnlessRaced, ReleasedWhenQuiet, Holds
  <1>10. DownIsEmpty'
    BY <1>1, <1>5 DEF DownIsEmpty
  <1> QED BY <1>6, <1>7, <1>8, <1>9, <1>10 DEF IInv

\* The process starts with nothing in memory, and leaves nothing there.
LEMMA LifePreserves ==
  ASSUME IInv, StartScheduler \/ Crash
  PROVE  IInv'
PROOF
  <1> USE DEF threadVars, history, ClearCollectionRunning
  <1>1. CASE StartScheduler
    <2>1. /\ UNCHANGED <<pc, kind, singleActive, heartbeat, raced, leaked>>
          /\ UNCHANGED <<crashes, enabled, saves>>
          /\ isRunning' = FALSE /\ process' = "up" /\ process = "down"
          /\ dbFlag' \in {"0", dbFlag} /\ RefreshSchedulerJobs
      BY <1>1 DEF StartScheduler
    <2>2. DownIsEmpty
      BY DEF IInv
    <2>3. jobs' \in BOOLEAN /\ missed' \in BOOLEAN /\ JobsFollowSwitch'
      BY <2>1, SwitchPreserves DEF IInv, TypeOK
    <2>4. TypeOK'
      BY <2>1, <2>3 DEF IInv, TypeOK
    <2>5. /\ ExclusiveUnlessRaced' /\ LeakShutsOut' /\ DownIsEmpty'
          /\ FlagTellsTruthUnlessRaced' /\ ReleasedWhenQuiet'
      BY <2>1, <2>2 DEF DownIsEmpty, ExclusiveUnlessRaced, LeakShutsOut,
         FlagTellsTruthUnlessRaced, ReleasedWhenQuiet, Holds, InWindow
    <2> QED BY <2>3, <2>4, <2>5 DEF IInv
  <1>2. CASE Crash
    <2>1. /\ pc' = [t \in Threads |-> "idle"]
          /\ isRunning' = FALSE /\ singleActive' = FALSE /\ process' = "down"
          /\ heartbeat' = "idle" /\ raced' = FALSE /\ leaked' = FALSE
          /\ jobs' = FALSE /\ missed' = FALSE
          /\ dbFlag' \in {"0", dbFlag}
          /\ UNCHANGED <<kind, enabled, saves>>
      BY <1>2 DEF Crash
    <2>2. pc' \in [Threads -> Places] /\ \A t \in Threads : pc'[t] = "idle"
      BY <2>1 DEF Places
    <2>3. crashes' \in 0..MaxCrashes
      BY <1>2, GuardAssumption DEF Crash, IInv, TypeOK
    <2>4. TypeOK'
      BY <2>1, <2>2, <2>3 DEF IInv, TypeOK
    <2>5. /\ ExclusiveUnlessRaced' /\ LeakShutsOut' /\ DownIsEmpty'
          /\ FlagTellsTruthUnlessRaced' /\ ReleasedWhenQuiet'
          /\ JobsFollowSwitch'
      BY <2>1, <2>2 DEF DownIsEmpty, ExclusiveUnlessRaced, LeakShutsOut,
         FlagTellsTruthUnlessRaced, ReleasedWhenQuiet, Holds, InWindow,
         JobsFollowSwitch
    <2> QED BY <2>4, <2>5 DEF IInv
  <1> QED BY <1>1, <1>2

\* The heartbeat moves nothing but itself.
LEMMA HeartbeatPreserves ==
  ASSUME IInv, HeartbeatWakes \/ HeartbeatChecks \/ HeartbeatEnds
  PROVE  IInv'
PROOF
  <1> USE DEF threadVars, flagVars, history, lifeVars, switchVars
  <1>1. /\ UNCHANGED <<pc, kind, isRunning, singleActive, dbFlag, process>>
        /\ UNCHANGED <<raced, leaked, crashes, enabled, jobs, missed, saves>>
        /\ heartbeat' \in {"idle", "delay", "probing"}
    BY DEF HeartbeatWakes, HeartbeatChecks, HeartbeatEnds
  <1>2. process = "up" \/ heartbeat # "idle"
    BY DEF HeartbeatWakes, HeartbeatChecks, HeartbeatEnds
  <1>3. TypeOK'
    BY <1>1 DEF IInv, TypeOK
  <1>4. process # "down" /\ DownIsEmpty'
    BY <1>1, <1>2 DEF IInv, DownIsEmpty
  <1>5. /\ ExclusiveUnlessRaced' /\ LeakShutsOut' /\ JobsFollowSwitch'
        /\ FlagTellsTruthUnlessRaced' /\ ReleasedWhenQuiet'
    BY <1>1 DEF IInv, ExclusiveUnlessRaced, LeakShutsOut, JobsFollowSwitch,
       FlagTellsTruthUnlessRaced, ReleasedWhenQuiet, Holds, InWindow
  <1> QED BY <1>3, <1>4, <1>5 DEF IInv

\* Every step preserves the inductive invariant.
LEMMA StepPreserves == IInv /\ [Next]_vars => IInv'
PROOF
  <1> SUFFICES ASSUME IInv, [Next]_vars PROVE IInv'
    OBVIOUS
  <1>1. CASE \/ StartScheduler \/ ForceStop \/ UpdateConfig \/ Crash
             \/ HeartbeatWakes \/ HeartbeatChecks \/ HeartbeatEnds
    BY <1>1, SettingsPreserve, LifePreserves, HeartbeatPreserves
  <1>2. CASE SmartCollect
    BY <1>2, BeginPreserves DEF SmartCollect, Threads, Kinds
  <1>3. ASSUME NEW t \in Background,
               TriggerCollect(t) \/ TriggerScheduler(t) \/ CollectSingleProduct(t)
        PROVE  IInv'
    BY <1>3, BeginPreserves
    DEF TriggerCollect, TriggerScheduler, CollectSingleProduct, Threads, Kinds
  <1>4. ASSUME NEW t \in Threads, ThreadStep(t)
        PROVE  IInv'
    <2>1. CASE TestIsRunning(t)
      BY <2>1, TestPreserves
    <2>2. CASE SetIsRunning(t)
      BY <2>2, SetPreserves
    <2>3. CASE Finally(t) \/ InitFails(t)
      BY <2>3, LeavePreserves
    <2>4. CASE CheckConcurrentStale(t) \/ RejectSource(t) \/ EnterBody(t)
      BY <2>4, OtherThreadStepsPreserve
    <2> QED BY <1>4, <2>1, <2>2, <2>3, <2>4 DEF ThreadStep
  <1>5. CASE UNCHANGED vars
    BY <1>5 DEF vars, switchVars, JobsFollowSwitch, IInv, TypeOK,
                ExclusiveUnlessRaced,
                FlagTellsTruthUnlessRaced, ReleasedWhenQuiet, LeakShutsOut,
                DownIsEmpty, Holds, InWindow
  <1> QED BY <1>1, <1>2, <1>3, <1>4, <1>5 DEF Next

\* IInv holds in every reachable state of the guard.
THEOREM Invariance == Spec => []IInv
PROOF
  <1>1. Init => IInv
    BY InitEstablishes
  <1>2. IInv /\ [Next]_vars => IInv'
    BY StepPreserves
  <1> QED BY <1>1, <1>2, PTL DEF Spec

\* Every variable keeps its type.
THEOREM Typing == Spec => []TypeOK
PROOF
  <1>1. IInv => TypeOK
    BY DEF IInv
  <1> QED BY <1>1, Invariance, PTL

\* Without a race in the check-then-set window there is never a second run.
THEOREM Exclusion == Spec => []ExclusiveUnlessRaced
PROOF
  <1>1. IInv => ExclusiveUnlessRaced
    BY DEF IInv
  <1> QED BY <1>1, Invariance, PTL

\* Without a race the memory flag is up exactly while a run holds it.
THEOREM FlagTruth == Spec => []FlagTellsTruthUnlessRaced
PROOF
  <1>1. IInv => FlagTellsTruthUnlessRaced
    BY DEF IInv
  <1> QED BY <1>1, Invariance, PTL

\* Races or not, the flags are down once every run has ended; and without a
\* race no thread takes the flag down under the run that holds it.
THEOREM FlagsTell == Spec => []FlagTellsTruth
PROOF
  <1>1. IInv => FlagTellsTruth
    BY DEF IInv, FlagTellsTruth
  <1> QED BY <1>1, Invariance, PTL

\* A heartbeat round that starts probing starts outside every unraced run.
THEOREM HeartbeatStart == Spec => HeartbeatStartsOutsideRuns
PROOF
  <1> DEFINE Starts == heartbeat' = "probing" /\ heartbeat # "probing"
             Outside == raced \/ \A t \in Threads : pc[t] # "body"
  <1>1. ASSUME IInv, [Next]_vars PROVE [Starts => Outside]_vars
    <2> SUFFICES ASSUME Next, Starts PROVE Outside
      BY <1>1
    <2>1. HeartbeatChecks
      BY DEF Next, SmartCollect, TriggerCollect, TriggerScheduler,
             CollectSingleProduct, Begin, ThreadStep, CheckConcurrentStale,
             TestIsRunning, RejectSource, SetIsRunning, EnterBody, InitFails,
             Finally, StartScheduler, ForceStop, UpdateConfig, HeartbeatWakes,
             HeartbeatEnds, Crash, history, lifeVars
    <2>2. ~isRunning
      BY <2>1 DEF HeartbeatChecks
    <2> QED BY <1>1, <2>2 DEF IInv, FlagTellsTruthUnlessRaced, Holds
  <1> QED BY <1>1, Invariance, PTL DEF Spec, HeartbeatStartsOutsideRuns

==============================================================================
