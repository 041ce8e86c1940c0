---------------------------- MODULE ServiceProofs ----------------------------
(***************************************************************************)
(* The two services that run beside the collection and share no state with *)
(* it or with each other: the cache of chains (ChainCache) and the scanner *)
(* of the log files (LogScanner).  Each has an inductive invariant.        *)
(*                                                                         *)
(* ChainCache, for any number of sources, savers and look-ups: a loaded    *)
(* cache is current unless builds crossed or broke off, and a look-up is   *)
(* blind only for a cause.                                                 *)
(*                                                                         *)
(* LogScanner, for any files, errors and sizes: a restart loses nothing    *)
(* that was read, a line is told again only for a cause, and an alert      *)
(* rings once per window.                                                  *)
(***************************************************************************)
EXTENDS ChainCache, LogScanner, TLAPS, WellFoundedInduction

\* The cache that the start of the scheduler builds satisfies the invariant.
LEMMA InitInv == Init => IInv
  <1> SUFFICES ASSUME Init PROVE IInv
    OBVIOUS
  <1>1. TypeOK
    <2>1. 1 \in Versions /\ 0 \in Nat
      BY CacheAssumption DEF Versions
    <2>2. NoEntries \in [Sources -> Versions \cup {Missing}]
      BY DEF NoEntries
    <2>3. Idle \in [step : Steps, rows : [Sources -> Versions \cup {Missing}], left : SUBSET Sources]
      BY <2>2 DEF Idle, Steps
    <2>4. /\ chains \in [Sources -> Versions \cup {Missing}]
          /\ cache \in [Sources -> Versions \cup {Missing}]
      BY <2>1 DEF Init
    <2>5. thread \in [Threads -> [step : Steps, rows : [Sources -> Versions \cup {Missing}],
                                 left : SUBSET Sources]]
      BY <2>3 DEF Init
    <2> QED
      BY <2>1, <2>4, <2>5 DEF Init, TypeOK
  <1>2. \A t \in Threads : ~Building(t) /\ thread[t].step \notin {"read", "fill"}
    BY DEF Init, Building, Idle
  <1>3. OneBuild /\ ReadsIntoNothing /\ RowsAreThere /\ BuildIsCurrent
    BY <1>2 DEF OneBuild, ReadsIntoNothing, RowsAreThere, BuildIsCurrent
  <1>4. CacheIsComplete /\ CacheIsCurrent
    <2>1. cache = chains
      BY DEF Init
    <2> QED
      BY <2>1 DEF CacheIsComplete, CacheIsCurrent
  <1> QED
    BY <1>1, <1>3, <1>4 DEF IInv

\* A write keeps the types of what it changes.
LEMMA WrittenTypes ==
  ASSUME TypeOK, NEW s \in Sources, Written(s)
  PROVE  /\ chains' \in [Sources -> Versions \cup {Missing}] /\ writes' \in Versions
         /\ unseen' \subseteq Sources /\ come' \subseteq Sources
  <1>1. writes + 1 \in Versions /\ writes' = writes + 1
    BY CacheAssumption DEF TypeOK, Written, Versions
  <1>2. PICK new \in {Missing, writes + 1} : chains' = [chains EXCEPT ![s] = new]
    BY DEF Written
  <1>3. chains' \in [Sources -> Versions \cup {Missing}]
    BY <1>1, <1>2 DEF TypeOK
  <1>4. unseen' \subseteq Sources /\ come' \subseteq Sources
    BY DEF TypeOK, Written
  <1> QED
    BY <1>1, <1>3, <1>4

ThreadStates == [step : Steps, rows : [Sources -> Versions \cup {Missing}], left : SUBSET Sources]

\* So does a thread that takes its next step.
LEMMA StepTypes ==
  ASSUME TypeOK, NEW t \in Threads, NEW step \in Steps, thread' = [thread EXCEPT ![t].step = step]
  PROVE  thread' \in [Threads -> ThreadStates]
  <1>1. thread[t] \in ThreadStates /\ thread \in [Threads -> ThreadStates]
    BY DEF TypeOK, ThreadStates
  <1>2. [thread[t] EXCEPT !.step = step] \in ThreadStates
    BY <1>1 DEF ThreadStates
  <1> QED
    BY <1>1, <1>2

\* Every action keeps the types.
LEMMA StepType == TypeOK /\ [Next]_vars => TypeOK'
  <1> SUFFICES ASSUME TypeOK, [Next]_vars PROVE TypeOK'
    OBVIOUS
  <1>0. Savers \subseteq Threads /\ Lookers \subseteq Threads /\ {"invalidate", "bind", "read", "look"} \subseteq Steps
    BY DEF Threads, Steps
  <1>1. ASSUME NEW t \in Savers, NEW s \in Sources, Save(t, s) PROVE TypeOK'
    <2>1. Written(s) /\ thread' = [thread EXCEPT ![t].step = "invalidate"]
          /\ UNCHANGED <<cache, loaded, spoiled, faults>>
      BY <1>1 DEF Save
    <2> QED
      BY <1>0, <2>1, WrittenTypes, StepTypes DEF TypeOK, ThreadStates
  <1>2. ASSUME NEW s \in Sources, WriteSilently(s) PROVE TypeOK'
    <2>1. Written(s) /\ UNCHANGED <<cache, loaded, thread, spoiled, faults>>
      BY <1>2 DEF WriteSilently
    <2> QED
      BY <2>1, WrittenTypes DEF TypeOK
  <1>3. ASSUME NEW t \in Threads, Invalidate(t) PROVE TypeOK'
    BY <1>0, <1>3, StepTypes DEF Invalidate, TypeOK, ThreadStates
  <1>4. ASSUME NEW t \in Threads, Bind(t) PROVE TypeOK'
    <2>1. cache' \in [Sources -> Versions \cup {Missing}] /\ spoiled' \in BOOLEAN
      BY <1>4 DEF Bind, OthersBuild, NoEntries
    <2> QED
      BY <1>0, <1>4, <2>1, StepTypes DEF Bind, TypeOK, ThreadStates
  <1>9. ASSUME NEW t \in Lookers, LookUp(t) PROVE TypeOK'
    <2>1. (IF loaded THEN "look" ELSE "bind") \in Steps
      BY <1>0
    <2> QED
      BY <1>0, <1>9, <2>1, StepTypes DEF LookUp, TypeOK, ThreadStates
  <1> USE CacheAssumption DEF TypeOK, Versions, Missing, NoEntries, Idle, Steps
  <1>5. ASSUME NEW t \in Threads, ReadTable(t) PROVE TypeOK'
    BY <1>5 DEF ReadTable
  <1>6. ASSUME NEW t \in Threads, ReadFails(t) PROVE TypeOK'
    BY <1>6 DEF ReadFails
  <1>7. ASSUME NEW t \in Threads, NEW s \in Sources, Fill(t, s) PROVE TypeOK'
    BY <1>7 DEF Fill
  <1>8. ASSUME NEW t \in Threads, EndBuild(t) PROVE TypeOK'
    BY <1>8 DEF EndBuild
  <1>10. ASSUME NEW t \in Threads, NEW s \in Sources, Look(t, s) PROVE TypeOK'
    BY <1>10 DEF Look
  <1>11. CASE UNCHANGED vars
    BY <1>11 DEF vars
  <1> QED
    BY <1>1, <1>2, <1>3, <1>4, <1>5, <1>6, <1>7, <1>8, <1>9, <1>10, <1>11 DEF Next, Step

Rest == /\ OneBuild /\ ReadsIntoNothing /\ RowsAreThere /\ BuildIsCurrent
        /\ CacheIsComplete /\ CacheIsCurrent

\* A step that leaves cache, flag and builds alone, and adds to the table only
\* what it adds to unseen, keeps the rest of the invariant.
LEMMA QuietStep ==
  ASSUME IInv, TypeOK',
         UNCHANGED <<cache, spoiled>>,
         loaded' => loaded,
         \A t \in Threads : thread'[t].rows = thread[t].rows /\ thread'[t].left = thread[t].left,
         \A t \in Threads : Building(t)' <=> Building(t),
         \A t \in Threads : /\ thread'[t].step = "read" <=> thread[t].step = "read"
                            /\ thread'[t].step = "fill" <=> thread[t].step = "fill",
         unseen \subseteq unseen', come \subseteq come',
         \A s \in Sources \ unseen' : chains'[s] = chains[s],
         \A s \in Sources \ come' : chains[s] = Missing => chains'[s] = Missing
  PROVE  Rest'
  <1>1. OneBuild' /\ ReadsIntoNothing'
    BY DEF IInv, OneBuild, ReadsIntoNothing
  <1>2. RowsAreThere'
    BY DEF IInv, RowsAreThere, Missing
  <1>3. BuildIsCurrent'
    BY DEF IInv, BuildIsCurrent
  <1>4. CacheIsComplete'
    BY DEF IInv, CacheIsComplete, Missing
  <1>5. CacheIsCurrent'
    BY DEF IInv, CacheIsCurrent
  <1> QED
    BY <1>1, <1>2, <1>3, <1>4, <1>5 DEF Rest

\* A change of one thread between steps that build nothing.
LEMMA QuietThread ==
  ASSUME IInv, TypeOK', NEW t \in Threads, NEW step \in Steps \ {"read", "fill"},
         thread[t].step \notin {"read", "fill"},
         thread' = [thread EXCEPT ![t].step = step],
         UNCHANGED <<cache, spoiled>>, loaded' => loaded,
         unseen \subseteq unseen', come \subseteq come',
         \A s \in Sources \ unseen' : chains'[s] = chains[s],
         \A s \in Sources \ come' : chains[s] = Missing => chains'[s] = Missing
  PROVE  Rest'
  <1>1. \A u \in Threads : /\ thread'[u].rows = thread[u].rows /\ thread'[u].left = thread[u].left
                           /\ Building(u)' <=> Building(u)
                           /\ thread'[u].step = "read" <=> thread[u].step = "read"
                           /\ thread'[u].step = "fill" <=> thread[u].step = "fill"
    BY DEF IInv, TypeOK, Building
  <1> QED
    BY <1>1, QuietStep

\* What a write leaves: only its source changes, and it may have come.
LEMMA WrittenFacts ==
  ASSUME IInv, NEW s \in Sources, Written(s)
  PROVE  /\ unseen \subseteq unseen' /\ come \subseteq come'
         /\ \A q \in Sources \ unseen' : chains'[q] = chains[q]
         /\ \A q \in Sources \ come' : chains[q] = Missing => chains'[q] = Missing
  <1>1. /\ unseen' = unseen \cup {s}
        /\ come' = IF chains[s] = Missing THEN come \cup {s} ELSE come
        /\ \A q \in Sources \ {s} : chains'[q] = chains[q]
    BY DEF Written, IInv, TypeOK
  <1> QED
    BY <1>1

\* The rest of the invariant, action by action.
LEMMA StepRest == IInv /\ TypeOK' /\ [Next]_vars => Rest'
  <1> SUFFICES ASSUME IInv, TypeOK', [Next]_vars PROVE Rest'
    OBVIOUS
  <1>1. ASSUME NEW t \in Savers, NEW s \in Sources, Save(t, s) PROVE Rest'
    <2>1. t \in Threads /\ "invalidate" \in Steps \ {"read", "fill"}
      BY DEF Threads, Steps
    <2>2. Written(s)
      BY <1>1 DEF Save
    <2> QED
      BY <1>1, <2>1, <2>2, WrittenFacts, QuietThread DEF Save
  <1>2. ASSUME NEW s \in Sources, WriteSilently(s) PROVE Rest'
    <2>1. Written(s)
      BY <1>2 DEF WriteSilently
    <2> QED
      BY <1>2, <2>1, WrittenFacts, QuietStep DEF WriteSilently, Building
  <1>3. ASSUME NEW t \in Threads, Invalidate(t) PROVE Rest'
    <2>1. "bind" \in Steps \ {"read", "fill"}
      BY DEF Steps
    <2> QED
      BY <1>3, <2>1, QuietThread DEF Invalidate
  <1>4. ASSUME NEW t \in Threads, Bind(t) PROVE Rest'
    <2>1. /\ \A u \in Threads : u # t => thread'[u] = thread[u]
          /\ thread'[t].step = "read" /\ cache' = NoEntries
      BY <1>4 DEF Bind, IInv, TypeOK
    <2>2. Building(t)' /\ thread'[t].step # "fill"
      BY <2>1 DEF Building
    <2>3. CASE spoiled'
      BY <2>3 DEF Rest, OneBuild, ReadsIntoNothing, RowsAreThere, BuildIsCurrent,
                  CacheIsComplete, CacheIsCurrent
    <2>4. CASE ~spoiled'
      <3>1. \A u \in Threads : u # t => ~Building(u)' /\ thread'[u].step # "fill"
        BY <1>4, <2>1, <2>4 DEF Bind, OthersBuild, Building
      <3>2. NoEntries' = NoEntries
        BY DEF NoEntries, Missing
      <3> QED
        BY <2>1, <2>2, <3>1, <3>2 DEF Rest, OneBuild, ReadsIntoNothing, RowsAreThere, BuildIsCurrent,
                                      CacheIsComplete, CacheIsCurrent
    <2> QED
      BY <2>3, <2>4
  <1>5. ASSUME NEW t \in Threads, ReadTable(t) PROVE Rest'
    <2>1. /\ \A u \in Threads : u # t => thread'[u] = thread[u]
          /\ thread'[t].step = "fill" /\ thread'[t].rows = chains
          /\ thread'[t].left = {s \in Sources : chains[s] # Missing}
          /\ UNCHANGED <<chains, cache, loaded, spoiled>>
      BY <1>5 DEF ReadTable, IInv, TypeOK
    <2>2. Building(t) /\ Building(t)' /\ thread[t].step = "read"
      BY <1>5, <2>1 DEF ReadTable, Building
    <2>3. ~spoiled => \A u \in Threads : u # t => /\ ~Building(u) /\ ~Building(u)'
                                                 /\ thread'[u].step \notin {"read", "fill"}
      BY <2>1, <2>2 DEF IInv, OneBuild, Building
    <2>4. ~spoiled => \A s \in Sources : cache[s] = Missing
      BY <2>2 DEF IInv, ReadsIntoNothing, NoEntries
    <2>5. OneBuild' /\ ReadsIntoNothing' /\ RowsAreThere' /\ BuildIsCurrent'
      BY <2>1, <2>2, <2>3, <2>4 DEF OneBuild, ReadsIntoNothing, RowsAreThere, BuildIsCurrent, Missing
    <2> QED
      BY <2>2, <2>5 DEF Rest, CacheIsComplete, CacheIsCurrent
  <1>6. ASSUME NEW t \in Threads, ReadFails(t) PROVE Rest'
    <2>1. /\ \A u \in Threads : u # t => thread'[u] = thread[u]
          /\ thread'[t].step = "idle"
          /\ UNCHANGED <<chains, cache, loaded, unseen, come>>
          /\ spoiled' = (spoiled \/ loaded)
      BY <1>6 DEF ReadFails, IInv, TypeOK, Idle
    <2>2. \A u \in Threads : /\ Building(u)' => Building(u)
                             /\ thread'[u].step = "read" => thread[u].step = "read"
                             /\ thread'[u].step = "fill" => thread[u].step = "fill" /\ thread'[u] = thread[u]
      BY <2>1 DEF Building
    <2>3. OneBuild' /\ ReadsIntoNothing' /\ RowsAreThere' /\ BuildIsCurrent'
      <3>1. ~spoiled' => ~spoiled
        BY <2>1
      <3>2. OneBuild' /\ ReadsIntoNothing'
        BY <2>1, <2>2, <3>1 DEF IInv, OneBuild, ReadsIntoNothing, NoEntries
      <3>3. RowsAreThere'
        BY <2>1, <2>2, <3>1 DEF IInv, RowsAreThere, Missing
      <3>4. BuildIsCurrent'
        BY <2>1, <2>2, <3>1 DEF IInv, BuildIsCurrent
      <3> QED
        BY <3>2, <3>3, <3>4
    <2>4. CacheIsComplete' /\ CacheIsCurrent'
      BY <2>1 DEF CacheIsComplete, CacheIsCurrent
    <2> QED
      BY <2>3, <2>4 DEF Rest
  <1>7. ASSUME NEW t \in Threads, NEW s \in Sources, Fill(t, s) PROVE Rest'
    <2>1. /\ \A u \in Threads : /\ u # t => thread'[u] = thread[u]
                                /\ thread'[u].step = thread[u].step /\ thread'[u].rows = thread[u].rows
          /\ thread'[t].left = thread[t].left \ {s} /\ thread[t].step = "fill"
          /\ cache' = [cache EXCEPT ![s] = thread[t].rows[s]]
          /\ UNCHANGED <<chains, loaded, unseen, come, spoiled>>
      BY <1>7 DEF Fill, IInv, TypeOK
    <2>2. Building(t)' /\ (\A u \in Threads : Building(u)' <=> Building(u))
      BY <2>1 DEF Building
    <2>3. OneBuild' /\ RowsAreThere'
      BY <2>1, <2>2 DEF IInv, OneBuild, RowsAreThere, Missing
    <2>5. ReadsIntoNothing'
      BY <2>1 DEF IInv, OneBuild, Building, ReadsIntoNothing
    <2>4. BuildIsCurrent'
      <3> SUFFICES ASSUME ~spoiled, NEW u \in Threads, thread[u].step = "fill", NEW q \in Sources
                   PROVE  /\ q \notin unseen => thread[u].rows[q] = chains[q]
                          /\ q \notin thread'[u].left => cache'[q] = thread[u].rows[q]
        BY <2>1 DEF BuildIsCurrent
      <3>1. u = t
        BY <2>1 DEF IInv, OneBuild, Building
      <3>2. cache'[q] = IF q = s THEN thread[t].rows[s] ELSE cache[q]
        BY <2>1 DEF IInv, TypeOK
      <3> QED
        BY <2>1, <3>1, <3>2 DEF IInv, BuildIsCurrent
    <2> QED
      BY <2>2, <2>3, <2>4, <2>5 DEF Rest, CacheIsComplete, CacheIsCurrent
  <1>8. ASSUME NEW t \in Threads, EndBuild(t) PROVE Rest'
    <2>1. /\ \A u \in Threads : u # t => thread'[u] = thread[u]
          /\ thread'[t].step \in {"idle", "look"}
          /\ thread[t].step = "fill" /\ thread[t].left = {}
          /\ UNCHANGED <<chains, cache, unseen, come, spoiled>>
      BY <1>8 DEF EndBuild, Filled, IInv, TypeOK, Idle
    <2>2. \A u \in Threads : /\ Building(u)' => Building(u)
                             /\ thread'[u].step = "read" => thread[u].step = "read"
                             /\ thread'[u].step = "fill" => thread[u].step = "fill" /\ thread'[u] = thread[u]
      BY <2>1 DEF Building
    <2>3. OneBuild' /\ ReadsIntoNothing' /\ RowsAreThere' /\ BuildIsCurrent'
      BY <2>1, <2>2 DEF IInv, OneBuild, ReadsIntoNothing, NoEntries, RowsAreThere, BuildIsCurrent, Missing
    <2>4. ~spoiled => \A s \in Sources :
              /\ cache[s] = thread[t].rows[s]
              /\ s \notin unseen => cache[s] = chains[s]
              /\ s \notin come /\ chains[s] # Missing => cache[s] # Missing
      BY <2>1 DEF IInv, BuildIsCurrent, RowsAreThere
    <2>5. CacheIsComplete' /\ CacheIsCurrent'
      BY <2>1, <2>4 DEF CacheIsComplete, CacheIsCurrent, Missing
    <2> QED
      BY <2>3, <2>5 DEF Rest
  <1>9. ASSUME NEW t \in Lookers, LookUp(t) PROVE Rest'
    <2>1. t \in Threads /\ (IF loaded THEN "look" ELSE "bind") \in Steps \ {"read", "fill"}
      BY DEF Threads, Steps
    <2> QED
      BY <1>9, <2>1, QuietThread DEF LookUp
  <1>10. ASSUME NEW t \in Threads, NEW s \in Sources, Look(t, s) PROVE Rest'
    <2>1. /\ \A u \in Threads : u # t => thread'[u] = thread[u]
          /\ thread'[t].step = "idle" /\ thread[t].step = "look"
          /\ UNCHANGED <<chains, cache, loaded, unseen, come, spoiled>>
      BY <1>10 DEF Look, IInv, TypeOK, Idle
    <2>2. \A u \in Threads : /\ Building(u)' <=> Building(u)
                             /\ thread'[u].step = "read" => thread[u].step = "read"
                             /\ thread'[u].step = "fill" => thread[u].step = "fill" /\ thread'[u] = thread[u]
      BY <2>1 DEF Building
    <2> QED
      BY <2>1, <2>2 DEF Rest, IInv, OneBuild, ReadsIntoNothing, NoEntries, RowsAreThere, BuildIsCurrent,
                        CacheIsComplete, CacheIsCurrent, Missing
  <1>11. CASE UNCHANGED vars
    BY <1>11, QuietStep DEF vars, Building
  <1> QED
    BY <1>1, <1>2, <1>3, <1>4, <1>5, <1>6, <1>7, <1>8, <1>9, <1>10, <1>11 DEF Next, Step

\* The invariant holds in every state: builds that do not cross follow each
\* other, read what is current and leave it in the cache.
THEOREM Invariance == Spec => []IInv
  <1>1. IInv /\ [Next]_vars => IInv'
    <2> SUFFICES ASSUME IInv, [Next]_vars PROVE IInv'
      OBVIOUS
    <2>1. TypeOK'
      BY StepType DEF IInv
    <2>2. Rest'
      BY <2>1, StepRest
    <2> QED
      BY <2>1, <2>2 DEF IInv, Rest
  <1> QED
    BY InitInv, <1>1, PTL DEF Spec

\* A loaded cache that no build is touching has the chains of the table, but for
\* sources written since, unless builds crossed or broke off.
THEOREM Currency == Spec => []CacheIsCurrent
  <1>1. IInv => CacheIsCurrent
    BY DEF IInv
  <1> QED
    BY Invariance, <1>1, PTL

\* A look-up finds no entry for a source of the table only when it came without
\* a build since, during somebody else's build, or after builds that crossed or
\* failed.
THEOREM SightedLookUps == Spec => BlindForACause
  <1> DEFINE Sees == \A t \in Lookers, s \in Sources : Look(t, s) =>
                 \/ chains[s] = Missing \/ cache[s] # Missing
                 \/ s \in come \/ OthersBuild(t) \/ spoiled \/ ~loaded
  <1>1. ASSUME IInv, [Next]_vars PROVE [Sees]_vars
    <2> SUFFICES ASSUME NEW t \in Lookers, NEW s \in Sources, Look(t, s), chains[s] # Missing,
                        s \notin come, ~OthersBuild(t), ~spoiled, loaded
                 PROVE  cache[s] # Missing
      OBVIOUS
    <2>1. \A u \in Threads : ~Building(u)
      BY DEF Look, OthersBuild, Building
    <2> QED
      BY <1>1, <2>1 DEF IInv, CacheIsComplete
  <1> QED
    BY Invariance, <1>1, PTL DEF Spec, BlindForACause

-----------------------------------------------------------------------------
(* The log scanner *)

\* A set of natural numbers has a least element.
LEMMA LeastNatural ==
  ASSUME NEW S \in SUBSET Nat, S # {}
  PROVE  \E m \in S : \A n \in S : m <= n
  <1> DEFINE R == {p \in Nat \X Nat : p[1] < p[2]}
  <1>1. IsWellFoundedOn(R, Nat)
    BY NatLessThanWellFounded DEF OpToRel
  <1> HIDE DEF R
  <1>2. PICK m \in S : \A n \in S : ~ (<<n, m>> \in R)
    BY <1>1, WFMin
  <1>3. ASSUME NEW n \in S PROVE m <= n
    <2>1. m \in Nat /\ n \in Nat
      OBVIOUS
    <2>2. n < m => <<n, m>> \in R
      BY <2>1 DEF R
    <2> QED
      BY <1>2, <2>1, <2>2
  <1> QED
    BY <1>2, <1>3

\* A bounded set of integers has a greatest element, and Max returns it.
LEMMA MaxIsGreatest ==
  ASSUME NEW S \in SUBSET Int, S # {}, NEW b \in Int, \A x \in S : x <= b
  PROVE  Max(S) \in S /\ \A x \in S : x <= Max(S)
  <1> DEFINE T == {b - x : x \in S}
  <1>0. \A x \in S : x \in Int
    OBVIOUS
  <1>1. T \in SUBSET Nat /\ T # {}
    <2>1. \A x \in S : b - x \in Nat
      BY <1>0
    <2> QED
      BY <2>1
  <1>2. PICK m \in T : \A n \in T : m <= n
    BY <1>1, LeastNatural
  <1>3. PICK x \in S : m = b - x
    BY <1>2
  <1>4. \A y \in S : x >= y
    <2> SUFFICES ASSUME NEW y \in S PROVE x >= y
      OBVIOUS
    <2>1. b - y \in T
      OBVIOUS
    <2>2. b - x <= b - y
      BY <1>2, <1>3, <2>1
    <2> QED
      BY <1>0, <2>2
  <1> HIDE DEF T
  <1> QED
    BY <1>4 DEF Max

\* The list of failed logins is cut to what raises no alarm.
LEMMA KeptFacts ==
  ASSUME NEW n \in Nat
  PROVE  Kept(n) \in 0 .. Alarming - 1
  <1>1. Alarming - 1 \in Nat
    BY ScannerAssumption
  <1>2. CASE n <= Alarming - 1
    <2>1. Kept(n) = n
      BY <1>1, <1>2 DEF Kept, Min
    <2> QED
      BY <1>1, <1>2, <2>1
  <1>3. CASE n > Alarming - 1
    <2>1. Kept(n) = Alarming - 1
      BY <1>1, <1>3 DEF Kept, Min
    <2> QED
      BY <1>1, <2>1
  <1> QED
    BY <1>1, <1>2, <1>3

\* A line is a record of the log.
LEMMA LineType ==
  ASSUME ScannerTypes, NEW i \in Lines
  PROVE  /\ i \in 1 .. Len(log) /\ Len(log) \in Nat /\ Len(log) <= MaxLines
         /\ log[i] \in [file : FileSet, key : Errors, at : Nat]
         /\ log[i].file \in FileSet /\ log[i].key \in Errors /\ log[i].at \in Nat
  <1> DEFINE R == [file : FileSet, key : Errors, at : Nat]
  <1>1. log \in Seq(R) /\ Len(log) <= MaxLines
    BY DEF ScannerTypes
  <1> HIDE DEF R
  <1>2. i \in 1 .. Len(log) /\ Len(log) \in Nat
    BY <1>1 DEF Lines
  <1>3. log[i] \in R
    BY <1>1, <1>2
  <1>4. log[i].file \in FileSet /\ log[i].key \in Errors /\ log[i].at \in Nat
    BY <1>3 DEF R
  <1> QED
    BY <1>1, <1>2, <1>3, <1>4 DEF R

\* What is left to read, and what the lines of a file are.
LEMMA UnreadType ==
  ASSUME ScannerTypes, NEW f \in FileSet
  PROVE  /\ Start(f) \in Nat /\ Start(f) <= Len(content[f])
         /\ Unread(f) \subseteq Lines
         /\ \A n \in Nat : From(f, n + 1) \subseteq Lines
  BY DEF ScannerTypes, Start, Unread, From

\* The stamp that a scan leaves is that of a line it read, or the old one.
LEMMA LastStampFacts ==
  ASSUME ScannerTypes, LinesAreOwn, NEW e \in Errors, NEW S \in SUBSET Lines
  PROVE  /\ LastStamp(e, S) \in Nat \cup {-1}
         /\ LastStamp(e, S) = stamps[e] \/ \E i \in S : log[i].key = e /\ log[i].at = LastStamp(e, S)
  <1> DEFINE A == {stamps[e]} \cup {log[i].at : i \in {j \in S : log[j].key = e}}
             b == IF stamps[e] > clock THEN stamps[e] ELSE clock
  <1>0. stamps[e] \in Nat \cup {-1} /\ clock \in Nat
    BY DEF ScannerTypes
  <1>1. \A i \in S : log[i].at \in Nat /\ log[i].at <= clock
    BY LineType DEF LinesAreOwn
  <1>2. b \in Int /\ stamps[e] <= b /\ clock <= b
    BY <1>0
  <1> HIDE DEF b
  <1>a. \A x \in A : x \in Int /\ x <= b
    BY <1>0, <1>1, <1>2
  <1>b. A \in SUBSET Int /\ A # {}
    BY <1>a
  <1>3. Max(A) \in A
    BY <1>2, <1>a, <1>b, MaxIsGreatest
  <1>4. LastStamp(e, S) \in A
    BY <1>3 DEF LastStamp
  <1> QED
    BY <1>0, <1>1, <1>4

ScanTypes == [phase : {"idle", "busy", "waiting", "fallback"}, todo : Seq(FileSet),
              found : SUBSET Lines, line : Lines \cup {NoLine}]

\* No line is number NoLine.
LEMMA NoLineFact == ScannerTypes => NoLine \notin Lines
  BY DEF ScannerTypes, Lines, NoLine

\* A new scan is a scan.
LEMMA NoScanType == NoScan \in ScanTypes /\ NoScan.phase = "idle" /\ NoScan.todo = <<>>
                    /\ NoScan.found = {} /\ NoScan.line = NoLine
  BY DEF NoScan, ScanTypes

\* The scanner begins with nothing.
LEMMA ScannerTypesInit == ScannerInit => ScannerTypes
  <1> SUFFICES ASSUME ScannerInit PROVE ScannerTypes
    OBVIOUS
  <1>1. /\ log \in Seq([file : FileSet, key : Errors, at : Nat]) /\ Len(log) = 0 /\ Lines = {}
    BY DEF ScannerInit, Lines
  <1>2. content \in [FileSet -> Seq(Lines)]
    BY DEF ScannerInit
  <1>3. scan \in ScanTypes
    BY NoScanType DEF ScannerInit
  <1>4. 0 \in 0 .. Alarming - 1
    BY ScannerAssumption
  <1>5. MaxLines \in Nat
    BY ScannerAssumption
  <1> QED
    BY <1>1, <1>2, <1>3, <1>4, <1>5 DEF ScannerInit, ScannerTypes, ScanTypes

\* A step that writes no line and leaves the files keeps what their types rest on.
SameLog == UNCHANGED <<log, content, rotated>>
\* What the types of the log and the files rest on.
LEMMA SameLogTypes ==
  ASSUME ScannerTypes, SameLog
  PROVE  /\ log' \in Seq([file : FileSet, key : Errors, at : Nat]) /\ Len(log)' <= MaxLines
         /\ Lines' = Lines
         /\ content' \in [FileSet -> Seq(Lines)]' /\ rotated' \subseteq FileSet
         /\ ScanTypes' = ScanTypes
  BY DEF ScannerTypes, SameLog, Lines, ScanTypes

\* A step that changes only the scan, its positions and what it hands over.
LEMMA SameLogStep ==
  ASSUME ScannerTypes, SameLog, scan' \in ScanTypes,
         pos' \in [FileSet -> Nat], saved' \in [FileSet -> Nat],
         requests' \subseteq [line : Lines, stage : {"new", "send"}],
         seen' \in [Alerts -> Nat], stamps' \in [Errors -> Nat \cup {-1}],
         failures' \in 0 .. Alarming - 1, enabled' \in BOOLEAN,
         clock' \in Nat, restarts' \in Nat, troubles' \in Nat,
         handled' \subseteq Lines, dropped' \subseteq Lines,
         told' \in [1 .. MaxLines -> Nat], again' \in [1 .. MaxLines -> Nat],
         ringing' \in [Alerts -> Nat]
  PROVE  ScannerTypes'
  BY SameLogTypes DEF ScannerTypes, ScanTypes

\* The scan goes to the next file with what it has found.
LEMMA GoesType ==
  ASSUME ScannerTypes, NEW f \in FileSet, Reads(f), NEW S \in SUBSET Lines, Goes(S), Advance(f)
  PROVE  /\ scan' \in ScanTypes /\ pos' \in [FileSet -> Nat]
         /\ scan'.phase = "busy" /\ scan'.found = scan.found \cup S /\ scan'.line = scan.line
         /\ pos'[f] = Len(content[f])
         /\ \A g \in FileSet \ {f} : pos'[g] = pos[g]
  <1>1. scan \in ScanTypes /\ pos \in [FileSet -> Nat] /\ Len(content[f]) \in Nat
    BY DEF ScannerTypes, ScanTypes
  <1>2. scan.todo \in Seq(FileSet) /\ scan.todo # <<>> /\ scan.found \subseteq Lines
    BY <1>1 DEF Reads, ScanTypes
  <1>3. Tail(scan.todo) \in Seq(FileSet)
    BY <1>2
  <1>4. scan' = [scan EXCEPT !.todo = Tail(scan.todo), !.found = scan.found \cup S]
    BY DEF Goes
  <1>5. scan' \in ScanTypes /\ scan'.phase = "busy" /\ scan'.found = scan.found \cup S /\ scan'.line = scan.line
    BY <1>1, <1>2, <1>3, <1>4 DEF ScanTypes, Reads
  <1> QED
    BY <1>1, <1>5 DEF Advance

\* The scan takes a finding out of the rest.
LEMMA TakesType ==
  ASSUME ScannerTypes, NEW i, NEW phase \in {"waiting", "fallback"}, Takes(i, phase)
  PROVE  /\ scan' \in ScanTypes /\ i \in Lines /\ i \in scan.found /\ scan.phase = "busy"
         /\ scan'.phase = phase /\ scan'.found = scan.found \ {i} /\ scan'.line = i
  <1>1. scan \in ScanTypes
    BY DEF ScannerTypes, ScanTypes
  <1> QED
    BY <1>1 DEF Takes, IsNext, Sends, ScanTypes

\* The scan has let go of a finding.
LEMMA RefusedType ==
  ASSUME ScannerTypes, NEW i, IsRefused(i)
  PROVE  /\ scan' \in ScanTypes /\ i \in Lines /\ scan.phase = "busy"
         /\ scan'.phase = "busy" /\ scan'.found = scan.found \ {i} /\ scan'.line = scan.line
  <1>1. scan \in ScanTypes
    BY DEF ScannerTypes, ScanTypes
  <1> QED
    BY <1>1 DEF IsRefused, IsNext, Sends, ScanTypes

\* The scan is ready for the next finding.
LEMMA NextFindingType ==
  ASSUME ScannerTypes, NextFinding
  PROVE  /\ scan' \in ScanTypes
         /\ scan'.phase = "busy" /\ scan'.found = scan.found /\ scan'.line = NoLine
  <1>1. scan \in ScanTypes
    BY DEF ScannerTypes, ScanTypes
  <1> QED
    BY <1>1 DEF NextFinding, ScanTypes

\* An answer ends the wait for it, if the scan still waits.
LEMMA AnswerType ==
  ASSUME ScannerTypes, NEW r \in requests, Answer(r)
  PROVE  /\ scan' \in ScanTypes /\ scan'.found = scan.found
         /\ \/ scan' = scan
            \/ /\ scan.phase = "waiting" /\ scan.line = r.line
               /\ scan'.phase = "busy" /\ scan'.line = NoLine
  <1>1. CASE scan.phase = "waiting" /\ scan.line = r.line
    BY <1>1, NextFindingType DEF Answer
  <1>2. CASE ~ (scan.phase = "waiting" /\ scan.line = r.line)
    BY <1>2 DEF Answer, ScannerTypes, ScanTypes
  <1> QED
    BY <1>1, <1>2

\* Writing a line.
LEMMA WriteFacts ==
  ASSUME ScannerTypes, NEW f \in FileSet, NEW key \in Errors, Write(f, key)
  PROVE  /\ ScannerTypes'
         /\ Len(log) + 1 \notin Lines /\ Lines' = Lines \cup {Len(log) + 1}
         /\ \A i \in Lines : log'[i] = log[i]
         /\ log'[Len(log) + 1] = [file |-> f, key |-> key, at |-> clock]
         /\ Len(content'[f]) = Len(content[f]) + 1
         /\ \A k \in DOMAIN content[f] : content'[f][k] = content[f][k]
         /\ content'[f][Len(content[f]) + 1] = Len(log) + 1
         /\ \A g \in FileSet \ {f} : content'[g] = content[g]
  <1> DEFINE R == [file : FileSet, key : Errors, at : Nat]
             line == [file |-> f, key |-> key, at |-> clock]
             n == Len(log) + 1
  <1>1. log \in Seq(R) /\ Len(log) \in Nat /\ MaxLines \in Nat
    BY ScannerAssumption DEF ScannerTypes
  <1>2. line \in R
    BY DEF ScannerTypes
  <1>3. log' = Append(log, line) /\ Len(log) < MaxLines
    BY DEF Write
  <1> HIDE DEF R, line
  <1>4. /\ log' \in Seq(R) /\ Len(log') = n /\ \A i \in 1 .. Len(log) : log'[i] = log[i]
        /\ log'[n] = line
    BY <1>1, <1>2, <1>3
  <1>5. Lines = 1 .. Len(log) /\ Lines' = 1 .. n /\ n \in Lines' /\ n \notin Lines
    BY <1>1, <1>4 DEF Lines
  <1>6. content \in [FileSet -> Seq(Lines)] /\ Lines \subseteq Lines'
    BY <1>1, <1>5 DEF ScannerTypes
  <1>7. content[f] \in Seq(Lines') /\ \A g \in FileSet : content[g] \in Seq(Lines')
    BY <1>6
  <1> DEFINE c == Append(content[f], n)
  <1>8. content' = [content EXCEPT ![f] = c]
    BY DEF Write
  <1>9. /\ c \in Seq(Lines') /\ Len(c) = Len(content[f]) + 1
        /\ \A k \in DOMAIN content[f] : c[k] = content[f][k]
        /\ c[Len(content[f]) + 1] = n
    BY <1>5, <1>7
  <1> HIDE DEF c
  <1>10. content'[f] = c /\ \A g \in FileSet \ {f} : content'[g] = content[g]
    BY <1>6, <1>8
  <1>11. content' \in [FileSet -> Seq(Lines)]'
    BY <1>6, <1>7, <1>8, <1>9
  <1>12. ScannerTypes'
    <2>1. /\ UNCHANGED <<pos, saved, scan, requests, memory, enabled, clock, restarts, troubles, history, rotated>>
      BY DEF Write
    <2>2. scan' \in ScanTypes' /\ requests' \subseteq [line : Lines, stage : {"new", "send"}]'
          /\ handled' \subseteq Lines' /\ dropped' \subseteq Lines'
      BY <2>1, <1>5, <1>6 DEF ScannerTypes, ScanTypes, history
    <2>3. log' \in Seq([file : FileSet, key : Errors, at : Nat]) /\ Len(log') <= MaxLines
      BY <1>1, <1>3, <1>4 DEF R
    <2>4. /\ seen' \in [Alerts -> Nat] /\ stamps' \in [Errors -> Nat \cup {-1}]
          /\ failures' \in 0 .. Alarming - 1 /\ ringing' \in [Alerts -> Nat]
          /\ told' \in [1 .. MaxLines -> Nat] /\ again' \in [1 .. MaxLines -> Nat]
      BY <2>1 DEF ScannerTypes, history, memory
    <2>5. /\ pos' \in [FileSet -> Nat] /\ saved' \in [FileSet -> Nat] /\ rotated' \subseteq FileSet
          /\ enabled' \in BOOLEAN /\ clock' \in Nat /\ restarts' \in Nat /\ troubles' \in Nat
      BY <2>1 DEF ScannerTypes
    <2> QED
      BY <2>2, <2>3, <2>4, <2>5, <1>11 DEF ScannerTypes, ScanTypes
  <1> QED
    BY <1>4, <1>5, <1>9, <1>10, <1>12 DEF line

\* Rotating a file.
LEMMA RotateFacts ==
  ASSUME ScannerTypes, NEW f \in FileSet, Rotate(f)
  PROVE  /\ ScannerTypes' /\ log' = log /\ Lines' = Lines
         /\ content'[f] = <<>> /\ rotated' = rotated \cup {f}
         /\ \A g \in FileSet \ {f} : content'[g] = content[g]
  <1>1. Lines' = Lines /\ ScanTypes' = ScanTypes
    BY DEF Rotate, Lines, ScanTypes
  <1>2. content \in [FileSet -> Seq(Lines)] /\ <<>> \in Seq(Lines)
    BY DEF ScannerTypes
  <1>3. content' \in [FileSet -> Seq(Lines)]' /\ content'[f] = <<>>
        /\ \A g \in FileSet \ {f} : content'[g] = content[g]
    BY <1>1, <1>2 DEF Rotate
  <1> QED
    BY <1>1, <1>3 DEF Rotate, ScannerTypes, ScanTypes, history, memory

\* Everything else leaves the files alone.
LEMMA RestTypes ==
  ASSUME ScannerTypes, LinesAreOwn, ScanIsTidy, [ScannerNext]_scannerVars,
         ~ \E f \in FileSet : Rotate(f) \/ \E key \in Errors : Write(f, key)
  PROVE  ScannerTypes' /\ SameLog
  <1> DEFINE G == ScannerTypes' /\ SameLog
  <1>0. /\ scan \in ScanTypes /\ pos \in [FileSet -> Nat] /\ saved \in [FileSet -> Nat]
        /\ requests \subseteq [line : Lines, stage : {"new", "send"}]
        /\ seen \in [Alerts -> Nat] /\ stamps \in [Errors -> Nat \cup {-1}]
        /\ failures \in 0 .. Alarming - 1 /\ enabled \in BOOLEAN
        /\ clock \in Nat /\ restarts \in Nat /\ troubles \in Nat
        /\ handled \subseteq Lines /\ dropped \subseteq Lines
        /\ told \in [1 .. MaxLines -> Nat] /\ again \in [1 .. MaxLines -> Nat]
        /\ ringing \in [Alerts -> Nat]
    BY DEF ScannerTypes, ScanTypes
  <1>a. Files \in Seq(FileSet)
    BY ScannerAssumption
  <1>1. CASE StartScan
    <2>1. scan' = [NoScan EXCEPT !.phase = "busy", !.todo = Files]
      BY <1>1 DEF StartScan
    <2>2. scan' \in ScanTypes
      BY <2>1, <1>a, NoScanType DEF ScanTypes
    <2> QED
      BY <1>0, <1>1, <2>2, SameLogStep DEF StartScan, SameLog, world, memory, history
  <1>2. ASSUME NEW f \in FileSet, ReadLog(f) PROVE G
    <2>1. Unread(f) \subseteq Lines
      BY UnreadType
    <2>2. scan' \in ScanTypes /\ pos' \in [FileSet -> Nat]
      BY <1>2, <2>1, GoesType DEF ReadLog
    <2> QED
      BY <1>0, <1>2, <2>2, SameLogStep DEF ReadLog, SameLog, world, memory, history
  <1>3. ASSUME NEW f \in FileSet, ReadHeartbeats(f) PROVE G
    <2>1. Unread(f) \subseteq Lines /\ NewHeartbeats(Unread(f)) \subseteq Lines
      BY UnreadType DEF NewHeartbeats
    <2>2. scan' \in ScanTypes /\ pos' \in [FileSet -> Nat]
      BY <1>3, <2>1, GoesType DEF ReadHeartbeats
    <2>3. stamps' \in [Errors -> Nat \cup {-1}]
      BY <1>3, <2>1, LastStampFacts DEF ReadHeartbeats
    <2> QED
      BY <1>0, <1>3, <2>2, <2>3, SameLogStep DEF ReadHeartbeats, SameLog, world, memory, history
  <1>4. ASSUME NEW f \in FileSet, ReadAudit(f) PROVE G
    <2>a. content[f] \in Seq(Lines)
      BY DEF ScannerTypes
    <2>b. Unread(f) \subseteq Lines /\ Start(f) \in Nat /\ Start(f) <= Len(content[f])
      BY UnreadType
    <2>1. Unread(f) \subseteq Lines /\ Start(f) \in Nat /\ Start(f) <= Len(content[f]) /\ Len(content[f]) \in Nat
      BY <2>a, <2>b
    <2>2. scan' \in ScanTypes /\ pos' \in [FileSet -> Nat]
      BY <1>4, GoesType DEF ReadAudit
    <2>3. failures + Len(content[f]) - Start(f) \in Nat
      BY <1>0, <2>1
    <2>4. failures' \in 0 .. Alarming - 1
      BY <1>4, <2>3, KeptFacts DEF ReadAudit
    <2>5. told' \in [1 .. MaxLines -> Nat]
      <3>0. told \in [1 .. MaxLines -> Nat]
        BY <1>0
      <3>1. \A i \in 1 .. MaxLines : told[i] \in Nat /\ told[i] + 1 \in Nat
        BY <3>0
      <3>2. DOMAIN told = 1 .. MaxLines
        BY <1>0
      <3>3. CASE told' = [i \in DOMAIN told |-> IF i \in Alarmed(f) THEN told[i] + 1 ELSE told[i]]
        BY <3>1, <3>2, <3>3
      <3> QED
        BY <1>0, <1>4, <3>3 DEF ReadAudit
    <2>6. handled' \subseteq Lines
      BY <1>0, <1>4, <2>1 DEF ReadAudit
    <2> QED
      BY <1>0, <1>4, <2>2, <2>4, <2>5, <2>6, SameLogStep DEF ReadAudit, SameLog, world, memory, history
  <1>5. ASSUME NEW i \in scan.found, Post(i) PROVE G
    <2>1. scan' \in ScanTypes /\ i \in Lines
      BY <1>5, TakesType DEF Post
    <2>2. requests' \subseteq [line : Lines, stage : {"new", "send"}] /\ handled' \subseteq Lines
      BY <1>0, <1>5, <2>1 DEF Post
    <2> QED
      BY <1>0, <1>5, <2>1, <2>2, SameLogStep DEF Post, SameLog, world, memory, history
  <1>6. ASSUME NEW i \in Lines, GivesUp(i) PROVE G
    <2>1. scan' \in ScanTypes
      <3>1. CASE Takes(i, "fallback")
        BY <3>1, TakesType
      <3>2. CASE scan' = [scan EXCEPT !.phase = "fallback"]
        BY <1>0, <3>2 DEF ScanTypes
      <3> QED
        BY <1>6, <3>1, <3>2 DEF GivesUp
    <2>2. i \in 1 .. MaxLines
      BY LineType, ScannerAssumption
    <2>3. again' \in [1 .. MaxLines -> Nat] /\ troubles' \in Nat
      BY <1>0, <1>6, <2>2 DEF GivesUp
    <2> QED
      BY <1>0, <1>6, <2>1, <2>3, SameLogStep DEF GivesUp, SameLog, world, memory, history
  <1>17. ASSUME NEW i \in Lines, IsRefused(i) PROVE G
    <2>1. scan' \in ScanTypes
      BY <1>17, RefusedType
    <2>2. dropped' \subseteq Lines /\ troubles' \in Nat
      BY <1>0, <1>17 DEF IsRefused
    <2> QED
      BY <1>0, <1>17, <2>1, <2>2, SameLogStep DEF IsRefused, SameLog, world, memory, history
  <1>7. CASE Fallback
    <2>1. scan' \in ScanTypes /\ scan.line \in Lines
      BY <1>7, NextFindingType DEF Fallback, ScanIsTidy
    <2>2. scan.line \in 1 .. MaxLines
      BY <2>1, LineType, ScannerAssumption
    <2>3. told' \in [1 .. MaxLines -> Nat] /\ handled' \subseteq Lines
      BY <1>0, <1>7, <2>1, <2>2 DEF Fallback
    <2> QED
      BY <1>0, <1>7, <2>1, <2>3, SameLogStep DEF Fallback, SameLog, world, memory, history
  <1>8. CASE FallbackRaises
    <2>1. scan' \in ScanTypes /\ scan.line \in Lines /\ scan.found \subseteq Lines
      BY <1>0, <1>8, NoScanType DEF FallbackRaises, ScanIsTidy, ScanTypes
    <2>2. dropped' \subseteq Lines /\ troubles' \in Nat
      BY <1>0, <1>8, <2>1 DEF FallbackRaises
    <2> QED
      BY <1>0, <1>8, <2>1, <2>2, SameLogStep DEF FallbackRaises, SameLog, world, memory, history
  <1>9. CASE SavePositions
    <2>1. scan' \in ScanTypes
      BY <1>9, NoScanType DEF SavePositions
    <2> QED
      BY <1>0, <1>9, <2>1, SameLogStep DEF SavePositions, SameLog, world, memory, history
  <1>10. ASSUME NEW r \in requests, Skip(r) PROVE G
    <2>1. scan' \in ScanTypes
      BY <1>10, AnswerType DEF Skip
    <2> QED
      BY <1>0, <1>10, <2>1, SameLogStep DEF Skip, SameLog, world, memory, history
  <1>11. ASSUME NEW r \in requests, Remember(r) PROVE G
    <2>1. r \in [line : Lines, stage : {"new", "send"}]
      BY <1>0
    <2>2. log[r.line].key \in Errors /\ Quiet \in Nat
      BY <2>1, LineType, ScannerAssumption
    <2>3. requests' \subseteq [line : Lines, stage : {"new", "send"}]
      BY <1>0, <1>11, <2>1 DEF Remember
    <2>4. seen' \in [Alerts -> Nat]
      BY <1>0, <1>11, <2>2 DEF Remember
    <2>5. ringing' \in [Alerts -> Nat]
      <3>1. PICK a : a = Alert(r.line)
        OBVIOUS
      <3>2. ringing' = [ringing EXCEPT ![a] = ringing[a] + 1]
        BY <1>11, <3>1 DEF Remember
      <3>3. a \in Alerts
        <4>1. log[r.line].file \in FileSet /\ log[r.line].key \in Errors
          BY <2>1, LineType
        <4> QED
          BY <3>1, <4>1 DEF Alert, Alerts
      <3>4. \A b \in Alerts : ringing'[b] \in Nat
        BY <1>0, <3>2, <3>3
      <3> QED
        BY <1>0, <3>2, <3>4
    <2> QED
      BY <1>0, <1>11, <2>3, <2>4, <2>5, SameLogStep DEF Remember, SameLog, world, memory, history
  <1>12. ASSUME NEW r \in requests, Notify(r) PROVE G
    <2>1. scan' \in ScanTypes /\ r.line \in Lines
      BY <1>0, <1>12, AnswerType DEF Notify
    <2>2. r.line \in 1 .. MaxLines
      BY <2>1, LineType, ScannerAssumption
    <2>3. told' \in [1 .. MaxLines -> Nat]
      BY <1>0, <1>12, <2>2 DEF Notify
    <2> QED
      BY <1>0, <1>12, <2>1, <2>3, SameLogStep DEF Notify, SameLog, world, memory, history
  <1>13. CASE Tick
    <2>1. seen' \in [Alerts -> Nat] /\ ringing' \in [Alerts -> Nat] /\ clock' \in Nat
      BY <1>0, <1>13 DEF Tick
    <2> QED
      BY <1>0, <1>13, <2>1, SameLogStep DEF Tick, SameLog
  <1>14. CASE Toggle
    BY <1>0, <1>14, SameLogStep DEF Toggle, SameLog, memory, history
  <1>15. CASE Restart
    <2>1. scan' \in ScanTypes
      BY <1>15, NoScanType DEF Restart
    <2>2. 0 \in 0 .. Alarming - 1
      BY ScannerAssumption
    <2>3. /\ seen' \in [Alerts -> Nat] /\ ringing' \in [Alerts -> Nat]
          /\ stamps' \in [Errors -> Nat \cup {-1}] /\ restarts' \in Nat /\ troubles' \in Nat
      BY <1>0, <1>15 DEF Restart
    <2> QED
      BY <1>0, <1>15, <2>1, <2>2, <2>3, SameLogStep DEF Restart, SameLog
  <1>16. CASE UNCHANGED scannerVars
    BY <1>0, <1>16, SameLogStep DEF scannerVars, SameLog
  <1> QED
    BY <1>1, <1>2, <1>3, <1>4, <1>5, <1>6, <1>7, <1>8, <1>9, <1>10, <1>11, <1>12, <1>13, <1>14,
       <1>15, <1>16, <1>17 DEF ScannerNext, ScanStep, EndpointStep

\* Lines stay in their files.
LEMMA OwnStep ==
  ASSUME ScannerTypes, LinesAreOwn, ScanIsTidy, [ScannerNext]_scannerVars
  PROVE  LinesAreOwn'
  <1>1. ASSUME NEW f \in FileSet, NEW key \in Errors, Write(f, key) PROVE LinesAreOwn'
    <2>0. clock' = clock /\ clock \in Nat
      BY <1>1 DEF Write, ScannerTypes
    <2>a. /\ Lines' = Lines \cup {Len(log) + 1} /\ \A i \in Lines : log'[i] = log[i]
          /\ log'[Len(log) + 1] = [file |-> f, key |-> key, at |-> clock]
      BY <1>1, WriteFacts
    <2>b. /\ Len(content'[f]) = Len(content[f]) + 1
          /\ \A k \in DOMAIN content[f] : content'[f][k] = content[f][k]
          /\ content'[f][Len(content[f]) + 1] = Len(log) + 1
          /\ \A g \in FileSet \ {f} : content'[g] = content[g]
      BY <1>1, WriteFacts
    <2>c. ScannerTypes'
      BY <1>1, WriteFacts
    <2>1. \A i \in Lines' : log'[i].at <= clock'
      BY <2>a, <2>0 DEF LinesAreOwn
    <2>2. ASSUME NEW g \in FileSet, NEW k \in DOMAIN content'[g] PROVE log'[content'[g][k]].file = g
      <3>1. content[g] \in Seq(Lines) /\ content'[g] \in Seq(Lines)'
        BY <2>c DEF ScannerTypes
      <3>2. CASE k \in DOMAIN content[g]
        <4>1. content'[g][k] = content[g][k]
          BY <2>b, <3>2
        <4>2. content[g][k] \in Lines
          BY <3>1, <3>2
        <4> QED
          BY <2>a, <3>2, <4>1, <4>2 DEF LinesAreOwn
      <3>3. CASE k \notin DOMAIN content[g]
        <4>1. g = f
          BY <2>b, <3>3
        <4>2. k \in 1 .. Len(content[f]) + 1 /\ k \notin 1 .. Len(content[f]) /\ Len(content[f]) \in Nat
          BY <2>b, <3>1, <3>3, <4>1
        <4>3. content'[g][k] = Len(log) + 1
          BY <2>b, <4>1, <4>2
        <4> QED
          BY <2>a, <4>1, <4>3
      <3> QED
        BY <3>2, <3>3
    <2> QED
      BY <2>1, <2>2 DEF LinesAreOwn
  <1>2. ASSUME NEW f \in FileSet, Rotate(f) PROVE LinesAreOwn'
    <2>1. clock' = clock /\ \A g \in FileSet \ {f} : content'[g] = content[g]
      BY <1>2, RotateFacts DEF Rotate
    <2>2. content'[f] = <<>> /\ log' = log /\ Lines' = Lines
      BY <1>2, RotateFacts
    <2>3. DOMAIN content'[f] = {}
      BY <2>2
    <2> QED
      BY <2>1, <2>2, <2>3 DEF LinesAreOwn
  <1>3. CASE ~ \E f \in FileSet : Rotate(f) \/ \E key \in Errors : Write(f, key)
    <2>1. log' = log /\ content' = content
      BY <1>3, RestTypes DEF SameLog
    <2>2. clock' \in {clock, clock + 1} /\ clock \in Nat
      BY <1>3 DEF ScannerNext, ScanStep, EndpointStep, StartScan, ReadLog, ReadHeartbeats, ReadAudit,
                  Post, GivesUp, IsRefused, Fallback, FallbackRaises, SavePositions, Skip, Remember, Notify,
                  Tick, Toggle, Restart, scannerVars, world, ScannerTypes
    <2>3. \A i \in Lines : log[i].at \in Nat /\ log[i].at <= clock
      BY LineType DEF LinesAreOwn
    <2> QED
      BY <2>1, <2>2, <2>3 DEF LinesAreOwn, Lines
  <1> QED
    BY <1>1, <1>2, <1>3

\* What is unread depends on the files and the positions.
LEMMA UnreadSame ==
  ASSUME SameLog, pos' = pos
  PROVE  \A i : IsUnread(i)' <=> IsUnread(i)
  BY DEF SameLog, IsUnread, Unread, From, Start

\* Reading a file leaves nothing of it unread.
LEMMA UnreadRead ==
  ASSUME ScannerTypes, SameLog, NEW f \in FileSet, pos'[f] = Len(content[f]),
         \A g \in FileSet \ {f} : pos'[g] = pos[g]
  PROVE  \A i \in Lines : IsUnread(i)' <=> IsUnread(i) /\ log[i].file # f
  <1> SUFFICES ASSUME NEW i \in Lines
               PROVE  IsUnread(i)' <=> IsUnread(i) /\ log[i].file # f
    OBVIOUS
  <1> DEFINE g == log[i].file
  <1>1. g \in FileSet
    BY LineType
  <1>2. CASE g = f
    <2>1. Start(f)' = Len(content[f]) /\ Len(content[f]) \in Nat
      BY DEF Start, SameLog, ScannerTypes
    <2>2. Unread(f)' = {}
      BY <2>1 DEF Unread, From, SameLog
    <2> QED
      BY <1>2, <2>2 DEF IsUnread, SameLog
  <1>3. CASE g # f
    <2>1. pos'[g] = pos[g]
      BY <1>1, <1>3
    <2> QED
      BY <1>3, <2>1 DEF SameLog, IsUnread, Unread, From, Start
  <1> QED
    BY <1>2, <1>3

\* A line that is written may hide others from the next scan, and uncovers none.
LEMMA UnreadWrite ==
  ASSUME ScannerTypes, NEW f \in FileSet, NEW key \in Errors, Write(f, key)
  PROVE  \A i \in Lines : IsUnread(i)' => IsUnread(i)
  <1> SUFFICES ASSUME NEW i \in Lines, IsUnread(i)'
               PROVE  IsUnread(i)
    OBVIOUS
  <1> DEFINE g == log[i].file
  <1>1. g \in FileSet /\ log'[i] = log[i] /\ i # Len(log) + 1 /\ pos' = pos
    BY LineType, WriteFacts DEF Write
  <1>2. content[g] \in Seq(Lines) /\ pos[g] \in Nat
    BY <1>1 DEF ScannerTypes
  <1>3. PICK k \in (Start(g) + 1)' .. Len(content'[g]) : i = content'[g][k]
    BY <1>1 DEF IsUnread, Unread, From
  <1>4. CASE g # f
    <2>1. content'[g] = content[g]
      BY <1>1, <1>4, WriteFacts
    <2> QED
      BY <1>1, <1>3, <2>1 DEF IsUnread, Unread, From, Start
  <1>5. CASE g = f
    <2>0. /\ Len(content'[f]) = Len(content[f]) + 1
          /\ \A n \in DOMAIN content[f] : content'[f][n] = content[f][n]
          /\ content'[f][Len(content[f]) + 1] = Len(log) + 1
      BY WriteFacts
    <2>1. Len(content'[g]) = Len(content[g]) + 1 /\ Len(content[g]) \in Nat
      BY <1>2, <1>5, <2>0
    <2>2. Start(g) <= Start(g)' /\ Start(g) \in Nat /\ Start(g)' \in Nat
      BY <1>1, <1>2, <2>1 DEF Start
    <2>3. k # Len(content[g]) + 1
      BY <1>1, <1>3, <1>5, <2>0
    <2>4. k \in Start(g) + 1 .. Len(content[g])
      <3>1. PICK a \in Nat, b \in Nat, n \in Nat :
               a = Start(g) /\ b = Start(g)' /\ n = Len(content[g])
        BY <2>1, <2>2
      <3>2. k \in b + 1 .. n + 1 /\ a <= b /\ k # n + 1
        BY <1>3, <2>1, <2>2, <2>3, <3>1
      <3>3. k \in a + 1 .. n
        BY <3>2
      <3> QED
        BY <3>1, <3>3
    <2>5. content'[g][k] = content[g][k]
      <3>1. k \in DOMAIN content[f]
        BY <1>2, <1>5, <2>2, <2>4
      <3> QED
        BY <1>5, <2>0, <3>1
    <2> QED
      BY <1>3, <2>4, <2>5 DEF IsUnread, Unread, From
  <1> QED
    BY <1>4, <1>5

\* The rotation of a file takes its lines away.
LEMMA UnreadRotate ==
  ASSUME ScannerTypes, NEW f \in FileSet, Rotate(f)
  PROVE  \A i \in Lines : IsUnread(i)' => IsUnread(i)
  <1> SUFFICES ASSUME NEW i \in Lines, IsUnread(i)'
               PROVE  IsUnread(i)
    OBVIOUS
  <1> DEFINE g == log[i].file
  <1>1. g \in FileSet /\ log' = log /\ pos' = pos
    BY LineType DEF Rotate
  <1>2. CASE g = f
    <2>1. content'[f] = <<>>
      BY RotateFacts
    <2>2. Start(f)' \in Nat
      BY <2>1, <1>1 DEF Start, ScannerTypes
    <2>3. Unread(f)' = {}
      BY <2>1, <2>2 DEF Unread, From
    <2> QED
      BY <1>1, <1>2, <2>3 DEF IsUnread
  <1>3. CASE g # f
    <2>1. content'[g] = content[g]
      BY <1>1, <1>3, RotateFacts
    <2> QED
      BY <1>1, <2>1 DEF IsUnread, Unread, From, Start
  <1> QED
    BY <1>2, <1>3

\* The lines of a file that are to be read.
LEMMA UnreadIsOwn ==
  ASSUME ScannerTypes, LinesAreOwn, NEW f \in FileSet, NEW i \in Unread(f)
  PROVE  i \in Lines /\ log[i].file = f /\ IsUnread(i)
  <1>1. i \in Lines /\ Start(f) \in Nat
    BY UnreadType
  <1>2. PICK k \in Start(f) + 1 .. Len(content[f]) : i = content[f][k]
    BY DEF Unread, From
  <1>3. content[f] \in Seq(Lines)
    BY DEF ScannerTypes
  <1>4. k \in DOMAIN content[f]
    BY <1>1, <1>2, <1>3
  <1> QED
    BY <1>1, <1>2, <1>4 DEF LinesAreOwn, IsUnread

Hands == ScanIsTidy /\ LinesAreReadOnce /\ TellsAreCounted

\* The counts of a line are numbers.
LEMMA CountTypes ==
  ASSUME ScannerTypes
  PROVE  /\ \A i \in Lines : i \in 1 .. MaxLines /\ told[i] \in Nat /\ again[i] \in Nat
         /\ restarts \in Nat
  <1>1. ASSUME NEW i \in Lines PROVE i \in 1 .. MaxLines
    BY LineType, ScannerAssumption
  <1>2. told \in [1 .. MaxLines -> Nat] /\ again \in [1 .. MaxLines -> Nat] /\ restarts \in Nat
    BY DEF ScannerTypes
  <1> QED
    BY <1>1, <1>2

\* What is in hand is a line.
LEMMA HandTypes ==
  ASSUME ScannerTypes
  PROVE  scan.found \subseteq Lines /\ \A r \in requests : r.line \in Lines
  BY DEF ScannerTypes

\* Where nothing is told and less may be told, the account stands.
LEMMA TellsFall ==
  ASSUME ScannerTypes, TellsAreCounted,
         Lines' = Lines, told' = told, again' = again, restarts' = restarts,
         \A i \in Lines : /\ MayBeTold(i)' => MayBeTold(i)
                          /\ IsPosted(i)' => IsPosted(i)
  PROVE  TellsAreCounted'
  BY CountTypes DEF TellsAreCounted

\* Where scan and requests stay, so do the hands.
LEMMA HandsStay ==
  ASSUME ScannerTypes, Hands, Lines' = Lines, \A i \in Lines : log'[i] = log[i],
         scan' = scan, requests' = requests, told' = told, again' = again, restarts' = restarts,
         \A i \in Lines : IsUnread(i)' => IsUnread(i)
  PROVE  Hands'
  <1>0. scan.found \subseteq Lines /\ \A r \in requests : r.line \in Lines
    BY DEF ScannerTypes
  <1>1. ScanIsTidy'
    BY DEF Hands, ScanIsTidy
  <1>2. scan.line # NoLine => scan.line \in Lines
    BY DEF Hands, ScanIsTidy
  <1>3. LinesAreReadOnce'
    BY <1>0, <1>2 DEF Hands, LinesAreReadOnce
  <1>4. \A i \in Lines : (MayBeTold(i)' => MayBeTold(i)) /\ (IsPosted(i)' => IsPosted(i))
    BY DEF MayBeTold, IsPosted
  <1> QED
    BY <1>1, <1>3, <1>4, TellsFall DEF Hands

\* A new line has not been told.
LEMMA WriteHands ==
  ASSUME ScannerTypes, Hands, NEW f \in FileSet, NEW key \in Errors, Write(f, key)
  PROVE  Hands'
  <1>n. PICK n : n = Len(log) + 1
    OBVIOUS
  <1>0. scan.found \subseteq Lines /\ \A r \in requests : r.line \in Lines
    BY DEF ScannerTypes
  <1>1. scan' = scan /\ requests' = requests /\ told' = told /\ again' = again /\ restarts' = restarts
    BY DEF Write, history
  <1>2. \A i \in Lines : IsUnread(i)' => IsUnread(i)
    BY UnreadWrite
  <1>a. Len(log) \in Nat
    BY DEF ScannerTypes
  <1>3. Lines' = Lines \cup {n} /\ n \notin Lines /\ NoLine \notin Lines' /\ NoLine \notin Lines
    <2>1. Lines' = Lines \cup {n} /\ n \notin Lines
      BY <1>n, WriteFacts
    <2>2. NoLine # n
      BY <1>n, <1>a DEF NoLine
    <2> QED
      BY <2>1, <2>2, NoLineFact
  <1>4. ScanIsTidy'
    BY <1>1, <1>3 DEF Hands, ScanIsTidy
  <1>5. scan.line # NoLine => scan.line \in Lines
    BY DEF Hands, ScanIsTidy
  <1>6. LinesAreReadOnce'
    BY <1>0, <1>1, <1>2, <1>5 DEF Hands, LinesAreReadOnce
  <1>7. n \in 1 .. MaxLines /\ told[n] = 0 /\ again[n] \in Nat /\ restarts \in Nat
    <2>1. Len(log) < MaxLines /\ MaxLines \in Nat
      BY ScannerAssumption DEF Write
    <2>2. n \in 1 .. MaxLines
      BY <1>n, <2>1, <1>a
    <2>3. again \in [1 .. MaxLines -> Nat] /\ restarts \in Nat
      BY DEF ScannerTypes
    <2> QED
      BY <1>3, <2>2, <2>3 DEF Hands, TellsAreCounted
  <1>8. ~ IsPosted(n)' /\ \A i \in Lines : IsPosted(i)' <=> IsPosted(i)
    BY <1>0, <1>1, <1>3 DEF IsPosted
  <1>9. \A i \in Lines : MayBeTold(i)' => MayBeTold(i)
    BY <1>1, <1>2 DEF MayBeTold
  <1>10. \A i \in Lines : told[i] \in Nat /\ again[i] \in Nat
    BY CountTypes
  <1>11. TellsAreCounted'
    <2>1. ASSUME NEW i \in 1 .. MaxLines, i \notin Lines' PROVE told'[i] = 0
      BY <2>1, <1>1, <1>3 DEF Hands, TellsAreCounted
    <2>2. ASSUME NEW i \in Lines'
          PROVE  told'[i] + (IF MayBeTold(i)' THEN 1 ELSE 0) + (IF IsPosted(i)' THEN 1 ELSE 0)
                    <= 1 + again'[i] + restarts'
      <3>1. CASE i = n
        BY <1>1, <1>7, <1>8, <3>1
      <3>2. CASE i \in Lines
        <4>1. told[i] + (IF MayBeTold(i) THEN 1 ELSE 0) + (IF IsPosted(i) THEN 1 ELSE 0)
                <= 1 + again[i] + restarts
          BY <3>2 DEF Hands, TellsAreCounted
        <4> QED
          BY <1>1, <1>7, <1>8, <1>9, <1>10, <3>2, <4>1
      <3> QED
        BY <1>3, <3>1, <3>2
    <2> QED
      BY <2>1, <2>2 DEF TellsAreCounted
  <1> QED
    BY <1>4, <1>6, <1>11 DEF Hands

\* The scanner reads a file: what it finds moves from the file into its hands.
LEMMA ReadHands ==
  ASSUME ScannerTypes, LinesAreOwn, Hands, NEW f \in FileSet, Reads(f), SameLog,
         NEW S \in SUBSET Unread(f), Goes(S), Advance(f),
         requests' = requests, again' = again, restarts' = restarts
  PROVE  /\ ScanIsTidy' /\ LinesAreReadOnce' /\ Lines' = Lines
         /\ \A i \in Lines : /\ MayBeTold(i)' => MayBeTold(i)
                             /\ IsPosted(i)' <=> IsPosted(i)
                             /\ i \in Unread(f) \ S => ~ MayBeTold(i)' /\ MayBeTold(i)
  <1>0. scan.found \subseteq Lines /\ \A r \in requests : r.line \in Lines
    BY DEF ScannerTypes
  <1>1. \A i \in Unread(f) : i \in Lines /\ log[i].file = f /\ IsUnread(i)
    BY UnreadIsOwn
  <1>2. /\ scan'.phase = "busy" /\ scan'.found = scan.found \cup S /\ scan'.line = scan.line
        /\ pos'[f] = Len(content[f]) /\ \A g \in FileSet \ {f} : pos'[g] = pos[g]
    BY <1>1, GoesType
  <1>3. \A i \in Lines : IsUnread(i)' <=> IsUnread(i) /\ log[i].file # f
    BY <1>2, UnreadRead
  <1>4. scan.phase = "busy" /\ scan.line = NoLine
    BY DEF Reads, Hands, ScanIsTidy
  <1>5. ScanIsTidy'
    BY <1>2, <1>4 DEF ScanIsTidy
  <1>6. \A i \in S : i \notin scan.found /\ i # NoLine /\ \A r \in requests : r.line # i
    BY <1>1, NoLineFact DEF Hands, LinesAreReadOnce
  <1>7. \A i \in scan.found : i # NoLine
    BY <1>0, NoLineFact
  <1>8. LinesAreReadOnce'
    <2>1. \A i \in scan'.found : ~ IsUnread(i)' /\ i # scan'.line
      BY <1>0, <1>1, <1>2, <1>3, <1>4, <1>6, <1>7 DEF Hands, LinesAreReadOnce
    <2>2. \A r \in requests : ~ IsUnread(r.line)' /\ r.line \notin scan'.found
      BY <1>0, <1>2, <1>3, <1>6 DEF Hands, LinesAreReadOnce
    <2> QED
      BY <1>2, <1>4, <2>1, <2>2 DEF Hands, LinesAreReadOnce
  <1>9. \A i \in Lines : /\ MayBeTold(i)' => MayBeTold(i)
                         /\ i \in Unread(f) \ S => ~ MayBeTold(i)' /\ MayBeTold(i)
    BY <1>1, <1>2, <1>3, <1>4 DEF MayBeTold, Hands, LinesAreReadOnce
  <1>10. \A i \in Lines : IsPosted(i)' <=> IsPosted(i)
    BY DEF IsPosted
  <1>11. Lines' = Lines
    BY SameLogTypes
  <1> QED
    BY <1>5, <1>8, <1>9, <1>10, <1>11

\* Reading a log or the heartbeats tells nothing.
LEMMA QuietReadHands ==
  ASSUME ScannerTypes, LinesAreOwn, Hands, SameLog,
         NEW f \in FileSet, ReadLog(f) \/ ReadHeartbeats(f)
  PROVE  Hands'
  <1>1. /\ Reads(f) /\ Advance(f) /\ requests' = requests
        /\ told' = told /\ again' = again /\ restarts' = restarts
    BY DEF ReadLog, ReadHeartbeats, world, history
  <1>2. \E S \in SUBSET Unread(f) : Goes(S)
    BY DEF ReadLog, ReadHeartbeats, NewHeartbeats
  <1> QED
    BY <1>1, <1>2, ReadHands, TellsFall DEF Hands

\* An alarm tells of lines that were unread.
LEMMA ReadAuditHands ==
  ASSUME ScannerTypes, LinesAreOwn, Hands, SameLog, NEW f \in FileSet, ReadAudit(f)
  PROVE  Hands'
  <1>1. /\ Reads(f) /\ Advance(f) /\ Goes({}) /\ requests' = requests
        /\ again' = again /\ restarts' = restarts
    BY DEF ReadAudit, world
  <1>2. /\ ScanIsTidy' /\ LinesAreReadOnce' /\ Lines' = Lines
        /\ \A i \in Lines : /\ MayBeTold(i)' => MayBeTold(i)
                            /\ IsPosted(i)' <=> IsPosted(i)
                            /\ i \in Unread(f) => ~ MayBeTold(i)' /\ MayBeTold(i)
    BY <1>1, ReadHands
  <1>3. Alarmed(f) \subseteq Unread(f) /\ Unread(f) \subseteq Lines
    <2>1. Start(f) \in Nat /\ Unread(f) \subseteq Lines
      BY UnreadType
    <2>2. failures \in Nat /\ failures <= Alarming - 1 /\ Alarming \in Nat
      BY ScannerAssumption DEF ScannerTypes
    <2>3. Start(f) + 1 <= Start(f) + Alarming - failures /\ Start(f) + Alarming - failures \in Nat
      BY <2>1, <2>2
    <2>4. content[f] \in Seq(Lines)
      BY DEF ScannerTypes
    <2>5. \A k \in Start(f) + Alarming - failures .. Len(content[f]) : k \in Start(f) + 1 .. Len(content[f])
      BY <2>1, <2>3, <2>4
    <2> QED
      BY <2>1, <2>5 DEF Alarmed, Unread, From
  <1>4. told \in [1 .. MaxLines -> Nat]
    BY DEF ScannerTypes
  <1>5. \A i \in 1 .. MaxLines : told'[i] = told[i] \/ (i \in Unread(f) /\ told'[i] = told[i] + 1)
    <2>1. CASE told' = [i \in DOMAIN told |-> IF i \in Alarmed(f) THEN told[i] + 1 ELSE told[i]]
      BY <1>3, <1>4, <2>1
    <2>2. CASE UNCHANGED told
      BY <2>2
    <2> QED
      BY <2>1, <2>2 DEF ReadAudit
  <1>6. \A i \in 1 .. MaxLines : i \notin Lines' => told'[i] = 0
    BY <1>2, <1>3, <1>5 DEF Hands, TellsAreCounted
  <1>7. ASSUME NEW i \in Lines
        PROVE  told'[i] + (IF MayBeTold(i)' THEN 1 ELSE 0) + (IF IsPosted(i)' THEN 1 ELSE 0)
                 <= 1 + again[i] + restarts
    <2>1. told[i] + (IF MayBeTold(i) THEN 1 ELSE 0) + (IF IsPosted(i) THEN 1 ELSE 0)
            <= 1 + again[i] + restarts
      BY DEF Hands, TellsAreCounted
    <2>2. i \in 1 .. MaxLines /\ told[i] \in Nat /\ again[i] \in Nat /\ restarts \in Nat
      BY CountTypes
    <2>3. told'[i] = told[i] \/ (i \in Unread(f) /\ told'[i] = told[i] + 1)
      BY <1>5, <2>2
    <2> QED
      BY <1>2, <2>1, <2>2, <2>3
  <1>8. TellsAreCounted'
    BY <1>1, <1>2, <1>6, <1>7 DEF TellsAreCounted
  <1> QED
    BY <1>2, <1>8 DEF Hands

\* A finding becomes a request.
LEMMA PostHands ==
  ASSUME ScannerTypes, Hands, SameLog, NEW i, Post(i)
  PROVE  Hands'
  <1>0. scan.found \subseteq Lines /\ (\A r \in requests : r.line \in Lines) /\ NoLine \notin Lines
    BY HandTypes, NoLineFact
  <1>1. /\ i \in Lines /\ i \in scan.found /\ scan.phase = "busy"
        /\ scan'.phase = "waiting" /\ scan'.found = scan.found \ {i} /\ scan'.line = i
    BY TakesType DEF Post
  <1>2. scan.line = NoLine
    BY <1>1 DEF Hands, ScanIsTidy
  <1> DEFINE q == [line |-> i, stage |-> "new"]
  <1>3. requests' = requests \cup {q} /\ q.line = i
    BY DEF Post
  <1> HIDE DEF q
  <1>4. told' = told /\ again' = again /\ restarts' = restarts /\ pos' = pos
    BY DEF Post, world
  <1>5. Lines' = Lines /\ \A j : IsUnread(j)' <=> IsUnread(j)
    BY <1>4, SameLogTypes, UnreadSame
  <1>6. ScanIsTidy'
    BY <1>1, <1>5 DEF ScanIsTidy
  <1>7. \A r \in requests : r.line # i
    BY <1>1 DEF Hands, LinesAreReadOnce
  <1>8. LinesAreReadOnce'
    <2>1. \A j \in scan'.found : ~ IsUnread(j)' /\ j # scan'.line
      BY <1>1, <1>5 DEF Hands, LinesAreReadOnce
    <2>2. ~ IsUnread(i)'
      BY <1>1, <1>5 DEF Hands, LinesAreReadOnce
    <2>3. \A r \in requests' : ~ IsUnread(r.line)' /\ r.line \notin scan'.found
      BY <1>1, <1>3, <1>5, <2>2 DEF Hands, LinesAreReadOnce
    <2>4. \A r, p \in requests' : r.line = p.line => r = p
      BY <1>3, <1>7 DEF Hands, LinesAreReadOnce
    <2> QED
      BY <1>1, <2>1, <2>2, <2>3, <2>4 DEF LinesAreReadOnce
  <1>9. /\ MayBeTold(i) /\ ~ IsPosted(i) /\ ~ MayBeTold(i)'
        /\ \A j \in Lines \ {i} : (MayBeTold(j)' <=> MayBeTold(j)) /\ (IsPosted(j)' <=> IsPosted(j))
    <2>1. MayBeTold(i) /\ ~ IsPosted(i)
      BY <1>1, <1>7 DEF MayBeTold, IsPosted
    <2>2. ~ MayBeTold(i)'
      BY <1>1, <1>5 DEF MayBeTold, Hands, LinesAreReadOnce
    <2>3. ASSUME NEW j \in Lines \ {i} PROVE MayBeTold(j)' <=> MayBeTold(j)
      BY <1>0, <1>1, <1>2, <1>5 DEF MayBeTold
    <2>4. ASSUME NEW j \in Lines \ {i} PROVE IsPosted(j)' <=> IsPosted(j)
      BY <1>3 DEF IsPosted
    <2> QED
      BY <2>1, <2>2, <2>3, <2>4
  <1>10. TellsAreCounted'
    BY <1>1, <1>4, <1>5, <1>9, CountTypes DEF Hands, TellsAreCounted
  <1> QED
    BY <1>6, <1>8, <1>10 DEF Hands

\* A call without answer: the finding may be told once more, and this is counted.
LEMMA GivesUpHands ==
  ASSUME ScannerTypes, Hands, SameLog, NEW i \in Lines, GivesUp(i)
  PROVE  Hands'
  <1>0. scan.found \subseteq Lines /\ (\A r \in requests : r.line \in Lines) /\ NoLine \notin Lines
    BY HandTypes, NoLineFact
  <1>1. /\ requests' = requests /\ told' = told /\ restarts' = restarts /\ pos' = pos
        /\ again' = [again EXCEPT ![i] = @ + 1]
    BY DEF GivesUp, world
  <1>2. Lines' = Lines /\ \A j : IsUnread(j)' <=> IsUnread(j)
    BY <1>1, SameLogTypes, UnreadSame
  <1>3. /\ scan'.phase = "fallback" /\ scan'.line = i /\ scan'.found \subseteq scan.found
        /\ i \notin scan'.found /\ ~ IsUnread(i)
        /\ scan.phase = "waiting" \/ scan.line = NoLine
    <2>1. CASE Takes(i, "fallback")
      BY <2>1, TakesType DEF Hands, ScanIsTidy, LinesAreReadOnce
    <2>2. CASE scan.phase = "waiting" /\ scan.line = i /\ scan' = [scan EXCEPT !.phase = "fallback"]
      BY <1>0, <2>2 DEF ScannerTypes, Hands, LinesAreReadOnce
    <2> QED
      BY <2>1, <2>2 DEF GivesUp
  <1>4. ScanIsTidy'
    BY <1>2, <1>3 DEF ScanIsTidy
  <1>5. LinesAreReadOnce'
    BY <1>1, <1>2, <1>3 DEF Hands, LinesAreReadOnce
  <1>6. \A j \in Lines \ {i} : (MayBeTold(j)' => MayBeTold(j))
    BY <1>2, <1>3 DEF MayBeTold
  <1>7. \A j \in Lines : IsPosted(j)' <=> IsPosted(j)
    BY <1>1 DEF IsPosted
  <1>8. \A j \in Lines : j \in 1 .. MaxLines /\ told[j] \in Nat /\ again[j] \in Nat /\ restarts \in Nat
    BY CountTypes
  <1>9. again'[i] = again[i] + 1 /\ \A j \in Lines \ {i} : again'[j] = again[j]
    BY <1>1, <1>8 DEF ScannerTypes
  <1>10. \A j \in 1 .. MaxLines : j \notin Lines' => told'[j] = 0
    BY <1>1, <1>2 DEF Hands, TellsAreCounted
  <1>11. ASSUME NEW j \in Lines
         PROVE  told[j] + (IF MayBeTold(j)' THEN 1 ELSE 0) + (IF IsPosted(j)' THEN 1 ELSE 0)
                  <= 1 + again'[j] + restarts
    <2>1. told[j] + (IF MayBeTold(j) THEN 1 ELSE 0) + (IF IsPosted(j) THEN 1 ELSE 0)
            <= 1 + again[j] + restarts
      BY DEF Hands, TellsAreCounted
    <2> QED
      BY <1>6, <1>7, <1>8, <1>9, <2>1
  <1>12. TellsAreCounted'
    BY <1>1, <1>2, <1>10, <1>11 DEF TellsAreCounted
  <1> QED
    BY <1>4, <1>5, <1>12 DEF Hands

\* The scan begins, ends or breaks off: nothing comes into its hands.
LEMMA EmptyHands ==
  ASSUME ScannerTypes, Hands, SameLog, pos' = pos,
         requests' = requests, told' = told, again' = again, restarts' = restarts,
         scan'.found \subseteq scan.found, scan'.line = NoLine, scan'.phase \in {"idle", "busy"},
         scan'.phase = "idle" => scan' = NoScan
  PROVE  Hands'
  <1>0. scan.found \subseteq Lines /\ (\A r \in requests : r.line \in Lines) /\ NoLine \notin Lines
    BY HandTypes, NoLineFact
  <1>1. Lines' = Lines /\ \A j : IsUnread(j)' <=> IsUnread(j)
    BY SameLogTypes, UnreadSame
  <1>2. ScanIsTidy'
    BY DEF ScanIsTidy
  <1>3. LinesAreReadOnce'
    BY <1>0, <1>1 DEF Hands, LinesAreReadOnce
  <1>4. \A i \in Lines : (MayBeTold(i)' => MayBeTold(i)) /\ (IsPosted(i)' => IsPosted(i))
    BY <1>1 DEF MayBeTold, IsPosted
  <1> QED
    BY <1>1, <1>2, <1>3, <1>4, TellsFall DEF Hands

\* The fallback tells the line that it has in hand, once.
LEMMA FallbackHands ==
  ASSUME ScannerTypes, Hands, SameLog, Fallback
  PROVE  Hands'
  <1>0. scan.found \subseteq Lines /\ (\A r \in requests : r.line \in Lines) /\ NoLine \notin Lines
    BY HandTypes, NoLineFact
  <1>i. PICK i : i = scan.line
    OBVIOUS
  <1>1. /\ requests' = requests /\ again' = again /\ restarts' = restarts /\ pos' = pos
        /\ scan.phase = "fallback" /\ i \in Lines
    BY <1>i DEF Fallback, world, Hands, ScanIsTidy
  <1>2. Lines' = Lines /\ \A j : IsUnread(j)' <=> IsUnread(j)
    BY <1>1, SameLogTypes, UnreadSame
  <1>3. scan'.phase = "busy" /\ scan'.found = scan.found /\ scan'.line = NoLine
    BY NextFindingType DEF Fallback
  <1>4. ScanIsTidy'
    BY <1>3 DEF ScanIsTidy
  <1>5. LinesAreReadOnce'
    BY <1>0, <1>1, <1>2, <1>3 DEF Hands, LinesAreReadOnce
  <1>6. MayBeTold(i) /\ ~ MayBeTold(i)'
    BY <1>0, <1>i, <1>1, <1>2, <1>3 DEF MayBeTold, Hands, LinesAreReadOnce
  <1>7. \A j \in Lines : (MayBeTold(j)' => MayBeTold(j)) /\ (IsPosted(j)' <=> IsPosted(j))
    BY <1>1, <1>2, <1>3 DEF MayBeTold, IsPosted
  <1>8. \A j \in Lines : j \in 1 .. MaxLines /\ told[j] \in Nat /\ again[j] \in Nat /\ restarts \in Nat
    BY CountTypes
  <1>9. told \in [1 .. MaxLines -> Nat]
    BY DEF ScannerTypes
  <1>10. \A j \in 1 .. MaxLines : told'[j] = told[j] \/ (j = i /\ told'[j] = told[j] + 1)
    BY <1>i, <1>8, <1>9 DEF Fallback
  <1>11. \A j \in 1 .. MaxLines : j \notin Lines' => told'[j] = 0
    BY <1>1, <1>2, <1>10 DEF Hands, TellsAreCounted
  <1>12. ASSUME NEW j \in Lines
         PROVE  told'[j] + (IF MayBeTold(j)' THEN 1 ELSE 0) + (IF IsPosted(j)' THEN 1 ELSE 0)
                  <= 1 + again[j] + restarts
    <2>1. told[j] + (IF MayBeTold(j) THEN 1 ELSE 0) + (IF IsPosted(j) THEN 1 ELSE 0)
            <= 1 + again[j] + restarts
      BY DEF Hands, TellsAreCounted
    <2>2. told'[j] = told[j] \/ (j = i /\ told'[j] = told[j] + 1)
      BY <1>8, <1>10
    <2> QED
      BY <1>6, <1>7, <1>8, <2>1, <2>2
  <1>13. TellsAreCounted'
    BY <1>1, <1>2, <1>11, <1>12 DEF TellsAreCounted
  <1> QED
    BY <1>4, <1>5, <1>13 DEF Hands

\* What the scanner does with an answer.
LEMMA AnswerHands ==
  ASSUME ScannerTypes, Hands, SameLog, pos' = pos, NEW r \in requests, Answer(r),
         requests' = requests \ {r}
  PROVE  /\ ScanIsTidy' /\ LinesAreReadOnce' /\ Lines' = Lines
         /\ \A i \in Lines : MayBeTold(i)' => MayBeTold(i)
         /\ \A i \in Lines : IsPosted(i)' => IsPosted(i)
         /\ r.line \in Lines /\ IsPosted(r.line) /\ ~ \E q \in requests' : q.line = r.line
  <1>0. scan.found \subseteq Lines /\ (\A q \in requests : q.line \in Lines) /\ NoLine \notin Lines
    BY HandTypes, NoLineFact
  <1>1. Lines' = Lines /\ \A j : IsUnread(j)' <=> IsUnread(j)
    BY SameLogTypes, UnreadSame
  <1>2. /\ scan'.found = scan.found
        /\ \/ scan' = scan
           \/ /\ scan.phase = "waiting" /\ scan.line = r.line
              /\ scan'.phase = "busy" /\ scan'.line = NoLine
    BY AnswerType
  <1>3. ScanIsTidy'
    BY <1>1, <1>2 DEF Hands, ScanIsTidy
  <1>4. scan'.line # NoLine => scan'.line = scan.line
    BY <1>2
  <1>5. LinesAreReadOnce'
    <2>1. \A i \in scan'.found : ~ IsUnread(i)' /\ i # scan'.line
      BY <1>0, <1>1, <1>2, <1>4 DEF Hands, LinesAreReadOnce
    <2>2. scan'.line # NoLine => ~ IsUnread(scan.line)
      BY <1>4 DEF Hands, LinesAreReadOnce
    <2> QED
      BY <1>1, <1>2, <1>4, <2>1, <2>2 DEF Hands, LinesAreReadOnce
  <1>6. \A i \in Lines : MayBeTold(i)' => MayBeTold(i)
    BY <1>1, <1>2, <1>4 DEF MayBeTold
  <1>7. \A i \in Lines : IsPosted(i)' => IsPosted(i)
    BY DEF IsPosted
  <1>8. r.line \in Lines /\ IsPosted(r.line) /\ ~ \E q \in requests' : q.line = r.line
    BY <1>0 DEF IsPosted, Hands, LinesAreReadOnce
  <1> QED
    BY <1>1, <1>3, <1>5, <1>6, <1>7, <1>8

\* The endpoint tells the line of a request, once.
LEMMA NotifyHands ==
  ASSUME ScannerTypes, Hands, SameLog, NEW r \in requests, Notify(r)
  PROVE  Hands'
  <1>i. PICK i : i = r.line
    OBVIOUS
  <1>1. /\ requests' = requests \ {r} /\ again' = again /\ restarts' = restarts /\ pos' = pos
        /\ Answer(r)
    BY DEF Notify, world
  <1>2. /\ ScanIsTidy' /\ LinesAreReadOnce' /\ Lines' = Lines
        /\ \A j \in Lines : MayBeTold(j)' => MayBeTold(j)
        /\ \A j \in Lines : IsPosted(j)' => IsPosted(j)
        /\ i \in Lines /\ IsPosted(i) /\ ~ \E q \in requests' : q.line = i
    BY <1>1, <1>i, AnswerHands
  <1>3. ~ IsPosted(i)'
    BY <1>2 DEF IsPosted
  <1>8. \A j \in Lines : j \in 1 .. MaxLines /\ told[j] \in Nat /\ again[j] \in Nat /\ restarts \in Nat
    BY CountTypes
  <1>9. told \in [1 .. MaxLines -> Nat]
    BY DEF ScannerTypes
  <1>10. \A j \in 1 .. MaxLines : told'[j] = told[j] \/ (j = i /\ told'[j] = told[j] + 1)
    BY <1>i, <1>8, <1>9 DEF Notify
  <1>11. \A j \in 1 .. MaxLines : j \notin Lines' => told'[j] = 0
    BY <1>2, <1>10 DEF Hands, TellsAreCounted
  <1>12. ASSUME NEW j \in Lines
         PROVE  told'[j] + (IF MayBeTold(j)' THEN 1 ELSE 0) + (IF IsPosted(j)' THEN 1 ELSE 0)
                  <= 1 + again[j] + restarts
    <2>1. told[j] + (IF MayBeTold(j) THEN 1 ELSE 0) + (IF IsPosted(j) THEN 1 ELSE 0)
            <= 1 + again[j] + restarts
      BY DEF Hands, TellsAreCounted
    <2>2. told'[j] = told[j] \/ (j = i /\ told'[j] = told[j] + 1)
      BY <1>8, <1>10
    <2> QED
      BY <1>2, <1>3, <1>8, <2>1, <2>2
  <1>13. TellsAreCounted'
    BY <1>1, <1>2, <1>11, <1>12 DEF TellsAreCounted
  <1> QED
    BY <1>2, <1>13 DEF Hands

\* A request that is remembered keeps its line.
LEMMA RememberHands ==
  ASSUME ScannerTypes, Hands, SameLog, NEW r \in requests, Remember(r)
  PROVE  Hands'
  <1> DEFINE q == [r EXCEPT !.stage = "send"]
  <1>0. scan.found \subseteq Lines /\ (\A p \in requests : p.line \in Lines) /\ NoLine \notin Lines
    BY HandTypes, NoLineFact
  <1>1. /\ requests' = (requests \ {r}) \cup {q} /\ told' = told /\ again' = again /\ restarts' = restarts
        /\ pos' = pos /\ scan' = scan
    BY DEF Remember, world
  <1>2. q.line = r.line
    BY DEF ScannerTypes
  <1> HIDE DEF q
  <1>3. Lines' = Lines /\ \A j : IsUnread(j)' <=> IsUnread(j)
    BY <1>1, SameLogTypes, UnreadSame
  <1>4. ScanIsTidy'
    BY <1>1, <1>3 DEF Hands, ScanIsTidy
  <1>5. LinesAreReadOnce'
    <2>1. \A p \in requests' : \E o \in requests : o.line = p.line /\ (p = o \/ (o = r /\ p = q))
      BY <1>1, <1>2
    <2>2. \A o, p \in requests' : o.line = p.line => o = p
      BY <1>1, <1>2, <2>1 DEF Hands, LinesAreReadOnce
    <2>3. \A p \in requests' : ~ IsUnread(p.line) /\ p.line \notin scan.found
      BY <2>1 DEF Hands, LinesAreReadOnce
    <2> QED
      BY <1>1, <1>3, <2>2, <2>3 DEF Hands, LinesAreReadOnce
  <1>6. \A i \in Lines : (MayBeTold(i)' => MayBeTold(i)) /\ (IsPosted(i)' => IsPosted(i))
    BY <1>1, <1>2, <1>3 DEF MayBeTold, IsPosted
  <1> QED
    BY <1>1, <1>3, <1>4, <1>5, <1>6, TellsFall DEF Hands

\* A new process may tell every line once more, and this is counted too.
LEMMA RestartHands ==
  ASSUME ScannerTypes, Hands, SameLog, Restart
  PROVE  Hands'
  <1>1. /\ scan' = NoScan /\ requests' = {} /\ restarts' = restarts + 1 /\ told' = told /\ again' = again
    BY DEF Restart
  <1>2. scan'.found = {} /\ scan'.line = NoLine /\ scan'.phase = "idle"
    BY <1>1, NoScanType
  <1>3. Lines' = Lines
    BY SameLogTypes
  <1>4. ScanIsTidy' /\ LinesAreReadOnce'
    BY <1>1, <1>2 DEF ScanIsTidy, LinesAreReadOnce
  <1>5. \A i \in Lines : ~ IsPosted(i)'
    BY <1>1 DEF IsPosted
  <1>6. TellsAreCounted'
    BY <1>1, <1>3, <1>5, CountTypes DEF Hands, TellsAreCounted
  <1> QED
    BY <1>4, <1>6 DEF Hands

\* All steps.
LEMMA HandsStep ==
  ASSUME ScannerTypes, LinesAreOwn, Hands, [ScannerNext]_scannerVars
  PROVE  Hands'
  <1>1. ASSUME NEW f \in FileSet, NEW key \in Errors, Write(f, key) PROVE Hands'
    BY <1>1, WriteHands
  <1>2. ASSUME NEW f \in FileSet, Rotate(f) PROVE Hands'
    <2>1. /\ Lines' = Lines /\ log' = log /\ scan' = scan /\ requests' = requests
          /\ told' = told /\ again' = again /\ restarts' = restarts
      BY <1>2, RotateFacts DEF Rotate, history
    <2> QED
      BY <1>2, <2>1, UnreadRotate, HandsStay
  <1>3. CASE ~ \E f \in FileSet : Rotate(f) \/ \E key \in Errors : Write(f, key)
    <2>0. SameLog /\ Lines' = Lines /\ log' = log
      BY <1>3, RestTypes, SameLogTypes DEF Hands, SameLog
    <2>1. CASE StartScan \/ SavePositions \/ FallbackRaises
      <3>1. /\ pos' = pos /\ requests' = requests /\ told' = told /\ again' = again /\ restarts' = restarts
        BY <2>1 DEF StartScan, SavePositions, FallbackRaises, world, history
      <3>2. /\ scan'.found \subseteq scan.found /\ scan'.line = NoLine /\ scan'.phase \in {"idle", "busy"}
            /\ scan'.phase = "idle" => scan' = NoScan
        <4>1. CASE scan' = NoScan
          BY <4>1, NoScanType
        <4>2. CASE scan' = [NoScan EXCEPT !.phase = "busy", !.todo = Files]
          BY <4>2 DEF NoScan
        <4> QED
          BY <2>1, <4>1, <4>2 DEF StartScan, SavePositions, FallbackRaises
      <3> QED
        BY <2>0, <3>1, <3>2, EmptyHands
    <2>2. ASSUME NEW f \in FileSet, ReadLog(f) \/ ReadHeartbeats(f) PROVE Hands'
      BY <2>0, <2>2, QuietReadHands
    <2>3. ASSUME NEW f \in FileSet, ReadAudit(f) PROVE Hands'
      BY <2>0, <2>3, ReadAuditHands
    <2>4. ASSUME NEW i \in scan.found, Post(i) PROVE Hands'
      BY <2>0, <2>4, PostHands
    <2>5. ASSUME NEW i \in Lines, GivesUp(i) PROVE Hands'
      BY <2>0, <2>5, GivesUpHands
    <2>12. ASSUME NEW i \in Lines, IsRefused(i) PROVE Hands'
      <3>1. /\ pos' = pos /\ requests' = requests /\ told' = told /\ again' = again /\ restarts' = restarts
        BY <2>12 DEF IsRefused, world
      <3>2. scan.phase = "busy" /\ scan'.phase = "busy" /\ scan'.found \subseteq scan.found /\ scan'.line = scan.line
        BY <2>12, RefusedType
      <3>3. scan'.line = NoLine
        BY <3>2 DEF Hands, ScanIsTidy
      <3> QED
        BY <2>0, <3>1, <3>2, <3>3, EmptyHands
    <2>6. CASE Fallback
      BY <2>0, <2>6, FallbackHands
    <2>7. ASSUME NEW r \in requests, Skip(r) PROVE Hands'
      <3>1. /\ requests' = requests \ {r} /\ told' = told /\ again' = again /\ restarts' = restarts
            /\ pos' = pos /\ Answer(r)
        BY <2>7 DEF Skip, world, history
      <3> QED
        BY <2>0, <3>1, AnswerHands, TellsFall DEF Hands
    <2>8. ASSUME NEW r \in requests, Remember(r) PROVE Hands'
      BY <2>0, <2>8, RememberHands
    <2>9. ASSUME NEW r \in requests, Notify(r) PROVE Hands'
      BY <2>0, <2>9, NotifyHands
    <2>10. CASE Tick \/ Toggle \/ UNCHANGED scannerVars
      <3>1. /\ scan' = scan /\ requests' = requests /\ told' = told /\ again' = again /\ restarts' = restarts
            /\ pos' = pos
        BY <2>10 DEF Tick, Toggle, scannerVars, history
      <3> QED
        BY <2>0, <3>1, UnreadSame, HandsStay
    <2>11. CASE Restart
      BY <2>0, <2>11, RestartHands
    <2> QED
      BY <1>3, <2>1, <2>2, <2>3, <2>4, <2>5, <2>6, <2>7, <2>8, <2>9, <2>10, <2>11, <2>12
         DEF ScannerNext, ScanStep, EndpointStep
  <1> QED
    BY <1>1, <1>2, <1>3

\* As long as the process lives, lines are kept and what is read stays read.
LEMMA LifeGoesOn ==
  ASSUME ScannerTypes, LinesAreOwn, ScanIsTidy, [ScannerNext]_scannerVars
  PROVE  /\ Lines \subseteq Lines' /\ \A i \in Lines : log'[i] = log[i]
         /\ ~ Restart => \A i \in Lines : IsUnread(i)' => IsUnread(i)
  <1> DEFINE G == /\ Lines \subseteq Lines' /\ \A i \in Lines : log'[i] = log[i]
                  /\ \A i \in Lines : IsUnread(i)' => IsUnread(i)
  <1>1. ASSUME NEW f \in FileSet, NEW key \in Errors, Write(f, key) PROVE G
    BY <1>1, WriteFacts, UnreadWrite
  <1>2. ASSUME NEW f \in FileSet, Rotate(f) PROVE G
    BY <1>2, RotateFacts, UnreadRotate
  <1>3. CASE ~ \E f \in FileSet : Rotate(f) \/ \E key \in Errors : Write(f, key)
    <2>0. SameLog /\ Lines' = Lines /\ log' = log
      BY <1>3, RestTypes, SameLogTypes DEF SameLog
    <2>1. ASSUME NEW f \in FileSet, ReadLog(f) \/ ReadHeartbeats(f) \/ ReadAudit(f) PROVE G
      <3>1. Reads(f) /\ Advance(f) /\ \E S \in SUBSET Unread(f) : Goes(S)
        BY <2>1 DEF ReadLog, ReadHeartbeats, NewHeartbeats, ReadAudit
      <3>2. Unread(f) \subseteq Lines
        BY UnreadType
      <3>3. pos'[f] = Len(content[f]) /\ \A g \in FileSet \ {f} : pos'[g] = pos[g]
        BY <3>1, <3>2, GoesType
      <3> QED
        BY <2>0, <3>3, UnreadRead
    <2>2. CASE pos' = pos
      BY <2>0, <2>2, UnreadSame
    <2>3. Restart \/ pos' = pos \/ \E f \in FileSet : ReadLog(f) \/ ReadHeartbeats(f) \/ ReadAudit(f)
      BY <1>3 DEF ScannerNext, ScanStep, EndpointStep, StartScan, Post, GivesUp, IsRefused, Fallback, FallbackRaises,
                  SavePositions, Skip, Remember, Notify, Tick, Toggle, scannerVars
    <2> QED
      BY <2>0, <2>1, <2>2, <2>3
  <1> QED
    BY <1>1, <1>2, <1>3

\* A stamp that stays, stays that of a line.
LEMMA StampsStep ==
  ASSUME ScannerTypes, LinesAreOwn, ScanIsTidy, StampsAreLines, [ScannerNext]_scannerVars
  PROVE  StampsAreLines'
  <1>0. /\ Lines \subseteq Lines' /\ \A i \in Lines : log'[i] = log[i]
        /\ ~ Restart => \A i \in Lines : IsUnread(i)' => IsUnread(i)
    BY LifeGoesOn
  <1>1. CASE Restart
    <2>1. \A e \in Errors : stamps'[e] = -1
      BY <1>1 DEF Restart
    <2> QED
      BY <2>1 DEF StampsAreLines
  <1>2. CASE ~ Restart /\ stamps' = stamps
    BY <1>0, <1>2 DEF StampsAreLines
  <1>3. ASSUME NEW f \in FileSet, ReadHeartbeats(f), ~ Restart PROVE StampsAreLines'
    <2>0. f = Heartbeat /\ Unread(f) \subseteq Lines
      BY <1>3, UnreadType DEF ReadHeartbeats
    <2>1. /\ Reads(f) /\ Advance(f) /\ Goes(NewHeartbeats(Unread(f)))
          /\ NewHeartbeats(Unread(f)) \subseteq Unread(f) /\ SameLog
      BY <1>3 DEF ReadHeartbeats, NewHeartbeats, world, SameLog
    <2>2. pos'[f] = Len(content[f]) /\ \A g \in FileSet \ {f} : pos'[g] = pos[g]
      BY <2>0, <2>1, GoesType
    <2>3. \A i \in Unread(f) : i \in Lines /\ log[i].file = f /\ ~ IsUnread(i)'
      BY <2>0, <2>1, <2>2, UnreadRead, UnreadIsOwn
    <2>4. ASSUME NEW e \in Errors, stamps'[e] >= 0
          PROVE  \E j \in Lines' : /\ log'[j] = [file |-> Heartbeat, key |-> e, at |-> stamps'[e]]
                                   /\ ~ IsUnread(j)'
      <3>1. stamps'[e] = LastStamp(e, Unread(f))
        BY <1>3 DEF ReadHeartbeats
      <3>2. stamps'[e] = stamps[e] \/ \E i \in Unread(f) : log[i].key = e /\ log[i].at = stamps'[e]
        BY <2>0, <3>1, LastStampFacts
      <3>3. CASE stamps'[e] = stamps[e]
        BY <1>0, <1>3, <2>4, <3>3 DEF StampsAreLines
      <3>4. CASE \E i \in Unread(f) : log[i].key = e /\ log[i].at = stamps'[e]
        <4>1. PICK i \in Unread(f) : log[i].key = e /\ log[i].at = stamps'[e]
          BY <3>4
        <4>2. i \in Lines /\ log[i].file = Heartbeat /\ ~ IsUnread(i)'
          BY <2>0, <2>3
        <4>3. log[i] \in [file : FileSet, key : Errors, at : Nat]
          BY <4>2, LineType
        <4>4. log[i] = [file |-> Heartbeat, key |-> e, at |-> stamps'[e]]
          BY <4>1, <4>2, <4>3
        <4> QED
          BY <1>0, <4>2, <4>4
      <3> QED
        BY <3>2, <3>3, <3>4
    <2> QED
      BY <2>4 DEF StampsAreLines
  <1>4. Restart \/ stamps' = stamps \/ \E f \in FileSet : ReadHeartbeats(f)
    BY DEF ScannerNext, ScanStep, EndpointStep, Write, Rotate, StartScan, ReadLog, ReadAudit, Post, GivesUp, IsRefused,
           Fallback, FallbackRaises, SavePositions, Skip, Remember, Notify, Tick, Toggle, scannerVars,
           memory
  <1> QED
    BY <1>1, <1>2, <1>3, <1>4

\* An entry that is gone lets the alert ring again, and only then.
LEMMA RingsStep ==
  ASSUME ScannerTypes, RingsAreRemembered, OneRingPerWindow, [ScannerNext]_scannerVars
  PROVE  RingsAreRemembered' /\ OneRingPerWindow'
  <1>0. seen \in [Alerts -> Nat] /\ ringing \in [Alerts -> Nat] /\ Quiet \in Nat \ {0}
    BY ScannerAssumption DEF ScannerTypes
  <1>1. CASE seen' = seen /\ ringing' = ringing
    BY <1>1 DEF RingsAreRemembered, OneRingPerWindow
  <1>2. ASSUME NEW r \in requests, Remember(r) PROVE RingsAreRemembered' /\ OneRingPerWindow'
    <2>0. log[r.line].file \in FileSet /\ log[r.line].key \in Errors
      BY HandTypes, LineType
    <2>1. PICK a \in Alerts : a = Alert(r.line)
      BY <2>0 DEF Alert, Alerts
    <2>2. /\ seen[a] = 0 /\ seen' = [seen EXCEPT ![a] = Quiet]
          /\ ringing' = [ringing EXCEPT ![a] = ringing[a] + 1]
      BY <1>2, <2>1 DEF Remember
    <2>3. ringing[a] = 0
      BY <2>2 DEF RingsAreRemembered
    <2> QED
      BY <1>0, <2>2, <2>3 DEF RingsAreRemembered, OneRingPerWindow
  <1>3. CASE Tick
    BY <1>0, <1>3 DEF Tick, RingsAreRemembered, OneRingPerWindow
  <1>4. CASE Restart
    BY <1>4 DEF Restart, RingsAreRemembered, OneRingPerWindow
  <1>5. Tick \/ Restart \/ (seen' = seen /\ ringing' = ringing) \/ \E r \in requests : Remember(r)
    BY DEF ScannerNext, ScanStep, EndpointStep, Write, Rotate, StartScan, ReadLog, ReadHeartbeats, ReadAudit,
           Post, GivesUp, IsRefused, Fallback, FallbackRaises, SavePositions, Skip, Notify, Toggle, scannerVars,
           memory, history
  <1> QED
    BY <1>1, <1>2, <1>3, <1>4, <1>5

Books == PositionsAreHandled /\ SavedIsHandled

\* The lines that a position covers are lines.
LEMMA CoveredType ==
  ASSUME ScannerTypes, NEW f \in FileSet, NEW p
  PROVE  Covered(f, p) \subseteq Lines
  <1>1. content[f] \in Seq(Lines)
    BY DEF ScannerTypes
  <1> QED
    BY <1>1 DEF Covered

\* What is skipped stays so, as lines are kept.
LEMMA SkippedStays ==
  ASSUME Lines \subseteq Lines', \A i \in Lines : log'[i] = log[i]
  PROVE  \A i \in Lines : Skipped(i) => Skipped(i)'
  BY DEF Skipped

\* Where files and positions stay and the hands let go of nothing, the books agree.
LEMMA BooksStay ==
  ASSUME ScannerTypes, Books, SameLog, pos' = pos, saved' = saved,
         handled \subseteq handled', dropped \subseteq dropped',
         \A i \in Lines : i \in scan.found \cup {scan.line} =>
                          i \in handled' \cup dropped' \cup scan'.found \cup {scan'.line},
         scan'.phase = "waiting" => scan'.line \in handled'
  PROVE  Books'
  <1>1. \A f \in FileSet : Covered(f, pos[f])' = Covered(f, pos[f]) /\ Covered(f, saved[f])' = Covered(f, saved[f])
    BY DEF Covered, SameLog
  <1>2. \A f \in FileSet : Covered(f, pos[f]) \subseteq Lines /\ Covered(f, saved[f]) \subseteq Lines
    BY CoveredType
  <1>3. \A i \in Lines : Skipped(i) => Skipped(i)'
    BY SameLogTypes, SkippedStays DEF SameLog
  <1>4. PositionsAreHandled'
    BY <1>1, <1>2, <1>3 DEF Books, PositionsAreHandled, SameLog
  <1>5. SavedIsHandled'
    BY <1>1, <1>2, <1>3 DEF Books, SavedIsHandled, SameLog
  <1> QED
    BY <1>4, <1>5 DEF Books

\* Lines that are written or rotated away are below no position.
LEMMA WriterBooks ==
  ASSUME ScannerTypes, Books, NEW f \in FileSet, Rotate(f) \/ \E key \in Errors : Write(f, key)
  PROVE  Books'
  <1>1. /\ pos' = pos /\ saved' = saved /\ scan' = scan /\ handled' = handled /\ dropped' = dropped
    BY DEF Write, Rotate, history
  <1>2. Lines \subseteq Lines' /\ \A i \in Lines : log'[i] = log[i]
    BY RotateFacts, WriteFacts
  <1>3. \A i \in Lines : Skipped(i) => Skipped(i)'
    BY <1>2, SkippedStays
  <1>a. \A g \in FileSet : Len(content[g]) \in Nat /\ Len(content'[g]) \in Nat
    <2>1. ScannerTypes'
      BY RotateFacts, WriteFacts
    <2>2. content \in [FileSet -> Seq(Lines)] /\ content' \in [FileSet -> Seq(Lines')]
      BY <2>1 DEF ScannerTypes
    <2>3. \A g \in FileSet : content[g] \in Seq(Lines) /\ content'[g] \in Seq(Lines')
      BY <2>2
    <2> QED
      BY <2>3
  <1>4. ASSUME NEW g \in FileSet, g \notin rotated'
        PROVE  /\ g \notin rotated /\ Len(content[g]) <= Len(content'[g])
               /\ \A p \in Nat : p <= Len(content[g]) => Covered(g, p)' = Covered(g, p)
    <2>1. CASE Rotate(f)
      <3>1. rotated' = rotated \cup {f} /\ \A h \in FileSet \ {f} : content'[h] = content[h]
        BY <2>1, RotateFacts
      <3>2. g # f /\ g \notin rotated /\ content'[g] = content[g] /\ Len(content[g]) <= Len(content'[g])
        BY <1>4, <1>a, <3>1
      <3> QED
        BY <3>2 DEF Covered
    <2>2. ASSUME NEW key \in Errors, Write(f, key)
          PROVE  /\ g \notin rotated /\ Len(content[g]) <= Len(content'[g])
                 /\ \A p \in Nat : p <= Len(content[g]) => Covered(g, p)' = Covered(g, p)
      <3>0. g \notin rotated
        BY <1>4, <2>2 DEF Write
      <3>1. CASE g # f
        <4>0. \A h \in FileSet \ {f} : content'[h] = content[h]
          BY <2>2, WriteFacts
        <4>1. content'[g] = content[g] /\ Len(content[g]) <= Len(content'[g])
          BY <1>a, <3>1, <4>0
        <4> QED
          BY <3>0, <4>1 DEF Covered
      <3>2. CASE g = f
        <4>1. /\ Len(content'[f]) = Len(content[f]) + 1
              /\ \A k \in DOMAIN content[f] : content'[f][k] = content[f][k]
              /\ ScannerTypes'
          BY <2>2, WriteFacts
        <4>2. content[f] \in Seq(Lines) /\ content'[f] \in Seq(Lines)' /\ Len(content[f]) \in Nat
          BY <4>1 DEF ScannerTypes
        <4>3. DOMAIN content[f] = 1 .. Len(content[f]) /\ DOMAIN content'[f] = 1 .. Len(content[f]) + 1
          BY <4>1, <4>2
        <4>4. ASSUME NEW p \in Nat, p <= Len(content[f]) PROVE Covered(f, p)' = Covered(f, p)
          <5>1. {k \in DOMAIN content'[f] : k <= p} = {k \in DOMAIN content[f] : k <= p}
            BY <4>2, <4>3, <4>4
          <5> QED
            BY <4>1, <5>1 DEF Covered
        <4> QED
          BY <3>0, <3>2, <4>1, <4>2, <4>4
      <3> QED
        BY <3>1, <3>2
    <2> QED
      BY <2>1, <2>2
  <1>5. ASSUME NEW g \in FileSet, g \notin rotated'
        PROVE  /\ g \notin rotated /\ pos[g] <= Len(content'[g]) /\ saved[g] <= Len(content'[g])
               /\ Covered(g, pos[g])' = Covered(g, pos[g]) /\ Covered(g, pos[g]) \subseteq Lines
               /\ Covered(g, saved[g])' = Covered(g, saved[g]) /\ Covered(g, saved[g]) \subseteq Lines
    <2>1. PICK p \in Nat, s \in Nat : p = pos[g] /\ s = saved[g]
      BY DEF ScannerTypes
    <2>2. g \notin rotated /\ p <= Len(content[g]) /\ s <= Len(content[g])
      BY <1>4, <1>5, <2>1 DEF Books, PositionsAreHandled
    <2>3. Len(content[g]) \in Nat /\ Len(content'[g]) \in Nat
      BY <1>a
    <2>4. Covered(g, p)' = Covered(g, p) /\ Covered(g, s)' = Covered(g, s) /\ Len(content[g]) <= Len(content'[g])
      BY <1>4, <1>5, <2>2
    <2>5. pos'[g] = p /\ saved'[g] = s
      BY <1>1, <2>1
    <2>6. Covered(g, pos[g])' = Covered(g, p)' /\ Covered(g, saved[g])' = Covered(g, s)'
      BY <2>5 DEF Covered
    <2> QED
      BY <2>1, <2>2, <2>3, <2>4, <2>6, CoveredType
  <1>6. PositionsAreHandled'
    BY <1>1, <1>3, <1>5 DEF Books, PositionsAreHandled
  <1>7. SavedIsHandled'
    <2>1. ASSUME NEW g \in FileSet, g \notin rotated', NEW i \in Covered(g, saved[g])'
          PROVE  i \in handled' \cup dropped' \/ Skipped(i)'
      <3>1. g \notin rotated /\ i \in Covered(g, saved[g]) /\ i \in Lines
        BY <1>5, <2>1
      <3>2. i \in handled \cup dropped \/ Skipped(i)
        BY <3>1 DEF Books, SavedIsHandled
      <3> QED
        BY <1>1, <1>3, <3>1, <3>2
    <2> QED
      BY <2>1 DEF SavedIsHandled
  <1> QED
    BY <1>6, <1>7 DEF Books

\* What a position moves over is found, handed over or stood for.
LEMMA ReadBooks ==
  ASSUME ScannerTypes, Hands, Books, SameLog, NEW f \in FileSet, Reads(f), Advance(f), saved' = saved,
         handled \subseteq handled', dropped \subseteq dropped',
         NEW S \in SUBSET Lines, Goes(S),
         \A i \in Unread(f) : i \in S \/ i \in handled' \/ Skipped(i)
  PROVE  Books'
  <1>1. /\ scan'.phase = "busy" /\ scan'.found = scan.found \cup S /\ scan'.line = scan.line
        /\ pos'[f] = Len(content[f]) /\ \A g \in FileSet \ {f} : pos'[g] = pos[g]
    BY GoesType
  <1>2. \A i \in Lines : Skipped(i) => Skipped(i)'
    BY SameLogTypes, SkippedStays DEF SameLog
  <1>3. \A g \in FileSet : Covered(g, saved[g])' = Covered(g, saved[g]) /\ Covered(g, saved[g]) \subseteq Lines
    BY CoveredType DEF Covered, SameLog
  <1>4. SavedIsHandled'
    <2>1. ASSUME NEW g \in FileSet \ rotated, NEW i \in Covered(g, saved[g])
          PROVE  i \in handled' \cup dropped' \/ Skipped(i)'
      BY <1>2, <1>3 DEF Books, SavedIsHandled
    <2>2. rotated' = rotated /\ \A g \in FileSet : Covered(g, saved[g])' = Covered(g, saved[g])
      BY <1>3 DEF SameLog
    <2>3. \A g \in FileSet \ rotated' :
             \A i \in Covered(g, saved[g])' : i \in handled' \cup dropped' \/ Skipped(i)'
      BY <2>1, <2>2
    <2> QED
      BY <2>3 DEF SavedIsHandled
  <1>5. ASSUME NEW g \in FileSet \ rotated
        PROVE  /\ pos'[g] <= Len(content[g])
               /\ \A i \in Covered(g, pos[g])' :
                     i \in handled' \cup dropped' \cup scan'.found \cup {scan'.line} \/ Skipped(i)'
    <2>0. content[g] \in Seq(Lines) /\ Len(content[g]) \in Nat /\ pos[g] \in Nat
      BY DEF ScannerTypes
    <2>1. \A i \in Covered(g, pos[g]) :
             i \in handled' \cup dropped' \cup scan'.found \cup {scan'.line} \/ Skipped(i)'
      <3>1. Covered(g, pos[g]) \subseteq Lines
        BY CoveredType
      <3> QED
        BY <1>1, <1>2, <3>1 DEF Books, PositionsAreHandled
    <2>2. CASE g # f
      <3>1. pos'[g] = pos[g] /\ Covered(g, pos[g])' = Covered(g, pos[g])
        BY <1>1, <2>2 DEF Covered, SameLog
      <3> QED
        BY <2>1, <3>1 DEF Books, PositionsAreHandled
    <2>3. CASE g = f
      <3>1. pos[f] <= Len(content[f]) /\ Start(f) = pos[f]
        BY <2>0, <2>3 DEF Books, PositionsAreHandled, Start
      <3>2. pos'[f] = Len(content[f]) /\ content' = content
        BY <1>1 DEF SameLog
      <3>3. ASSUME NEW i \in Covered(f, pos[f])' PROVE i \in Covered(f, pos[f]) \/ i \in Unread(f)
        <4>1. PICK k \in DOMAIN content[f] : i = content[f][k]
          BY <3>2 DEF Covered
        <4>2. k \in 1 .. Len(content[f])
          BY <2>0, <2>3
        <4>3. CASE k <= pos[f]
          BY <4>1, <4>3 DEF Covered
        <4>4. CASE k > pos[f]
          <5>1. k \in Start(f) + 1 .. Len(content[f])
            BY <2>0, <2>3, <3>1, <4>2, <4>4
          <5> QED
            BY <4>1, <5>1 DEF Unread, From
        <4> QED
          BY <2>0, <2>3, <4>2, <4>3, <4>4
      <3>4. Unread(f) \subseteq Lines
        BY UnreadType
      <3>5. \A i \in Unread(f) : i \in handled' \cup scan'.found \/ Skipped(i)'
        BY <1>1, <1>2, <3>4
      <3>6. pos'[g] <= Len(content[g])
        BY <2>0, <2>3, <3>2
      <3> QED
        BY <2>1, <2>3, <3>3, <3>5, <3>6
    <2> QED
      BY <2>2, <2>3
  <1>6. saved' = saved /\ content' = content /\ rotated' = rotated
    BY DEF SameLog
  <1>7. PositionsAreHandled'
    BY <1>1, <1>5, <1>6 DEF Books, PositionsAreHandled
  <1> QED
    BY <1>4, <1>7 DEF Books

\* A heartbeat that is not reported has another one of its kind that stands for it.
LEMMA OldHeartbeats ==
  ASSUME ScannerTypes, LinesAreOwn, StampsAreLines, NEW i \in Unread(Heartbeat), Heartbeat \in FileSet,
         i \notin NewHeartbeats(Unread(Heartbeat))
  PROVE  Skipped(i)
  <1>1. i \in Lines /\ log[i].file = Heartbeat /\ IsUnread(i)
    BY UnreadIsOwn
  <1>2. PICK e \in Errors, t \in Nat : e = log[i].key /\ t = log[i].at
    BY <1>1, LineType
  <1>3. CASE Notified(Unread(Heartbeat), i)
    <2>1. PICK j \in Unread(Heartbeat) : j < i /\ log[j].key = log[i].key /\ log[j].at >= log[i].at
      BY <1>3 DEF Notified
    <2>2. j \in Lines /\ log[j].file = Heartbeat
      BY UnreadIsOwn
    <2>3. j \in Int /\ i \in Int
      BY <1>1, <2>2, LineType
    <2> QED
      BY <1>1, <2>1, <2>2, <2>3 DEF Skipped
  <1>4. CASE ~ (stamps[e] < t)
    <2>1. stamps[e] \in Nat \cup {-1}
      BY DEF ScannerTypes
    <2>2. stamps[e] >= 0 /\ stamps[e] >= t
      BY <1>4, <2>1
    <2>3. PICK j \in Lines : /\ log[j] = [file |-> Heartbeat, key |-> e, at |-> stamps[e]]
                             /\ ~ IsUnread(j)
      BY <2>2 DEF StampsAreLines
    <2>4. log[j].file = Heartbeat /\ log[j].key = e /\ log[j].at = stamps[e] /\ j # i
      BY <1>1, <2>3
    <2> QED
      BY <1>1, <1>2, <2>2, <2>4 DEF Skipped
  <1> QED
    BY <1>2, <1>3, <1>4 DEF NewHeartbeats

\* The positions are written when the scan has nothing left in hand.
LEMMA SaveBooks ==
  ASSUME ScannerTypes, ScanIsTidy, Books, SavePositions
  PROVE  Books'
  <1>1. scan.found = {} /\ scan.line = NoLine /\ NoLine \notin Lines
    BY NoLineFact DEF SavePositions, Sends, ScanIsTidy
  <1>2. /\ pos' = pos /\ saved' = pos /\ handled' = handled /\ dropped' = dropped /\ scan' = NoScan
        /\ log' = log /\ content' = content /\ rotated' = rotated
    BY DEF SavePositions, world, history
  <1>3. \A i : Skipped(i)' <=> Skipped(i)
    BY <1>2 DEF Skipped, Lines
  <1>4. \A g \in FileSet : Covered(g, pos[g])' = Covered(g, pos[g]) /\ Covered(g, saved[g])' = Covered(g, pos[g])
    BY <1>2 DEF Covered
  <1>5. \A g \in FileSet \ rotated : \A i \in Covered(g, pos[g]) : i \in handled \cup dropped \/ Skipped(i)
    BY <1>1, CoveredType DEF Books, PositionsAreHandled
  <1>6. SavedIsHandled'
    <2>1. \A g \in FileSet \ rotated' :
             \A i \in Covered(g, saved[g])' : i \in handled' \cup dropped' \/ Skipped(i)'
      BY <1>2, <1>3, <1>4, <1>5
    <2> QED
      BY <2>1 DEF SavedIsHandled
  <1>7. PositionsAreHandled'
    <2>1. scan'.phase # "waiting"
      BY <1>2, NoScanType
    <2>2. ASSUME NEW g \in FileSet \ rotated'
          PROVE  /\ pos'[g] <= Len(content'[g]) /\ saved'[g] <= Len(content'[g])
                 /\ \A i \in Covered(g, pos[g])' : i \in handled' \cup dropped' \/ Skipped(i)'
      <3>1. pos[g] <= Len(content[g])
        BY <1>2, <2>2 DEF Books, PositionsAreHandled
      <3> QED
        BY <1>2, <1>3, <1>4, <1>5, <2>2, <3>1
    <2> QED
      BY <2>1, <2>2 DEF PositionsAreHandled
  <1> QED
    BY <1>6, <1>7 DEF Books

\* A new process reads on from the saved positions.
LEMMA RestartBooks ==
  ASSUME ScannerTypes, Books, Restart
  PROVE  Books'
  <1>2. /\ pos' = saved /\ saved' = saved /\ handled' = handled /\ dropped' = dropped /\ scan' = NoScan
        /\ log' = log /\ content' = content /\ rotated' = rotated
    BY DEF Restart
  <1>3. \A i : Skipped(i)' <=> Skipped(i)
    BY <1>2 DEF Skipped, Lines
  <1>4. \A g \in FileSet : /\ Covered(g, pos[g])' = Covered(g, saved[g])
                           /\ Covered(g, saved[g])' = Covered(g, saved[g])
    BY <1>2 DEF Covered
  <1>5. \A g \in FileSet \ rotated : \A i \in Covered(g, saved[g]) : i \in handled \cup dropped \/ Skipped(i)
    BY DEF Books, SavedIsHandled
  <1>6. SavedIsHandled'
    <2>1. \A g \in FileSet \ rotated' :
             \A i \in Covered(g, saved[g])' : i \in handled' \cup dropped' \/ Skipped(i)'
      BY <1>2, <1>3, <1>4, <1>5
    <2> QED
      BY <2>1 DEF SavedIsHandled
  <1>7. PositionsAreHandled'
    <2>1. scan'.phase # "waiting"
      BY <1>2, NoScanType
    <2>2. ASSUME NEW g \in FileSet \ rotated'
          PROVE  /\ pos'[g] <= Len(content'[g]) /\ saved'[g] <= Len(content'[g])
                 /\ \A i \in Covered(g, pos[g])' : i \in handled' \cup dropped' \/ Skipped(i)'
      <3>1. saved[g] <= Len(content[g])
        BY <1>2, <2>2 DEF Books, PositionsAreHandled
      <3> QED
        BY <1>2, <1>3, <1>4, <1>5, <2>2, <3>1
    <2> QED
      BY <2>1, <2>2 DEF PositionsAreHandled
  <1> QED
    BY <1>6, <1>7 DEF Books

\* What a scan reads is found, handed over or stood for.
LEMMA ReadsKeepBooks ==
  ASSUME ScannerTypes, LinesAreOwn, Hands, StampsAreLines, Books, SameLog, NEW f \in FileSet,
         ReadLog(f) \/ ReadHeartbeats(f) \/ ReadAudit(f)
  PROVE  Books'
  <1>0. /\ Unread(f) \subseteq Lines /\ Reads(f) /\ Advance(f) /\ saved' = saved
        /\ dropped' = dropped
    BY UnreadType DEF ReadLog, ReadHeartbeats, ReadAudit, history
  <1>1. CASE ReadLog(f)
    <2>1. Goes(Unread(f)) /\ handled' = handled
      BY <1>1 DEF ReadLog, history
    <2> QED
      BY <1>0, <2>1, ReadBooks
  <1>2. CASE ReadHeartbeats(f)
    <2>1. f = Heartbeat /\ Goes(NewHeartbeats(Unread(f))) /\ handled' = handled
      BY <1>2 DEF ReadHeartbeats, history
    <2>2. NewHeartbeats(Unread(f)) \subseteq Lines
      BY <1>0 DEF NewHeartbeats
    <2>3. \A i \in Unread(f) : i \in NewHeartbeats(Unread(f)) \/ Skipped(i)
      BY <2>1, OldHeartbeats
    <2> QED
      BY <1>0, <2>1, <2>2, <2>3, ReadBooks
  <1>3. CASE ReadAudit(f)
    <2>1. Goes({}) /\ handled' = handled \cup Unread(f)
      BY <1>3 DEF ReadAudit
    <2> QED
      BY <1>0, <2>1, ReadBooks
  <1> QED
    BY <1>1, <1>2, <1>3

\* All steps.
LEMMA BooksStep ==
  ASSUME ScannerTypes, LinesAreOwn, Hands, StampsAreLines, Books, [ScannerNext]_scannerVars
  PROVE  Books'
  <1>1. ASSUME NEW f \in FileSet, Rotate(f) \/ \E key \in Errors : Write(f, key) PROVE Books'
    BY <1>1, WriterBooks
  <1>2. CASE ~ \E f \in FileSet : Rotate(f) \/ \E key \in Errors : Write(f, key)
    <2>0. SameLog /\ NoLine \notin Lines /\ ScanIsTidy /\ (scan.phase = "waiting" => scan.line \in handled)
      BY <1>2, RestTypes, NoLineFact DEF Hands, Books, PositionsAreHandled
    <2>1. ASSUME NEW f \in FileSet, ReadLog(f) \/ ReadHeartbeats(f) \/ ReadAudit(f) PROVE Books'
      BY <2>0, <2>1, ReadsKeepBooks
    <2>2. CASE SavePositions
      BY <2>0, <2>2, SaveBooks
    <2>3. CASE Restart
      BY <2>3, RestartBooks
    <2>4. CASE StartScan
      <3>1. scan.found = {} /\ scan.line = NoLine
        BY <2>0, <2>4, NoScanType DEF StartScan, ScanIsTidy, NoScan
      <3>2. scan'.phase = "busy"
        BY <2>4 DEF StartScan, NoScan
      <3>3. pos' = pos /\ saved' = saved /\ handled' = handled /\ dropped' = dropped
        BY <2>4 DEF StartScan, history
      <3> QED
        BY <2>0, <3>1, <3>2, <3>3, BooksStay
    <2>5. CASE FallbackRaises
      <3>1. pos' = pos /\ saved' = saved /\ handled' = handled /\ dropped' = dropped \cup scan.found \cup {scan.line}
        BY <2>5 DEF FallbackRaises
      <3>2. scan'.phase # "waiting"
        BY <2>5, NoScanType DEF FallbackRaises
      <3> QED
        BY <2>0, <3>1, <3>2, BooksStay
    <2>6. ASSUME NEW i \in scan.found, Post(i) PROVE Books'
      <3>1. scan'.found = scan.found \ {i} /\ scan'.line = i /\ scan.phase = "busy"
        BY <2>6, TakesType DEF Post
      <3>2. scan.line = NoLine
        BY <2>0, <3>1 DEF ScanIsTidy
      <3>3. pos' = pos /\ saved' = saved /\ handled' = handled \cup {i} /\ dropped' = dropped
        BY <2>6 DEF Post
      <3> QED
        BY <2>0, <3>1, <3>2, <3>3, BooksStay
    <2>7. ASSUME NEW i \in Lines, GivesUp(i) PROVE Books'
      <3>0. pos' = pos /\ saved' = saved /\ handled' = handled /\ dropped' = dropped
        BY <2>7 DEF GivesUp
      <3>1. CASE scan.phase = "waiting" /\ scan.line = i /\ scan' = [scan EXCEPT !.phase = "fallback"]
        <4>1. scan'.phase = "fallback" /\ scan'.found = scan.found /\ scan'.line = scan.line
          BY <3>1 DEF ScannerTypes
        <4> QED
          BY <2>0, <3>0, <4>1, BooksStay
      <3>2. CASE Takes(i, "fallback")
        <4>1. scan'.found = scan.found \ {i} /\ scan'.line = i /\ scan.phase = "busy" /\ scan'.phase = "fallback"
          BY <3>2, TakesType
        <4>2. scan.line = NoLine
          BY <2>0, <4>1 DEF ScanIsTidy
        <4> QED
          BY <2>0, <3>0, <4>1, <4>2, BooksStay
      <3> QED
        BY <2>7, <3>1, <3>2 DEF GivesUp
    <2>20. ASSUME NEW i \in Lines, IsRefused(i) PROVE Books'
      <3>1. scan'.phase = "busy" /\ scan'.found = scan.found \ {i} /\ scan'.line = scan.line
        BY <2>20, RefusedType
      <3>2. pos' = pos /\ saved' = saved /\ handled' = handled /\ dropped' = dropped \cup {i}
        BY <2>20 DEF IsRefused
      <3> QED
        BY <2>0, <3>1, <3>2, BooksStay
    <2>8. CASE Fallback
      <3>1. scan'.phase = "busy" /\ scan'.found = scan.found
        BY <2>8, NextFindingType DEF Fallback
      <3>2. pos' = pos /\ saved' = saved /\ handled' = handled \cup {scan.line} /\ dropped' = dropped
        BY <2>8 DEF Fallback
      <3> QED
        BY <2>0, <3>1, <3>2, BooksStay
    <2>9. ASSUME NEW r \in requests, Skip(r) \/ Notify(r) PROVE Books'
      <3>1. Answer(r) /\ pos' = pos /\ saved' = saved /\ handled' = handled /\ dropped' = dropped
        BY <2>9 DEF Skip, Notify, history
      <3>2. /\ scan'.found = scan.found
            /\ \/ scan' = scan
               \/ scan.phase = "waiting" /\ scan'.phase = "busy"
        BY <3>1, AnswerType
      <3> QED
        BY <2>0, <3>1, <3>2, BooksStay
    <2>10. CASE (\E r \in requests : Remember(r)) \/ Tick \/ Toggle \/ UNCHANGED scannerVars
      <3>1. pos' = pos /\ saved' = saved /\ scan' = scan /\ handled' = handled /\ dropped' = dropped
        BY <2>10 DEF Remember, Tick, Toggle, scannerVars, history
      <3> QED
        BY <2>0, <3>1, BooksStay
    <2> QED
      BY <1>2, <2>1, <2>2, <2>3, <2>4, <2>5, <2>6, <2>7, <2>8, <2>9, <2>10, <2>20
         DEF ScannerNext, ScanStep, EndpointStep
  <1> QED
    BY <1>1, <1>2

\* Before the first line nothing is covered, in hand or told.
LEMMA ScannerInvInit == ScannerInit => ScannerInv
  <1> SUFFICES ASSUME ScannerInit PROVE ScannerInv
    OBVIOUS
  <1>1. ScannerTypes
    BY ScannerTypesInit
  <1>2. /\ log = <<>> /\ content = [f \in FileSet |-> <<>>] /\ pos = [f \in FileSet |-> 0] /\ saved = pos
        /\ scan = NoScan /\ requests = {} /\ stamps = [e \in Errors |-> -1]
        /\ told = [i \in 1 .. MaxLines |-> 0] /\ ringing = [a \in Alerts |-> 0]
    BY DEF ScannerInit
  <1>3. Lines = {} /\ \A f \in FileSet : content[f] = <<>> /\ DOMAIN content[f] = {} /\ Len(content[f]) = 0
    BY <1>2 DEF Lines
  <1>4. scan.phase = "idle" /\ scan.found = {} /\ scan.line = NoLine
    BY <1>2, NoScanType DEF NoScan
  <1>5. LinesAreOwn /\ ScanIsTidy /\ LinesAreReadOnce /\ TellsAreCounted
    BY <1>2, <1>3, <1>4 DEF LinesAreOwn, ScanIsTidy, LinesAreReadOnce, TellsAreCounted
  <1>6. StampsAreLines /\ RingsAreRemembered /\ OneRingPerWindow
    BY <1>2 DEF StampsAreLines, RingsAreRemembered, OneRingPerWindow
  <1>7. \A f \in FileSet : \A p : Covered(f, p) = {}
    BY <1>3 DEF Covered
  <1>8. PositionsAreHandled /\ SavedIsHandled
    BY <1>2, <1>3, <1>4, <1>7 DEF PositionsAreHandled, SavedIsHandled
  <1> QED
    BY <1>1, <1>5, <1>6, <1>8 DEF ScannerInv

\* The invariant of the scanner is inductive: what is in hand has been read and is counted, a
\* stamp is that of a line, and the positions cover what is handed over or in hand.
LEMMA ScannerInvStep == ScannerInv /\ [ScannerNext]_scannerVars => ScannerInv'
  <1> SUFFICES ASSUME ScannerInv, [ScannerNext]_scannerVars PROVE ScannerInv'
    OBVIOUS
  <1>0. ScannerTypes /\ LinesAreOwn /\ ScanIsTidy /\ Hands /\ StampsAreLines /\ Books
    BY DEF ScannerInv, Hands, Books
  <1>1. ScannerTypes'
    <2>1. ASSUME NEW f \in FileSet, Rotate(f) \/ \E key \in Errors : Write(f, key) PROVE ScannerTypes'
      BY <1>0, <2>1, WriteFacts, RotateFacts
    <2> QED
      BY <1>0, <2>1, RestTypes
  <1>2. LinesAreOwn'
    BY <1>0, OwnStep
  <1>3. Hands' /\ StampsAreLines' /\ Books'
    BY <1>0, HandsStep, StampsStep, BooksStep
  <1>4. RingsAreRemembered' /\ OneRingPerWindow'
    BY <1>0, RingsStep DEF ScannerInv
  <1> QED
    BY <1>1, <1>2, <1>3, <1>4 DEF ScannerInv, Hands, Books

\* The invariant of the scanner holds in every reachable state.
THEOREM ScannerInvariance == ScannerSpec => []ScannerInv
  BY ScannerInvInit, ScannerInvStep, PTL DEF ScannerSpec

\* What the file of positions calls scanned has been handed over, dropped with a broken scan, or
\* is a heartbeat that another one stands for: a restart between the scan and its alerts loses
\* nothing (_do_scan writes the positions after the last alert).
THEOREM RestartsLoseNothing == ScannerSpec => []SavedIsHandled
  <1>1. ScannerInv => SavedIsHandled
    BY DEF ScannerInv
  <1> QED
    BY <1>1, ScannerInvariance, PTL

\* A line is told once, and once more for every call that did not answer and every restart.
THEOREM TellsHaveCause == ScannerSpec => []ToldAgainForACause
  <1>1. ScannerInv => ToldAgainForACause
    <2> SUFFICES ASSUME ScannerInv, NEW i \in Lines
                 PROVE  told[i] <= 1 + again[i] + restarts
      BY DEF ToldAgainForACause
    <2>1. told[i] \in Nat /\ again[i] \in Nat /\ restarts \in Nat
      BY CountTypes DEF ScannerInv
    <2>2. told[i] + (IF MayBeTold(i) THEN 1 ELSE 0) + (IF IsPosted(i) THEN 1 ELSE 0) <= 1 + again[i] + restarts
      BY DEF ScannerInv, TellsAreCounted
    <2> QED
      BY <2>1, <2>2
  <1> QED
    BY <1>1, ScannerInvariance, PTL

\* An alert rings once per window of the endpoint, whatever calls overlap.
THEOREM RingsOncePerWindow == ScannerSpec => []OneRingPerWindow
  <1>1. ScannerInv => OneRingPerWindow
    BY DEF ScannerInv
  <1> QED
    BY <1>1, ScannerInvariance, PTL
=============================================================================
