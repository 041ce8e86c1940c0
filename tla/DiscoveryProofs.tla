--------------------------- MODULE DiscoveryProofs ---------------------------
(***************************************************************************)
(* Proofs about Discovery, for every set of products and paths, and any    *)
(* number of discoveries, confirmations and upsets.                        *)
(***************************************************************************)
EXTENDS Discovery, FiniteSetTheorems, TLAPS

-----------------------------------------------------------------------------
(* The states of the threads *)

\* Two states of a run that differ in doubt and stops at most.
Alike(g, h) == /\ g.step = h.step /\ g.todo = h.todo /\ g.begun = h.begun
               /\ g.base = h.base /\ g.plan = h.plan

\* A doubt changes nothing else of a run.
LEMMA AlikeFacts ==
  ASSUME NEW h \in RunStates, NEW d \in SUBSET Products, NEW g, g = [h EXCEPT !.doubt = d]
  PROVE  g \in RunStates /\ Alike(g, h) /\ g.doubt = d /\ g.stops = h.stops
  BY DEF RunStates, Alike

\* Nor does a request to stop.
LEMMA StopFacts ==
  ASSUME NEW h \in RunStates, NEW b \in BOOLEAN, NEW g, g = [h EXCEPT !.stops = b]
  PROVE  g \in RunStates /\ Alike(g, h) /\ g.doubt = h.doubt
  BY DEF RunStates, Alike

\* A request to stop can be withdrawn.
LEMMA NoStop ==
  ASSUME NEW h \in RunStates, NEW g, g = [h EXCEPT !.stops = FALSE]
  PROVE  ~ g.stops
  BY DEF RunStates

\* A run goes to another step.
LEMMA StepFacts ==
  ASSUME NEW h \in RunStates,
         NEW w \in {"new", "scan", "work", "publish", "save", "done",
                    "unsaved", "cancelled", "failed", "gone"},
         NEW g, g = [h EXCEPT !.step = w]
  PROVE  /\ g \in RunStates /\ g.step = w /\ g.todo = h.todo /\ g.begun = h.begun
         /\ g.base = h.base /\ g.plan = h.plan /\ g.doubt = h.doubt /\ g.stops = h.stops
  BY DEF RunStates

\* The empty plan is a plan.
LEMMA NoPlanFacts == NoPlan \in Plans
  <1>1. Nowhere \in 0..2
    BY DEF Nowhere
  <1> QED
    BY <1>1 DEF NoPlan, Plans, PathSets

\* A run that has not begun.
LEMMA NewFacts ==
  /\ NewRun \in RunStates /\ NewRun.step = "new" /\ NewRun.todo = {} /\ NewRun.begun = {}
  /\ NewRun.doubt = {} /\ ~ NewRun.stops
  <1>1. [p \in Products |-> {}] \in [Products -> PathSets]
    BY DEF PathSets
  <1> DEFINE base == [p \in Products |-> {}]
  <1> HIDE DEF base
  <1>2. base \in [Products -> PathSets]
    BY <1>1 DEF base
  <1>3. NewRun = [step |-> "new", todo |-> {}, begun |-> {}, base |-> base,
                  plan |-> NoPlan, doubt |-> {}, stops |-> FALSE]
    BY DEF NewRun, base
  <1> QED
    BY <1>2, <1>3, NoPlanFacts DEF RunStates

\* A run that has ended.
LEMMA EndedFacts ==
  ASSUME NEW how \in {"cancelled", "failed", "gone"}
  PROVE  /\ Ended(how) \in RunStates /\ Ended(how).step = how
         /\ Ended(how).todo = {} /\ Ended(how).begun = {} /\ Ended(how).doubt = {}
         /\ ~ Ended(how).stops
  <1> DEFINE new == NewRun
  <1>1. /\ new \in RunStates /\ new.todo = {} /\ new.begun = {} /\ new.doubt = {} /\ ~ new.stops
    BY NewFacts
  <1> HIDE DEF new
  <1>2. Ended(how) = [new EXCEPT !.step = how]
    BY DEF Ended, new
  <1> QED
    BY <1>1, <1>2, StepFacts

\* A confirmation and a job that have not begun.
LEMMA IdleFacts ==
  /\ NewConfirm \in ConfirmStates /\ NewConfirm.step = "new"
  /\ NoJob \in JobStates /\ NoJob.step = "none"
  <1>1. 0 \in 0..MaxRuns
    BY DiscoveryAssumption
  <1>2. NewConfirm \in ConfirmStates /\ NewConfirm.step = "new"
    BY <1>1 DEF NewConfirm, ConfirmStates, PathSets
  <1>3. NoJob \in JobStates /\ NoJob.step = "none"
    BY DEF NoJob, JobStates, PathSets
  <1> QED
    BY <1>2, <1>3

\* What everybody knows about the tables.
LEMMA Typed ==
  ASSUME TypeOK
  PROVE  /\ \A p \in Products : /\ row[p] \in Rows /\ row[p].url \in 0..2
                                /\ row[p].paths \in PathSets /\ row[p].id \in Nat
                                /\ vendor[p] \in [url : 0..2, paths : PathSets]
                                /\ vendor[p].url \in 0..2 /\ vendor[p].paths \in PathSets
                                /\ Shown(p) \in PathSets
         /\ \A r \in Runs : /\ run[r] \in RunStates /\ run[r].begun \subseteq run[r].todo
                            /\ run[r].todo # {} => run[r].step = "work"
                            /\ run[r].doubt \in SUBSET Products /\ run[r].todo \in SUBSET Products
                            /\ run[r].plan \in Plans /\ run[r].base \in [Products -> PathSets]
                            /\ run[r].stops \in BOOLEAN
         /\ \A c \in Confirms : confirm[c] \in ConfirmStates
         /\ \A k \in Jobs : job[k] \in JobStates
  <1>1. \A p \in Products : row[p] \in Rows /\ vendor[p] \in [url : 0..2, paths : PathSets]
    BY DEF TypeOK
  <1>2. \A p \in Products : /\ row[p].url \in 0..2 /\ row[p].paths \in PathSets /\ row[p].id \in Nat
                            /\ vendor[p].url \in 0..2 /\ vendor[p].paths \in PathSets
    BY <1>1 DEF Rows
  <1>3. \A p \in Products : Shown(p) \in PathSets
    BY <1>2 DEF Shown, PathSets
  <1>4. \A r \in Runs : /\ run[r] \in RunStates /\ run[r].begun \subseteq run[r].todo
                        /\ run[r].todo # {} => run[r].step = "work"
    BY DEF TypeOK
  <1>5. \A r \in Runs : /\ run[r].doubt \in SUBSET Products /\ run[r].todo \in SUBSET Products
                        /\ run[r].plan \in Plans /\ run[r].base \in [Products -> PathSets]
                        /\ run[r].stops \in BOOLEAN
    BY <1>4 DEF RunStates
  <1>6. (\A c \in Confirms : confirm[c] \in ConfirmStates) /\ (\A k \in Jobs : job[k] \in JobStates)
    BY DEF TypeOK
  <1> QED
    BY <1>1, <1>2, <1>3, <1>4, <1>5, <1>6

\* Upsets are bounded.
LEMMA UpsetFacts ==
  ASSUME TypeOK, Upset \/ UNCHANGED upsets
  PROVE  upsets' \in 0..MaxUpsets
  <1>1. upsets' = upsets \/ (upsets < MaxUpsets /\ upsets' = upsets + 1)
    BY DEF Upset
  <1>2. upsets \in 0..MaxUpsets /\ MaxUpsets \in Nat
    BY DiscoveryAssumption DEF TypeOK
  <1> QED
    BY <1>1, <1>2

\* Whoever has read about p is in doubt.
LEMMA DoubtFacts ==
  ASSUME TypeOK, NEW p, run' = DoubtfulRuns(p), p \in Products
  PROVE  /\ run' \in [Runs -> RunStates]
         /\ \A r \in Runs : /\ Alike(run'[r], run[r]) /\ run'[r].stops = run[r].stops
                            /\ run[r].doubt \subseteq run'[r].doubt
                            /\ run'[r].doubt \subseteq run[r].doubt \cup {p}
                            /\ Read(r, p) => p \in run'[r].doubt
  <1>1. \A r \in Runs : /\ run[r] \in RunStates /\ run[r].doubt \cup {p} \in SUBSET Products
    BY Typed
  <1>2. \A r \in Runs : run'[r] = IF Read(r, p) THEN [run[r] EXCEPT !.doubt = run[r].doubt \cup {p}]
                                  ELSE run[r]
    <2>1. \A r \in Runs : [run[r] EXCEPT !.doubt = @ \cup {p}]
                            = [run[r] EXCEPT !.doubt = run[r].doubt \cup {p}]
      BY <1>1 DEF RunStates
    <2> QED
      BY <2>1 DEF DoubtfulRuns
  <1>3. ASSUME NEW r \in Runs
        PROVE  /\ run'[r] \in RunStates
               /\ Alike(run'[r], run[r]) /\ run'[r].stops = run[r].stops
               /\ run[r].doubt \subseteq run'[r].doubt
               /\ run'[r].doubt \subseteq run[r].doubt \cup {p}
               /\ Read(r, p) => p \in run'[r].doubt
    <2>1. CASE ~ Read(r, p)
      BY <1>1, <1>2, <2>1 DEF Alike
    <2>2. CASE Read(r, p)
      <3> DEFINE d == run[r].doubt \cup {p}
                 h == run[r]
      <3>1. run'[r] = [h EXCEPT !.doubt = d] /\ h \in RunStates /\ d \in SUBSET Products
        BY <1>1, <1>2, <2>2
      <3> HIDE DEF d, h
      <3>2. run'[r] \in RunStates /\ Alike(run'[r], h) /\ run'[r].doubt = d
        BY <3>1, AlikeFacts
      <3>3. run'[r].stops = h.stops
        BY <3>1, AlikeFacts
      <3>4. run[r].doubt \subseteq run'[r].doubt /\ p \in run'[r].doubt
        BY <3>2 DEF d
      <3> QED
        BY <3>2, <3>3, <3>4 DEF h, d
    <2> QED
      BY <2>1, <2>2
  <1>4. run' \in [Runs -> RunStates]
    <2>1. DOMAIN run' = Runs /\ run' = [r \in Runs |-> run'[r]]
      BY DEF DoubtfulRuns
    <2> QED
      BY <1>3, <2>1
  <1> QED
    BY <1>3, <1>4

\* A product put in doubt for the jobs.
LEMMA DoubtfulJobFacts ==
  ASSUME TypeOK, NEW p
  PROVE  /\ DoubtfulJobs(p) \in [Jobs -> JobStates]
         /\ \A k \in Jobs :
               LET g == DoubtfulJobs(p)[k]
               IN  /\ g.step = job[k].step /\ g.product = job[k].product /\ g.id = job[k].id
                   /\ g.old = job[k].old /\ g.got = job[k].got
                   /\ ~ g.doubt => ~ job[k].doubt /\ job[k].product # p
  <1>1. \A k \in Jobs : job[k] \in JobStates
    BY Typed
  <1>2. \A k \in Jobs : DoubtfulJobs(p)[k] = IF job[k].product = p THEN [job[k] EXCEPT !.doubt = TRUE]
                                             ELSE job[k]
    BY DEF DoubtfulJobs
  <1>3. ASSUME NEW k \in Jobs, NEW g, g = [job[k] EXCEPT !.doubt = TRUE]
        PROVE  /\ g \in JobStates /\ g.step = job[k].step /\ g.product = job[k].product
               /\ g.id = job[k].id /\ g.old = job[k].old /\ g.got = job[k].got /\ g.doubt
    BY <1>1, <1>3 DEF JobStates
  <1>4. ASSUME NEW k \in Jobs
        PROVE  LET g == DoubtfulJobs(p)[k]
               IN  /\ g \in JobStates
                   /\ g.step = job[k].step /\ g.product = job[k].product /\ g.id = job[k].id
                   /\ g.old = job[k].old /\ g.got = job[k].got
                   /\ ~ g.doubt => ~ job[k].doubt /\ job[k].product # p
    <2>1. PICK g : g = DoubtfulJobs(p)[k]
      OBVIOUS
    <2>2. CASE job[k].product = p
      <3>1. g = [job[k] EXCEPT !.doubt = TRUE]
        BY <1>2, <2>1, <2>2
      <3> QED
        BY <1>3, <2>1, <3>1
    <2>3. CASE job[k].product # p
      <3>1. g = job[k]
        BY <1>2, <2>1, <2>3
      <3> QED
        BY <1>1, <2>1, <2>3, <3>1
    <2> QED
      BY <2>2, <2>3
  <1>5. DoubtfulJobs(p) \in [Jobs -> JobStates]
    <2>1. DoubtfulJobs(p) = [k \in Jobs |-> DoubtfulJobs(p)[k]]
      BY DEF DoubtfulJobs
    <2> QED
      BY <1>4, <2>1
  <1> QED
    BY <1>4, <1>5

-----------------------------------------------------------------------------
(* The steps of a discovery *)

\* What the comparison returns is a plan.
LEMMA ComparedFacts ==
  ASSUME TypeOK
  PROVE  /\ Both \in SUBSET Products /\ Compared \in Plans
         /\ \A p \in Products : p \notin Both =>
               Compared.added[p] = vendor[p].url /\ Compared.removed[p] = row[p].url
         /\ \A p \in Both : Compared.removed[p] = Nowhere
  <1>1. \A p \in Products : row[p].url \in 0..2 /\ vendor[p].url \in 0..2 /\ Nowhere \in 0..2
    BY Typed DEF Nowhere
  <1> DEFINE at == [p \in Products |-> IF p \in Both THEN row[p].url ELSE Nowhere]
             added == [p \in Products |-> IF p \in Both THEN Nowhere ELSE vendor[p].url]
             removed == [p \in Products |-> IF p \in Both THEN Nowhere ELSE row[p].url]
  <1>2. at \in [Products -> 0..2] /\ added \in [Products -> 0..2] /\ removed \in [Products -> 0..2]
    BY <1>1
  <1>3. /\ \A p \in Products : p \notin Both => added[p] = vendor[p].url /\ removed[p] = row[p].url
        /\ \A p \in Both : removed[p] = Nowhere
    BY DEF Both
  <1>4. Compared = [NoPlan EXCEPT !.at = at, !.added = added, !.removed = removed]
    BY DEF Compared
  <1> HIDE DEF at, added, removed
  <1>5. Compared \in Plans /\ Compared.added = added /\ Compared.removed = removed
    BY <1>2, <1>4, NoPlanFacts DEF Plans
  <1>6. Both \in SUBSET Products
    BY DEF Both
  <1> QED
    BY <1>3, <1>5, <1>6

\* A discovery starts without a result.
LEMMA StartedFacts ==
  [NoState EXCEPT !.active = TRUE].result = 0
  BY DEF NoState

\* The discovery state but for its list of the products at work.
SameState == /\ state' \in [active : BOOLEAN, result : 0..MaxRuns, cancel : BOOLEAN, workers : BOOLEAN]
             /\ state'.active <=> state.active
             /\ state'.result = state.result
             /\ state'.cancel <=> state.cancel

\* A state that stays is the same,
LEMMA StateStays ==
  ASSUME TypeOK, state' = state
  PROVE  SameState
  BY DEF TypeOK, SameState

\* and so is one that gets its list.
LEMMA ListOnly ==
  ASSUME TypeOK, state' = [state EXCEPT !.workers = TRUE]
  PROVE  SameState
  <1>1. state \in [active : BOOLEAN, result : 0..MaxRuns, cancel : BOOLEAN, workers : BOOLEAN]
    BY DEF TypeOK
  <1>2. state' \in [active : BOOLEAN, result : 0..MaxRuns, cancel : BOOLEAN, workers : BOOLEAN]
    BY <1>1
  <1>3. state'.result = state.result
    BY <1>1
  <1>4. state'.active = state.active
    BY <1>1
  <1>5. state'.cancel = state.cancel
    BY <1>1
  <1> QED
    BY <1>2, <1>3, <1>4, <1>5 DEF SameState

\* What the scan of the index does to a run.
LEMMA ScanFacts ==
  ASSUME TypeOK, NEW r \in Runs, Scan(r)
  PROVE  /\ run[r].step = "scan" /\ run' \in [Runs -> RunStates]
         /\ \A q \in Runs \ {r} : run'[q] = run[q]
         /\ run'[r].step = IF Listed = {} THEN "publish" ELSE "work"
         /\ run'[r].todo = Both /\ run'[r].begun = {} /\ run'[r].plan = Compared
         /\ run'[r].doubt = run[r].doubt
         /\ run'[r].stops => run[r].stops /\ Listed # {}
         /\ SameState /\ sure' = {}
         /\ UNCHANGED <<vendor, row, pending, applying, confirm, job, closed, swept, masked, upsets>>
  <1> DEFINE w == IF Listed = {} THEN "publish" ELSE "work"
             b == run[r].stops /\ Listed # {}
             g == [run[r] EXCEPT !.step = w, !.todo = Both, !.stops = b, !.plan = Compared]
  <1>1. /\ run[r].step = "scan" /\ run' = [run EXCEPT ![r] = g] /\ sure' = {}
        /\ state' = [state EXCEPT !.workers = TRUE]
        /\ UNCHANGED <<vendor, row, pending, applying, confirm, job, closed, swept, masked, upsets>>
    BY DEF Scan
  <1>11. SameState
    BY <1>1, ListOnly
  <1>2. run[r] \in RunStates /\ run[r].begun = {} /\ run \in [Runs -> RunStates]
    BY <1>1, Typed DEF TypeOK
  <1>3. Both \in SUBSET Products /\ Compared \in Plans
    BY ComparedFacts
  <1>4. b \in BOOLEAN /\ w \in {"publish", "work"}
    OBVIOUS
  <1>5. b => run[r].stops /\ Listed # {}
    OBVIOUS
  <1> HIDE DEF b, w
  <1>6. g \in RunStates
    BY <1>2, <1>3, <1>4 DEF RunStates
  <1>7. /\ g.step = w /\ g.todo = Both /\ g.begun = run[r].begun /\ g.plan = Compared
        /\ g.doubt = run[r].doubt
    BY <1>2 DEF RunStates
  <1>8. g.stops = b
    BY <1>2 DEF RunStates
  <1> HIDE DEF g
  <1>9. /\ run' \in [Runs -> RunStates] /\ \A q \in Runs \ {r} : run'[q] = run[q]
        /\ run'[r] = g
    BY <1>1, <1>2, <1>6
  <1>10. run'[r].stops => run[r].stops /\ Listed # {}
    BY <1>5, <1>8, <1>9
  <1> QED
    BY <1>1, <1>2, <1>7, <1>9, <1>10, <1>11 DEF w

\* A worker takes a product.
LEMMA BeginFacts ==
  ASSUME TypeOK, NEW r \in Runs, NEW p \in Products, Begin(r, p)
  PROVE  /\ run[r].step = "work" /\ run' \in [Runs -> RunStates]
         /\ \A q \in Runs \ {r} : run'[q] = run[q]
         /\ p \in run[r].todo /\ run'[r].begun = run[r].begun \cup {p}
         /\ run'[r].base[p] = row[p].paths
         /\ \A x \in Products \ {p} : run'[r].base[x] = run[r].base[x]
         /\ run'[r].step = run[r].step /\ run'[r].todo = run[r].todo /\ run'[r].plan = run[r].plan
         /\ run'[r].doubt = run[r].doubt /\ run'[r].stops = run[r].stops
         /\ UNCHANGED <<vendor, row, state, pending, applying, confirm, job, closed, swept, masked, upsets>>
         /\ sure' = {}
  <1> DEFINE h == run[r]
             begun == h.begun \cup {p}
             base == [h.base EXCEPT ![p] = row[p].paths]
             g == [h EXCEPT !.begun = begun, !.base = base]
  <1>1. /\ h \in RunStates /\ h.base \in [Products -> PathSets] /\ row[p].paths \in PathSets
        /\ h.begun \subseteq h.todo /\ h.todo \in SUBSET Products /\ run \in [Runs -> RunStates]
    BY Typed DEF TypeOK
  <1>2. /\ h.step = "work" /\ p \in h.todo /\ run' = [run EXCEPT ![r] = g] /\ sure' = {}
        /\ UNCHANGED <<vendor, row, state, pending, applying, confirm, job, closed, swept, masked, upsets>>
    BY <1>1 DEF Begin, RunStates
  <1>3. /\ base \in [Products -> PathSets] /\ base[p] = row[p].paths
        /\ \A x \in Products \ {p} : base[x] = h.base[x]
        /\ begun \in SUBSET Products
    BY <1>1, <1>2
  <1> HIDE DEF base, begun
  <1>4. /\ g \in RunStates /\ g.begun = begun /\ g.base = base /\ g.step = h.step /\ g.todo = h.todo
        /\ g.plan = h.plan /\ g.doubt = h.doubt
    BY <1>1, <1>3 DEF RunStates
  <1>5. g.stops = h.stops
    BY <1>1 DEF RunStates
  <1> HIDE DEF g, h
  <1>6. run' \in [Runs -> RunStates] /\ (\A q \in Runs \ {r} : run'[q] = run[q]) /\ run'[r] = g
    BY <1>1, <1>2, <1>4
  <1> QED
    BY <1>2, <1>3, <1>4, <1>5, <1>6 DEF h, begun

\* What an answer makes of a run.
AnswerIs(r, p, got, g) ==
    /\ g \in RunStates
    /\ g.todo = run[r].todo \ {p} /\ g.begun = run[r].begun \ {p}
    /\ g.step = IF run[r].todo \ {p} = {} THEN "publish" ELSE "work"
    /\ \A x \in Products \ {p} : /\ g.base[x] = run[r].base[x]
                                 /\ g.plan.add[x] = run[r].plan.add[x]
                                 /\ g.plan.del[x] = run[r].plan.del[x]
    /\ g.plan.add[p] = got \ run[r].base[p] /\ g.plan.del[p] = run[r].base[p] \ got
    /\ g.plan.added = run[r].plan.added /\ g.plan.removed = run[r].plan.removed
    /\ g.doubt = IF got = Shown(p) THEN run[r].doubt ELSE run[r].doubt \cup {p}
    /\ g.stops = run[r].stops

\* A worker returns with the types of a product.
LEMMA AnsweredFacts ==
  ASSUME TypeOK, NEW r \in Runs, NEW p \in Products, NEW got \in PathSets,
         run[r].step = "work", p \in run[r].begun,
         NEW g, g = Answered(r, p, got)
  PROVE  AnswerIs(r, p, got, g)
  <1> DEFINE h == run[r]
             todo == h.todo \ {p}
             begun == h.begun \ {p}
             step == IF todo = {} THEN "publish" ELSE "work"
             base == [h.base EXCEPT ![p] = {}]
             plan == [h.plan EXCEPT !.add[p] = Additions(h.base[p], got),
                                    !.del[p] = Deletions(h.base[p], got)]
             doubt == IF got = Shown(p) THEN h.doubt ELSE h.doubt \cup {p}
  <1>1. /\ h \in RunStates /\ h.base \in [Products -> PathSets] /\ h.plan \in Plans
        /\ h.begun \subseteq h.todo /\ h.todo \in SUBSET Products /\ h.doubt \in SUBSET Products
    BY Typed
  <1>2. g = [h EXCEPT !.todo = todo, !.begun = begun, !.base = base, !.step = step,
                      !.plan = plan, !.doubt = doubt]
    BY <1>1 DEF Answered, RunStates
  <1>3. /\ base \in [Products -> PathSets] /\ \A x \in Products \ {p} : base[x] = h.base[x]
        /\ todo \in SUBSET Products /\ begun \in SUBSET Products /\ doubt \in SUBSET Products
        /\ step \in {"publish", "work"}
    BY <1>1 DEF PathSets
  <1>4. /\ plan \in Plans /\ plan.added = h.plan.added /\ plan.removed = h.plan.removed
        /\ plan.add[p] = got \ h.base[p] /\ plan.del[p] = h.base[p] \ got
        /\ \A x \in Products \ {p} : plan.add[x] = h.plan.add[x] /\ plan.del[x] = h.plan.del[x]
    <2> DEFINE more == [h.plan.add EXCEPT ![p] = Additions(h.base[p], got)]
               less == [h.plan.del EXCEPT ![p] = Deletions(h.base[p], got)]
    <2>1. h.base[p] \in PathSets
      BY <1>1
    <2>2. /\ Additions(h.base[p], got) = got \ h.base[p] /\ Deletions(h.base[p], got) = h.base[p] \ got
          /\ Additions(h.base[p], got) \in PathSets /\ Deletions(h.base[p], got) \in PathSets
      BY <2>1 DEF Additions, Deletions, PathSets
    <2>3. h.plan.add \in [Products -> PathSets] /\ h.plan.del \in [Products -> PathSets]
      BY <1>1 DEF Plans
    <2>4. /\ more \in [Products -> PathSets] /\ less \in [Products -> PathSets]
          /\ more[p] = got \ h.base[p] /\ less[p] = h.base[p] \ got
          /\ \A x \in Products \ {p} : more[x] = h.plan.add[x] /\ less[x] = h.plan.del[x]
      BY <2>2, <2>3
    <2>5. plan = [h.plan EXCEPT !.add = more, !.del = less]
      BY <1>1 DEF Plans
    <2> HIDE DEF more, less
    <2>6. /\ plan \in Plans /\ plan.add = more /\ plan.del = less
          /\ plan.added = h.plan.added /\ plan.removed = h.plan.removed
      BY <1>1, <2>4, <2>5 DEF Plans
    <2> QED
      BY <2>4, <2>6
  <1> HIDE DEF todo, begun, step, base, plan, doubt
  <1>5. /\ g \in RunStates /\ g.todo = todo /\ g.begun = begun /\ g.base = base /\ g.step = step
        /\ g.plan = plan /\ g.doubt = doubt
    <2>1. h \in RunStates /\ plan \in Plans
      BY <1>1, <1>4
    <2>2. g \in RunStates
      BY <1>2, <1>3, <2>1 DEF RunStates
    <2>3. /\ g.todo = todo /\ g.begun = begun /\ g.base = base /\ g.step = step
          /\ g.plan = plan /\ g.doubt = doubt
      BY <1>2, <2>1 DEF RunStates
    <2> QED
      BY <2>2, <2>3
  <1>6. g.stops = h.stops
    BY <1>1, <1>2 DEF RunStates
  <1> QED
    BY <1>3, <1>4, <1>5, <1>6 DEF AnswerIs, todo, begun, step, doubt

\* A run that enters another state.
LEMMA OneRun ==
  ASSUME TypeOK, NEW r \in Runs, NEW g \in RunStates, run' = [run EXCEPT ![r] = g]
  PROVE  /\ run' \in [Runs -> RunStates] /\ run'[r] = g
         /\ \A q \in Runs \ {r} : run'[q] = run[q]
  BY DEF TypeOK

\* A discovery starts.
LEMMA StartFacts ==
  ASSUME TypeOK, StopsAreSeen, NEW r \in Runs, StartDiscover(r)
  PROVE  /\ run' \in [Runs -> RunStates] /\ run[r].step = "new" /\ run'[r].step = "scan"
         /\ run'[r].todo = {} /\ run'[r].begun = {}
         /\ \A q \in Runs \ {r} : Alike(run'[q], run[q]) /\ run'[q].doubt = run[q].doubt
         /\ \A q \in Runs : ~ run'[q].stops
  <1>1. /\ run[r].step = "new" /\ \A q \in Runs : run[q] \in RunStates
        /\ run[r].todo = {} /\ run[r].begun = {}
    BY Typed DEF StartDiscover
  <1>2. ~ run[r].stops
    BY <1>1 DEF StopsAreSeen
  <1>3. /\ DOMAIN run' = Runs /\ run' = [q \in Runs |-> run'[q]]
        /\ run'[r] = [run[r] EXCEPT !.step = "scan"]
        /\ \A q \in Runs \ {r} : run'[q] = [run[q] EXCEPT !.stops = FALSE]
    BY DEF StartDiscover
  <1>4. /\ run'[r] \in RunStates /\ run'[r].step = "scan" /\ run'[r].todo = run[r].todo
        /\ run'[r].begun = run[r].begun
    BY <1>1, <1>3, StepFacts
  <1>5. run'[r].stops = run[r].stops
    BY <1>1, <1>3, StepFacts
  <1>6. ASSUME NEW q \in Runs \ {r}
        PROVE  run'[q] \in RunStates /\ Alike(run'[q], run[q]) /\ run'[q].doubt = run[q].doubt
    <2>1. run'[q] = [run[q] EXCEPT !.stops = FALSE] /\ run[q] \in RunStates
      BY <1>1, <1>3
    <2>2. FALSE \in BOOLEAN
      OBVIOUS
    <2> QED
      BY <2>1, <2>2, StopFacts
  <1>9. \A q \in Runs \ {r} : ~ run'[q].stops
    BY <1>1, <1>3, NoStop
  <1>7. run' \in [Runs -> RunStates]
    BY <1>3, <1>4, <1>6
  <1>8. \A q \in Runs : ~ run'[q].stops
    BY <1>2, <1>5, <1>9
  <1> QED
    BY <1>1, <1>4, <1>6, <1>7, <1>8

\* Publishing and saving: the step, and nothing else.
LEMMA NextStepFacts ==
  ASSUME TypeOK, NEW r \in Runs, NEW w \in {"save", "done", "publish", "unsaved"},
         run' = [run EXCEPT ![r].step = w]
  PROVE  /\ run' \in [Runs -> RunStates] /\ run'[r].step = w
         /\ \A q \in Runs \ {r} : run'[q] = run[q]
         /\ run'[r].todo = run[r].todo /\ run'[r].begun = run[r].begun
         /\ run'[r].base = run[r].base /\ run'[r].plan = run[r].plan
         /\ run'[r].doubt = run[r].doubt /\ run'[r].stops = run[r].stops
  <1> DEFINE h == run[r]
             g == [h EXCEPT !.step = w]
  <1>1. run' = [run EXCEPT ![r] = g] /\ h \in RunStates
    BY Typed
  <1>2. /\ g \in RunStates /\ g.step = w /\ g.todo = h.todo /\ g.begun = h.begun
        /\ g.base = h.base /\ g.plan = h.plan /\ g.doubt = h.doubt
    BY <1>1, StepFacts
  <1>3. g.stops = h.stops
    BY <1>1, StepFacts
  <1> HIDE DEF g
  <1>4. /\ run' \in [Runs -> RunStates] /\ run'[r] = g
        /\ \A q \in Runs \ {r} : run'[q] = run[q]
    BY <1>1, <1>2, OneRun
  <1> QED
    BY <1>2, <1>3, <1>4

\* Only the marks of a cancellation change.
LEMMA StopsOnly ==
  ASSUME TypeOK, DOMAIN run' = Runs, run' = [r \in Runs |-> run'[r]],
         \A r \in Runs : \/ run'[r] = run[r]
                         \/ \E b \in BOOLEAN : run'[r] = [run[r] EXCEPT !.stops = b]
  PROVE  /\ run' \in [Runs -> RunStates]
         /\ \A r \in Runs : Alike(run'[r], run[r]) /\ run'[r].doubt = run[r].doubt
  <1>1. \A r \in Runs : run[r] \in RunStates
    BY Typed
  <1>2. ASSUME NEW r \in Runs
        PROVE  /\ run'[r] \in RunStates /\ Alike(run'[r], run[r]) /\ run'[r].doubt = run[r].doubt
    <2>1. CASE run'[r] = run[r]
      BY <1>1, <2>1 DEF Alike
    <2>2. ASSUME NEW b \in BOOLEAN, run'[r] = [run[r] EXCEPT !.stops = b]
          PROVE  /\ run'[r] \in RunStates /\ Alike(run'[r], run[r]) /\ run'[r].doubt = run[r].doubt
      BY <1>1, <2>2, StopFacts
    <2> QED
      BY <2>1, <2>2
  <1> QED
    BY <1>2

\* A discovery is cancelled.
LEMMA CancelFacts ==
  ASSUME TypeOK, Cancel
  PROVE  /\ run' \in [Runs -> RunStates]
         /\ \A r \in Runs : /\ Alike(run'[r], run[r]) /\ run'[r].doubt = run[r].doubt
                            /\ run'[r].stops => run[r].stops \/ run[r].step \in {"scan", "work"}
         /\ state'.active = state.active /\ state'.result = state.result /\ state'.cancel
         /\ state' \in [active : BOOLEAN, result : 0..MaxRuns, cancel : BOOLEAN, workers : BOOLEAN]
         /\ upsets' \in 0..MaxUpsets
         /\ UNCHANGED <<vendor, row, pending, applying, confirm, job, closed, swept, masked>>
         /\ sure' = {}
  <1>1. /\ Upset /\ state' = [state EXCEPT !.cancel = TRUE] /\ sure' = {}
        /\ UNCHANGED <<vendor, row, pending, applying, confirm, job, closed, swept, masked>>
    BY DEF Cancel
  <1>2. upsets' \in 0..MaxUpsets
    BY <1>1, UpsetFacts
  <1>3. state \in [active : BOOLEAN, result : 0..MaxRuns, cancel : BOOLEAN, workers : BOOLEAN]
    BY DEF TypeOK
  <1>4. /\ state' \in [active : BOOLEAN, result : 0..MaxRuns, cancel : BOOLEAN, workers : BOOLEAN]
        /\ state'.result = state.result
    BY <1>1, <1>3
  <1>5. state'.active = state.active
    BY <1>1, <1>3
  <1>6. state'.cancel
    BY <1>1, <1>3
  <1>7. /\ run' = [r \in Runs |-> run'[r]] /\ DOMAIN run' = Runs
        /\ \A r \in Runs : run'[r] = IF run[r].step \in {"scan", "work"}
                                     THEN [run[r] EXCEPT !.stops = TRUE] ELSE run[r]
    BY DEF Cancel
  <1>8. /\ run' \in [Runs -> RunStates]
        /\ \A r \in Runs : Alike(run'[r], run[r]) /\ run'[r].doubt = run[r].doubt
    BY <1>7, StopsOnly
  <1>9. \A r \in Runs : run'[r].stops => run[r].stops \/ run[r].step \in {"scan", "work"}
    BY <1>7, Typed
  <1> QED
    BY <1>1, <1>2, <1>4, <1>5, <1>6, <1>8, <1>9

\* A confirmation puts the state back.
LEMMA ResetFacts ==
  ASSUME TypeOK, NEW c \in Confirms, Reset(c)
  PROVE  /\ run' \in [Runs -> RunStates]
         /\ \A r \in Runs : /\ Alike(run'[r], run[r]) /\ run'[r].doubt = run[r].doubt
                            /\ ~ run'[r].stops
         /\ state' = NoState /\ MaskedBy({"run"}, masked)
         /\ UNCHANGED <<vendor, row, pending, applying, job, upsets>> /\ sure' = {}
  <1>1. /\ run' = [r \in Runs |-> run'[r]] /\ DOMAIN run' = Runs
        /\ \A r \in Runs : run'[r] = [run[r] EXCEPT !.stops = FALSE]
    BY DEF Reset
  <1>2. /\ run' \in [Runs -> RunStates]
        /\ \A r \in Runs : Alike(run'[r], run[r]) /\ run'[r].doubt = run[r].doubt
    BY <1>1, StopsOnly
  <1>3. \A r \in Runs : ~ run'[r].stops
    BY <1>1, Typed, NoStop
  <1>4. /\ state' = NoState /\ MaskedBy({"run"}, masked)
        /\ UNCHANGED <<vendor, row, pending, applying, job, upsets>> /\ sure' = {}
    BY DEF Reset, Cleared
  <1> QED
    BY <1>2, <1>3, <1>4

\* A new process knows no run.
LEMMA RestartFacts ==
  ASSUME TypeOK, StopsAreSeen, Restart
  PROVE  /\ run' \in [Runs -> RunStates]
         /\ \A r \in Runs :
               \/ Discovering(r) /\ run'[r] = Ended("gone")
               \/ /\ ~ Discovering(r) /\ run'[r].todo = run[r].todo /\ run'[r].begun = run[r].begun
                  /\ run'[r].base = run[r].base /\ run'[r].plan = run[r].plan
                  /\ run'[r].doubt = run[r].doubt
                  /\ run'[r].step = IF run[r].step = "save" THEN "unsaved" ELSE run[r].step
         /\ \A r \in Runs : ~ run'[r].stops
         /\ confirm' \in [Confirms -> ConfirmStates]
         /\ \A c \in Confirms : \/ confirm'[c].step = "gone"
                                \/ confirm'[c].step \in {"new", "done"} /\ confirm'[c] = confirm[c]
         /\ job' \in [Jobs -> JobStates] /\ \A k \in Jobs : job'[k].step = "none"
  <1>1. \A r \in Runs : run[r] \in RunStates /\ run[r].stops \in BOOLEAN
    BY Typed
  <1>2. /\ run' = [r \in Runs |-> run'[r]] /\ DOMAIN run' = Runs
        /\ \A r \in Runs :
              run'[r] = IF Discovering(r) THEN Ended("gone")
                        ELSE IF run[r].step = "save" THEN [run[r] EXCEPT !.step = "unsaved"]
                        ELSE run[r]
    BY DEF Restart
  <1>3. ASSUME NEW r \in Runs
        PROVE  /\ run'[r] \in RunStates
               /\ \/ Discovering(r) /\ run'[r] = Ended("gone")
                  \/ /\ ~ Discovering(r) /\ run'[r].todo = run[r].todo /\ run'[r].begun = run[r].begun
                     /\ run'[r].base = run[r].base /\ run'[r].plan = run[r].plan
                     /\ run'[r].doubt = run[r].doubt
                     /\ run'[r].step = IF run[r].step = "save" THEN "unsaved" ELSE run[r].step
    <2>1. CASE Discovering(r)
      BY <1>2, <2>1, EndedFacts
    <2>2. CASE ~ Discovering(r) /\ run[r].step = "save"
      <3>1. run'[r] = [run[r] EXCEPT !.step = "unsaved"]
        BY <1>2, <2>2
      <3> QED
        BY <1>1, <2>2, <3>1, StepFacts
    <2>3. CASE ~ Discovering(r) /\ run[r].step # "save"
      BY <1>1, <1>2, <2>3
    <2> QED
      BY <2>1, <2>2, <2>3
  <1>4. ASSUME NEW r \in Runs
        PROVE  ~ run'[r].stops
    <2>1. CASE Discovering(r)
      BY <1>2, <2>1, EndedFacts
    <2>2. CASE ~ Discovering(r)
      <3>1. ~ run[r].stops
        BY <2>2 DEF StopsAreSeen, Discovering
      <3>2. CASE run[r].step = "save"
        <4>1. run'[r] = [run[r] EXCEPT !.step = "unsaved"]
          BY <1>2, <2>2, <3>2
        <4>2. run'[r].stops = run[r].stops
          BY <1>1, <4>1, StepFacts
        <4> QED
          BY <3>1, <4>2
      <3>3. CASE run[r].step # "save"
        BY <1>2, <2>2, <3>1, <3>3
      <3> QED
        BY <3>2, <3>3
    <2> QED
      BY <2>1, <2>2
  <1>5. run' \in [Runs -> RunStates]
    BY <1>2, <1>3
  <1>6. ASSUME NEW g, g = [NewConfirm EXCEPT !.step = "gone"]
        PROVE  g \in ConfirmStates /\ g.step = "gone"
    BY <1>6, IdleFacts DEF ConfirmStates
  <1>7. /\ confirm' \in [Confirms -> ConfirmStates]
        /\ \A c \in Confirms : \/ confirm'[c].step = "gone"
                               \/ confirm'[c].step \in {"new", "done"} /\ confirm'[c] = confirm[c]
    BY <1>6, Typed DEF Restart
  <1>8. job' \in [Jobs -> JobStates] /\ \A k \in Jobs : job'[k].step = "none"
    BY IdleFacts DEF Restart
  <1> QED
    BY <1>3, <1>4, <1>5, <1>7, <1>8

-----------------------------------------------------------------------------
(* The steps of a confirmation *)

\* One confirmation changes, the others stay.
LEMMA OneConfirm ==
  ASSUME TypeOK, NEW c \in Confirms, NEW g \in ConfirmStates, confirm' = [confirm EXCEPT ![c] = g]
  PROVE  /\ confirm' \in [Confirms -> ConfirmStates] /\ confirm'[c] = g
         /\ \A d \in Confirms \ {c} : confirm'[d] = confirm[d]
  BY DEF TypeOK

\* A confirmation begins.
LEMMA ConfirmFacts ==
  ASSUME TypeOK, NEW c \in Confirms, NEW r \in Runs, Confirm(c, r)
  PROVE  /\ confirm' \in [Confirms -> ConfirmStates]
         /\ \A d \in Confirms \ {c} : confirm'[d] = confirm[d]
         /\ confirm[c].step = "new" /\ ~ applying /\ applying' = TRUE /\ Published(r)
         /\ confirm'[c].step = "products" /\ confirm'[c].of = r
         /\ confirm'[c].todo = {p \in Products : \/ run[r].plan.added[p] # Nowhere
                                                 \/ run[r].plan.removed[p] # Nowhere}
         /\ UNCHANGED <<vendor, row, state, pending, run, job, closed, swept, masked, upsets>>
         /\ sure' = {}
  <1> DEFINE todo == {p \in Products : run[r].plan.added[p] # Nowhere \/ run[r].plan.removed[p] # Nowhere}
             g == [confirm[c] EXCEPT !.step = "products", !.of = r, !.todo = todo]
  <1>1. /\ confirm[c].step = "new" /\ ~ applying /\ applying' = TRUE /\ Published(r)
        /\ confirm' = [confirm EXCEPT ![c] = g] /\ sure' = {}
        /\ UNCHANGED <<vendor, row, state, pending, run, job, closed, swept, masked, upsets>>
    BY DEF Confirm, MayConfirm
  <1>2. confirm[c] \in ConfirmStates /\ todo \in SUBSET Products /\ r \in 0..MaxRuns
    BY Typed, DiscoveryAssumption DEF Runs
  <1> HIDE DEF todo
  <1>3. g \in ConfirmStates /\ g.step = "products" /\ g.of = r /\ g.todo = todo
    BY <1>2 DEF ConfirmStates
  <1> HIDE DEF g
  <1>4. /\ confirm' \in [Confirms -> ConfirmStates] /\ confirm'[c] = g
        /\ \A d \in Confirms \ {c} : confirm'[d] = confirm[d]
    BY <1>1, <1>3, OneConfirm
  <1> QED
    BY <1>1, <1>3, <1>4 DEF todo

\* The thread goes on with the same result.
GoesOn(c, steps) ==
    /\ confirm' \in [Confirms -> ConfirmStates]
    /\ \A d \in Confirms \ {c} : confirm'[d] = confirm[d]
    /\ confirm'[c].step \in steps /\ confirm'[c].of = confirm[c].of

\* A confirmation goes to its next step.
LEMMA GoesOnFacts ==
  ASSUME TypeOK, NEW c \in Confirms,
         NEW w \in {"pick", "end", "clear", "reset", "done"}, NEW todo \in SUBSET Products,
         NEW product \in Products \cup {0}, NEW id \in Nat, NEW cur \in PathSets,
         \/ confirm' = [confirm EXCEPT ![c].step = w]
         \/ confirm' = [confirm EXCEPT ![c] = [confirm[c] EXCEPT !.todo = todo, !.step = w]]
         \/ confirm' = [confirm EXCEPT ![c] = [confirm[c] EXCEPT
                !.step = w, !.product = product, !.id = id, !.cur = cur]]
  PROVE  GoesOn(c, {w})
  <1>1. confirm[c] \in ConfirmStates
    BY Typed
  <1>2. ASSUME NEW g, \/ g = [confirm[c] EXCEPT !.step = w]
                      \/ g = [confirm[c] EXCEPT !.todo = todo, !.step = w]
                      \/ g = [confirm[c] EXCEPT !.step = w, !.product = product, !.id = id,
                                                !.cur = cur]
        PROVE  g \in ConfirmStates /\ g.step = w /\ g.of = confirm[c].of
    <2>1. CASE g = [confirm[c] EXCEPT !.step = w]
      BY <1>1, <2>1 DEF ConfirmStates
    <2>2. CASE g = [confirm[c] EXCEPT !.todo = todo, !.step = w]
      BY <1>1, <2>2 DEF ConfirmStates
    <2>3. CASE g = [confirm[c] EXCEPT !.step = w, !.product = product, !.id = id, !.cur = cur]
      BY <1>1, <2>3 DEF ConfirmStates
    <2> QED
      BY <1>2, <2>1, <2>2, <2>3
  <1>3. \E g : /\ \/ g = [confirm[c] EXCEPT !.step = w]
                  \/ g = [confirm[c] EXCEPT !.todo = todo, !.step = w]
                  \/ g = [confirm[c] EXCEPT !.step = w, !.product = product, !.id = id,
                                            !.cur = cur]
               /\ confirm' = [confirm EXCEPT ![c] = g]
    OBVIOUS
  <1>4. PICK g \in ConfirmStates : /\ g.step = w /\ g.of = confirm[c].of
                                   /\ confirm' = [confirm EXCEPT ![c] = g]
    BY <1>2, <1>3
  <1> QED
    BY <1>4, OneConfirm DEF GoesOn

\* The step after the session was checked.
LEMMA CheckFacts ==
  ASSUME TypeOK, NEW c \in Confirms, CheckSession(c)
  PROVE  GoesOn(c, {"pick", "end"}) /\ confirm[c].step = "products"
  <1> DEFINE todo == {p \in Products : Plan(c).add[p] # {} \/ Plan(c).del[p] # {}}
             w == IF todo = {} THEN "end" ELSE "pick"
  <1>1. /\ confirm' = [confirm EXCEPT ![c] = [confirm[c] EXCEPT !.todo = todo, !.step = w]]
        /\ confirm[c].step = "products"
    BY DEF CheckSession
  <1>2. todo \in SUBSET Products /\ w \in {"pick", "end", "clear", "reset", "done"}
        /\ w \in {"pick", "end"}
    OBVIOUS
  <1>3. \E product \in Products \cup {0}, id \in Nat, cur \in PathSets : TRUE
    BY DEF PathSets
  <1> HIDE DEF todo, w
  <1>4. GoesOn(c, {w})
    BY <1>1, <1>2, <1>3, GoesOnFacts
  <1> QED
    BY <1>1, <1>2, <1>4 DEF GoesOn

\* A row is picked.
LEMMA PickFacts ==
  ASSUME TypeOK, NEW c \in Confirms, NEW p \in Products, Pick(c, p)
  PROVE  /\ GoesOn(c, {"write", "pick", "end"}) /\ confirm[c].step = "pick"
         /\ confirm'[c].step = "write" => confirm'[c].product = p /\ confirm'[c].cur = row[p].paths
  <1> DEFINE left == confirm[c].todo \ {p}
             found == row[p].url = Plan(c).at[p]
             w == IF found THEN "write" ELSE IF left = {} THEN "end" ELSE "pick"
             product == IF found THEN p ELSE 0
             id == IF found THEN row[p].id ELSE 0
             cur == IF found THEN row[p].paths ELSE {}
             g == [confirm[c] EXCEPT !.todo = left, !.step = w, !.product = product,
                                     !.id = id, !.cur = cur]
  <1>1. confirm[c].step = "pick" /\ confirm' = [confirm EXCEPT ![c] = g]
    BY DEF Pick
  <1>2. confirm[c] \in ConfirmStates /\ row[p].id \in Nat /\ row[p].paths \in PathSets
    BY Typed
  <1>3. /\ left \in SUBSET Products /\ w \in {"write", "pick", "end"}
        /\ product \in Products \cup {0} /\ id \in Nat /\ cur \in PathSets
        /\ w = "write" => product = p /\ cur = row[p].paths
    BY <1>2 DEF PathSets, ConfirmStates
  <1> HIDE DEF left, found, w, product, id, cur
  <1>4. /\ g \in ConfirmStates /\ g.step = w /\ g.of = confirm[c].of
        /\ g.product = product /\ g.cur = cur
    BY <1>2, <1>3 DEF ConfirmStates
  <1> HIDE DEF g
  <1>5. /\ confirm' \in [Confirms -> ConfirmStates] /\ confirm'[c] = g
        /\ \A d \in Confirms \ {c} : confirm'[d] = confirm[d]
    BY <1>1, <1>4, OneConfirm
  <1> QED
    BY <1>1, <1>3, <1>4, <1>5 DEF GoesOn

\* A product is updated.
LEMMA UpdateFacts ==
  ASSUME TypeOK, NEW c \in Confirms, NEW p \in Products, UpdateProduct(c, p)
  PROVE  /\ GoesOn(c, {"products"}) /\ confirm[c].step = "products" /\ p \in confirm[c].todo
         /\ confirm'[c].todo = confirm[c].todo \ {p}
  <1> DEFINE left == confirm[c].todo \ {p}
             g == [confirm[c] EXCEPT !.todo = left]
  <1>1. confirm[c] \in ConfirmStates
    BY Typed
  <1>2. /\ confirm[c].step = "products" /\ p \in confirm[c].todo
        /\ confirm' = [confirm EXCEPT ![c] = g]
    BY <1>1 DEF UpdateProduct, ConfirmStates
  <1>3. left \in SUBSET Products
    BY <1>1 DEF ConfirmStates
  <1> HIDE DEF left
  <1>4. g \in ConfirmStates /\ g.step = confirm[c].step /\ g.of = confirm[c].of /\ g.todo = left
    BY <1>1, <1>3 DEF ConfirmStates
  <1> HIDE DEF g
  <1>5. /\ confirm' \in [Confirms -> ConfirmStates] /\ confirm'[c] = g
        /\ \A d \in Confirms \ {c} : confirm'[d] = confirm[d]
    BY <1>2, <1>4, OneConfirm
  <1> QED
    BY <1>2, <1>4, <1>5 DEF GoesOn, left

\* A picked row is written.
LEMMA WriteFacts ==
  ASSUME TypeOK, NEW c \in Confirms, Write(c)
  PROVE  GoesOn(c, {"pick", "end"}) /\ confirm[c].step = "write"
  <1> DEFINE w == IF confirm[c].todo = {} THEN "end" ELSE "pick"
  <1>1. /\ confirm[c].step = "write"
        /\ confirm' = [confirm EXCEPT ![c] = [confirm[c] EXCEPT
               !.step = w, !.product = 0, !.id = 0, !.cur = {}]]
    BY DEF Write
  <1>2. /\ w \in {"pick", "end", "clear", "reset", "done"} /\ w \in {"pick", "end"}
        /\ 0 \in Products \cup {0} /\ 0 \in Nat /\ {} \in PathSets /\ {} \in SUBSET Products
    BY DEF PathSets
  <1> HIDE DEF w
  <1>3. GoesOn(c, {w})
    BY <1>1, <1>2, GoesOnFacts
  <1> QED
    BY <1>1, <1>2, <1>3 DEF GoesOn

\* A confirmation comes to its end.
LEMMA EndFacts ==
  ASSUME TypeOK, NEW c \in Confirms
  PROVE  /\ ConfirmEnds(c) => GoesOn(c, {"clear"})
         /\ ClearFile(c) => GoesOn(c, {"reset"})
         /\ Reset(c) => GoesOn(c, {"done"})
  <1>1. ASSUME NEW w \in {"clear", "reset", "done"}, confirm' = [confirm EXCEPT ![c].step = w]
        PROVE  GoesOn(c, {w})
    <2>1. /\ w \in {"pick", "end", "clear", "reset", "done"}
          /\ 0 \in Products \cup {0} /\ 0 \in Nat /\ {} \in PathSets /\ {} \in SUBSET Products
      BY DEF PathSets
    <2> QED
      BY <1>1, <2>1, GoesOnFacts
  <1> QED
    BY <1>1 DEF ConfirmEnds, ClearFile, Reset

\* A confirmation breaks off.
LEMMA ThrowFacts ==
  ASSUME TypeOK, NEW c \in Confirms, ConfirmFails(c)
  PROVE  /\ confirm' \in [Confirms -> ConfirmStates]
         /\ \A d \in Confirms \ {c} : confirm'[d] = confirm[d]
         /\ confirm[c].step \in {"products", "pick", "write"} /\ confirm'[c].step = "failed"
         /\ upsets' \in 0..MaxUpsets
         /\ masked' = MaskedWithout(c) \cup (IF applying THEN {"left"} ELSE {})
         /\ UNCHANGED <<vendor, row, state, pending, run, applying, job, closed, swept>> /\ sure' = {}
  <1> DEFINE g == [NewConfirm EXCEPT !.step = "failed"]
  <1>1. /\ confirm[c].step \in {"products", "pick", "write"} /\ Upset
        /\ confirm' = [confirm EXCEPT ![c] = g]
        /\ masked' = MaskedWithout(c) \cup (IF applying THEN {"left"} ELSE {})
        /\ UNCHANGED <<vendor, row, state, pending, run, applying, job, closed, swept>> /\ sure' = {}
    BY DEF ConfirmFails
  <1>2. g \in ConfirmStates /\ g.step = "failed"
    BY IdleFacts DEF ConfirmStates
  <1> HIDE DEF g
  <1>3. /\ confirm' \in [Confirms -> ConfirmStates] /\ confirm'[c] = g
        /\ \A d \in Confirms \ {c} : confirm'[d] = confirm[d]
    BY <1>1, <1>2, OneConfirm
  <1> QED
    BY <1>1, <1>2, <1>3, UpsetFacts

-----------------------------------------------------------------------------
(* The steps that change a row or the pages of one product *)

Touched(p) ==
    /\ run' = DoubtfulRuns(p)
    /\ row' \in [Products -> Rows] /\ vendor' \in [Products -> [url : 0..2, paths : PathSets]]
    /\ \A x \in Products \ {p} : row'[x] = row[x] /\ vendor'[x] = vendor[x]
    /\ job' \in [Jobs -> JobStates]
    /\ \A k \in Jobs :
          \/ job'[k].step = "none"
          \/ /\ job'[k].step = job[k].step /\ job'[k].product = job[k].product
             /\ job'[k].old = job[k].old /\ job'[k].got = job[k].got
             /\ ~ job'[k].doubt => ~ job[k].doubt /\ job[k].product # p
    /\ upsets' \in 0..MaxUpsets
    /\ UNCHANGED <<state, pending, closed, swept, masked, applying>>

\* A row is a row.
LEMMA RowFacts ==
  ASSUME NEW url \in 0..2, NEW paths \in PathSets, NEW marked \in BOOLEAN, NEW id \in Nat
  PROVE  /\ Row(url, paths, marked, id) \in Rows
         /\ Row(url, paths, marked, id).url = url
         /\ Row(url, paths, marked, id).paths = paths
         /\ marked => Row(url, paths, marked, id).marked
  BY DEF Row, Rows

\* What is stored in place of a row.
LEMMA StoredFacts ==
  ASSUME TypeOK, NEW p \in Products, NEW id \in Nat, NEW paths \in PathSets, NEW marked \in BOOLEAN,
         row' = Stored(p, id, paths, marked)
  PROVE  /\ row' \in [Products -> Rows] /\ \A x \in Products \ {p} : row'[x] = row[x]
         /\ row'[p].url = row[p].url
         /\ (There(p) /\ row[p].id = id) => row'[p].paths = paths /\ (marked => row'[p].marked)
  <1>1. row \in [Products -> Rows] /\ row[p].url \in 0..2
    BY Typed DEF TypeOK
  <1>2. CASE There(p) /\ row[p].id = id
    <2> DEFINE e == Row(row[p].url, paths, marked, id)
    <2>1. row' = [row EXCEPT ![p] = e]
      BY <1>2 DEF Stored
    <2>2. /\ e \in Rows /\ e.url = row[p].url /\ e.paths = paths
      BY <1>1, RowFacts
    <2>3. marked => e.marked
      BY <1>1, RowFacts
    <2> HIDE DEF e
    <2>4. /\ row' \in [Products -> Rows] /\ (\A x \in Products \ {p} : row'[x] = row[x])
          /\ row'[p] = e
      BY <1>1, <2>1, <2>2
    <2> QED
      BY <2>2, <2>3, <2>4
  <1>3. CASE ~ (There(p) /\ row[p].id = id)
    <2>1. row' = row
      BY <1>3 DEF Stored
    <2> QED
      BY <1>1, <1>3, <2>1
  <1> QED
    BY <1>2, <1>3

\* A row with a plan applied to it is a row.
LEMMA UpdatedFacts ==
  ASSUME TypeOK, NEW p \in Products, NEW plan \in Plans
  PROVE  Updated(p, plan) \in Rows
  <1>1. /\ row[p] \in Rows /\ row[p].id \in Nat /\ row[p].id + 1 \in Nat /\ {} \in PathSets
        /\ Nowhere \in 0..2 /\ plan.added[p] \in 0..2 /\ FALSE \in BOOLEAN
    BY Typed DEF PathSets, Nowhere, Plans
  <1>2. (There(p) /\ row[p].marked) \in BOOLEAN
    OBVIOUS
  <1>3. CASE plan.added[p] # Nowhere
    <2> DEFINE b == There(p) /\ row[p].marked
               id == IF There(p) THEN row[p].id ELSE row[p].id + 1
    <2>1. Updated(p, plan) = Row(plan.added[p], {}, b, id)
      BY <1>3 DEF Updated
    <2>2. b \in BOOLEAN /\ id \in Nat
      BY <1>1, <1>2
    <2> HIDE DEF b, id
    <2> QED
      BY <1>1, <2>1, <2>2, RowFacts
  <1>4. CASE plan.added[p] = Nowhere
    <2>1. Updated(p, plan) = row[p] \/ Updated(p, plan) = Row(Nowhere, {}, FALSE, row[p].id)
      BY <1>4 DEF Updated
    <2>2. Row(Nowhere, {}, FALSE, row[p].id) \in Rows
      BY <1>1, RowFacts
    <2> QED
      BY <1>1, <2>1, <2>2
  <1> QED
    BY <1>3, <1>4

\* An update touches its product only.
LEMMA UpdateTouches ==
  ASSUME TypeOK, NEW c \in Confirms, NEW p \in Products, UpdateProduct(c, p),
         confirm[c].of \in Runs
  PROVE  Touched(p) /\ row'[p] = Updated(p, Plan(c))
  <1>1. /\ row' = [row EXCEPT ![p] = Updated(p, Plan(c))]
        /\ run' = DoubtfulRuns(p) /\ job' = DoubtfulJobs(p)
        /\ UNCHANGED <<vendor, state, pending, applying, closed, swept, masked, upsets>>
    BY DEF UpdateProduct
  <1>2. /\ Plan(c) \in Plans /\ row \in [Products -> Rows] /\ upsets \in 0..MaxUpsets
        /\ vendor \in [Products -> [url : 0..2, paths : PathSets]]
    BY Typed DEF Plan, TypeOK
  <1>3. Updated(p, Plan(c)) \in Rows
    BY <1>2, UpdatedFacts
  <1>4. /\ row' \in [Products -> Rows] /\ (\A x \in Products \ {p} : row'[x] = row[x])
        /\ row'[p] = Updated(p, Plan(c))
    BY <1>1, <1>2, <1>3
  <1> QED
    BY <1>1, <1>2, <1>4, DoubtfulJobFacts DEF Touched

\* So does a write.
LEMMA WriteTouches ==
  ASSUME TypeOK, NEW c \in Confirms, Write(c), confirm[c].product \in Products,
         confirm[c].of \in Runs
  PROVE  LET p == confirm[c].product
             cur == confirm[c].cur
             add == Plan(c).add[p]
             del == Plan(c).del[p]
         IN  /\ Touched(p) /\ row'[p].url = row[p].url
             /\ (There(p) /\ row[p].id = confirm[c].id) =>
                   \/ /\ RealChange(cur, add, del) /\ row'[p].marked
                      /\ row'[p].paths = Applied(cur, add, del)
                   \/ ~ RealChange(cur, add, del) /\ row'[p].paths = cur
  <1> DEFINE p == confirm[c].product
             cur == confirm[c].cur
             add == Plan(c).add[p]
             del == Plan(c).del[p]
             real == RealChange(cur, add, del)
             paths == IF real THEN Applied(cur, add, del) ELSE cur
             id == confirm[c].id
  <1>1. /\ row' = Stored(p, id, paths, real)
        /\ run' = DoubtfulRuns(p) /\ job' = DoubtfulJobs(p)
        /\ UNCHANGED <<vendor, state, pending, applying, closed, swept, masked, upsets>>
    BY DEF Write
  <1>2. /\ Plan(c) \in Plans /\ upsets \in 0..MaxUpsets
        /\ vendor \in [Products -> [url : 0..2, paths : PathSets]]
        /\ confirm[c] \in ConfirmStates
    BY Typed DEF Plan, TypeOK
  <1>3. /\ cur \in PathSets /\ id \in Nat /\ add \in PathSets /\ del \in PathSets
    BY <1>2 DEF ConfirmStates, Plans
  <1>4. paths \in PathSets /\ real \in BOOLEAN
    BY <1>3 DEF PathSets, Applied, RealChange
  <1>5. (real => paths = Applied(cur, add, del)) /\ (~ real => paths = cur)
    OBVIOUS
  <1> HIDE DEF real, paths, id, cur, add, del
  <1>6. /\ row' \in [Products -> Rows] /\ \A x \in Products \ {p} : row'[x] = row[x]
        /\ row'[p].url = row[p].url
        /\ (There(p) /\ row[p].id = id) => row'[p].paths = paths
    BY <1>1, <1>3, <1>4, StoredFacts
  <1>7. (There(p) /\ row[p].id = id) /\ real => row'[p].marked
    BY <1>1, <1>3, <1>4, StoredFacts
  <1>8. Touched(p)
    <2>1. /\ job' \in [Jobs -> JobStates]
          /\ \A k \in Jobs : /\ job'[k].step = job[k].step /\ job'[k].product = job[k].product
                             /\ job'[k].old = job[k].old /\ job'[k].got = job[k].got
                             /\ ~ job'[k].doubt => ~ job[k].doubt /\ job[k].product # p
      BY <1>1, DoubtfulJobFacts
    <2> QED
      BY <1>1, <1>2, <1>6, <2>1 DEF Touched
  <1>9. (There(p) /\ row[p].id = id) =>
           \/ real /\ row'[p].marked /\ row'[p].paths = Applied(cur, add, del)
           \/ ~ real /\ row'[p].paths = cur
    BY <1>5, <1>6, <1>7
  <1> QED
    BY <1>6, <1>8, <1>9 DEF real, id, cur, add, del

\* An edit or a change at the vendor touches a product and leaves nothing sure.
LEMMA EditTouches ==
  ASSUME TypeOK, NEW p \in Products, Edits(p) \/ Changes(p)
  PROVE  Touched(p) /\ UNCHANGED confirm /\ sure' = {}
  <1>1. /\ run' = DoubtfulRuns(p) /\ job' = DoubtfulJobs(p) /\ Upset /\ sure' = {}
        /\ UNCHANGED <<state, pending, applying, confirm, closed, swept, masked>>
    BY DEF Edits, Changes
  <1>2. /\ row \in [Products -> Rows] /\ vendor \in [Products -> [url : 0..2, paths : PathSets]]
        /\ row[p] \in Rows /\ row[p].id \in Nat /\ vendor[p] \in [url : 0..2, paths : PathSets]
        /\ vendor[p].url \in 0..2 /\ {} \in PathSets /\ Nowhere \in 0..2
        /\ row[p].id + 1 \in Nat /\ FALSE \in BOOLEAN
    BY Typed DEF TypeOK, PathSets, Nowhere
  <1>3. upsets' \in 0..MaxUpsets
    BY <1>1, UpsetFacts
  <1>4. CASE Edits(p)
    <2>1. vendor' = vendor
      BY <1>4 DEF Edits
    <2>2. \E e \in Rows : row' = [row EXCEPT ![p] = e]
      <3>1. CASE row' = [row EXCEPT ![p].marked = FALSE]
        <4> DEFINE e == [row[p] EXCEPT !.marked = FALSE]
        <4>1. e \in Rows
          BY <1>2 DEF Rows
        <4>2. row' = [row EXCEPT ![p] = e]
          BY <3>1
        <4> QED
          BY <4>1, <4>2
      <3>2. CASE row' = [row EXCEPT ![p] = Row(Nowhere, {}, FALSE, row[p].id)]
        BY <1>2, <3>2, RowFacts
      <3>3. CASE row' = [row EXCEPT ![p] = Row(vendor[p].url, {}, FALSE, row[p].id + 1)]
        BY <1>2, <3>3, RowFacts
      <3> QED
        BY <1>4, <3>1, <3>2, <3>3 DEF Edits
    <2>3. row' \in [Products -> Rows] /\ \A x \in Products \ {p} : row'[x] = row[x]
      BY <1>2, <2>2
    <2> QED
      BY <1>1, <1>2, <1>3, <2>1, <2>3, DoubtfulJobFacts DEF Touched
  <1>5. CASE Changes(p)
    <2>1. row' = row
      BY <1>5 DEF Changes
    <2>2. \E v \in [url : 0..2, paths : PathSets] : vendor' = [vendor EXCEPT ![p] = v]
      <3>1. ASSUME NEW url \in 0..2, vendor' = [vendor EXCEPT ![p].url = url]
            PROVE  \E v \in [url : 0..2, paths : PathSets] : vendor' = [vendor EXCEPT ![p] = v]
        <4>1. [vendor[p] EXCEPT !.url = url] \in [url : 0..2, paths : PathSets]
          BY <1>2
        <4> QED
          BY <3>1, <4>1
      <3>2. ASSUME NEW q \in Paths, vendor' = [vendor EXCEPT ![p].paths = (@ \ {q}) \cup ({q} \ @)]
            PROVE  \E v \in [url : 0..2, paths : PathSets] : vendor' = [vendor EXCEPT ![p] = v]
        <4> DEFINE old == vendor[p].paths
                   new == (old \ {q}) \cup ({q} \ old)
        <4>1. new \in PathSets
          BY <1>2, <3>2 DEF PathSets
        <4>2. vendor' = [vendor EXCEPT ![p] = [vendor[p] EXCEPT !.paths = new]]
          BY <3>2, <1>2
        <4> HIDE DEF new
        <4>3. [vendor[p] EXCEPT !.paths = new] \in [url : 0..2, paths : PathSets]
          BY <1>2, <4>1
        <4> QED
          BY <4>2, <4>3
      <3> QED
        BY <1>5, <3>1, <3>2 DEF Changes
    <2>3. /\ vendor' \in [Products -> [url : 0..2, paths : PathSets]]
          /\ \A x \in Products \ {p} : vendor'[x] = vendor[x]
      BY <1>2, <2>2
    <2> QED
      BY <1>1, <1>2, <1>3, <2>1, <2>3, DoubtfulJobFacts DEF Touched
  <1> QED
    BY <1>1, <1>4, <1>5

\* A refresh starts.
LEMMA StartJobFacts ==
  ASSUME TypeOK, NEW k \in Jobs, NEW p \in Products, StartJob(k, p)
  PROVE  /\ job' \in [Jobs -> JobStates] /\ \A i \in Jobs \ {k} : job'[i] = job[i]
         /\ job'[k].step = "crawl" /\ job'[k].product = p /\ job'[k].old = row[p].paths
         /\ There(p) /\ upsets' \in 0..MaxUpsets /\ sure' = {}
         /\ UNCHANGED <<vendor, row, state, pending, run, applying, confirm, closed, swept, masked>>
  <1> DEFINE none == NoJob
             id == row[p].id
             old == row[p].paths
             g == [none EXCEPT !.step = "crawl", !.product = p, !.id = id, !.old = old]
  <1>1. /\ There(p) /\ Upset /\ job' = [job EXCEPT ![k] = g] /\ sure' = {}
        /\ UNCHANGED <<vendor, row, state, pending, run, applying, confirm, closed, swept, masked>>
    BY DEF StartJob
  <1>2. none \in JobStates /\ id \in Nat /\ old \in PathSets /\ job \in [Jobs -> JobStates]
    BY IdleFacts, Typed DEF TypeOK
  <1> HIDE DEF none, id, old
  <1>3. g \in JobStates /\ g.step = "crawl" /\ g.product = p /\ g.old = old
    BY <1>2 DEF JobStates
  <1> HIDE DEF g
  <1>4. job' \in [Jobs -> JobStates] /\ (\A i \in Jobs \ {k} : job'[i] = job[i]) /\ job'[k] = g
    BY <1>1, <1>2, <1>3
  <1> QED
    BY <1>1, <1>3, <1>4, UpsetFacts DEF old

\* A refresh reads the page of its product.
LEMMA CrawlFacts ==
  ASSUME TypeOK, JobsAreTrue, NEW k \in Jobs, Crawl(k)
  PROVE  /\ job' \in [Jobs -> JobStates] /\ \A i \in Jobs \ {k} : job'[i] = job[i]
         /\ job[k].step = "crawl" /\ job'[k].step = "write" /\ job'[k].product = job[k].product
         /\ job'[k].old = job[k].old
         /\ ~ job'[k].doubt => ~ job[k].doubt /\ job'[k].got = Shown(job[k].product)
         /\ upsets' \in 0..MaxUpsets /\ sure' = {}
         /\ UNCHANGED <<vendor, row, state, pending, run, applying, confirm, closed, swept, masked>>
  <1> DEFINE h == job[k]
             p == h.product
  <1>1. h.step = "crawl" /\ h \in JobStates /\ p \in Products /\ Shown(p) \in PathSets
        /\ job \in [Jobs -> JobStates]
    BY Typed DEF Crawl, JobsAreTrue, TypeOK
  <1>2. PICK got \in SUBSET Shown(p) :
          /\ Fetched(p, got)
          /\ job' = [job EXCEPT ![k] = [h EXCEPT !.step = "write", !.got = got,
                                                 !.doubt = h.doubt \/ got # Shown(p)]]
    BY <1>1 DEF Crawl, JobStates
  <1>3. upsets' \in 0..MaxUpsets
    BY <1>2, UpsetFacts DEF Fetched
  <1> DEFINE b == h.doubt \/ got # Shown(p)
             g == [h EXCEPT !.step = "write", !.got = got, !.doubt = b]
  <1>4. got \in PathSets /\ b \in BOOLEAN /\ (~ b => ~ h.doubt /\ got = Shown(p))
    BY <1>1, <1>2 DEF PathSets
  <1>5. job' = [job EXCEPT ![k] = g]
    BY <1>2
  <1> HIDE DEF b
  <1>6. /\ g \in JobStates /\ g.step = "write" /\ g.product = p /\ g.old = h.old /\ g.got = got
    BY <1>1, <1>4 DEF JobStates
  <1>7. g.doubt = b
    BY <1>1 DEF JobStates
  <1> HIDE DEF g
  <1>8. job' \in [Jobs -> JobStates] /\ (\A i \in Jobs \ {k} : job'[i] = job[i]) /\ job'[k] = g
    BY <1>1, <1>5, <1>6
  <1>9. ~ job'[k].doubt => ~ h.doubt /\ job'[k].got = Shown(p)
    BY <1>4, <1>6, <1>7, <1>8
  <1>10. /\ sure' = {}
         /\ UNCHANGED <<vendor, row, state, pending, run, applying, confirm, closed, swept, masked>>
    BY DEF Crawl
  <1> QED
    BY <1>1, <1>3, <1>6, <1>8, <1>9, <1>10

JobKeeps(k) == Keeps(k, job[k].old, job[k].got)

\* What a refresh writes touches its product only.
LEMMA JobTouches ==
  ASSUME TypeOK, JobsAreTrue, NEW k \in Jobs, JobWrites(k)
  PROVE  LET p == job[k].product
         IN  /\ p \in Products /\ job[k].step = "write" /\ UNCHANGED confirm
             /\ \/ /\ JobKeeps(k) /\ Touched(p) /\ row'[p].url = row[p].url
                   /\ (There(p) /\ row[p].id = job[k].id) =>
                         /\ row'[p].paths = job[k].got
                         /\ job[k].old # job[k].got => row'[p].marked
                   /\ sure' = Sure(p, job[k].id, job[k].doubt)
                \/ /\ ~ JobKeeps(k) /\ sure' = {}
                   /\ job' \in [Jobs -> JobStates] /\ job'[k].step = "none"
                   /\ \A i \in Jobs \ {k} : job'[i] = job[i]
                   /\ UNCHANGED <<run, row, vendor, state, pending, applying, closed, swept,
                                  masked, upsets>>
  <1> DEFINE h == job[k]
             p == h.product
             m == Marks(h.old, h.got)
  <1>1. /\ h.step = "write" /\ h \in JobStates /\ p \in Products /\ job \in [Jobs -> JobStates]
        /\ UNCHANGED <<vendor, state, pending, applying, confirm, closed, swept, masked, upsets>>
        /\ upsets \in 0..MaxUpsets /\ vendor \in [Products -> [url : 0..2, paths : PathSets]]
        /\ h.id \in Nat /\ h.got \in PathSets
    BY Typed DEF JobWrites, JobsAreTrue, TypeOK, JobStates
  <1>2. CASE JobKeeps(k)
    <2>1. /\ row' = Stored(p, h.id, h.got, m) /\ run' = DoubtfulRuns(p)
          /\ job' = [DoubtfulJobs(p) EXCEPT ![k] = NoJob]
          /\ sure' = Sure(p, h.id, h.doubt)
      BY <1>2 DEF JobWrites, JobKeeps
    <2>2. m \in BOOLEAN /\ (h.old # h.got => m)
      BY DEF Marks
    <2> HIDE DEF m
    <2>3. /\ row' \in [Products -> Rows] /\ \A x \in Products \ {p} : row'[x] = row[x]
          /\ row'[p].url = row[p].url
          /\ (There(p) /\ row[p].id = h.id) => row'[p].paths = h.got
      BY <1>1, <2>1, <2>2, StoredFacts
    <2>4. (There(p) /\ row[p].id = h.id) /\ h.old # h.got => row'[p].marked
      BY <1>1, <2>1, <2>2, StoredFacts
    <2>5. job' \in [Jobs -> JobStates] /\ job'[k].step = "none"
          /\ \A i \in Jobs \ {k} : job'[i] = DoubtfulJobs(p)[i]
      BY <2>1, DoubtfulJobFacts, IdleFacts
    <2>6. \A i \in Jobs \ {k} : /\ job'[i].step = job[i].step /\ job'[i].product = job[i].product
                                /\ job'[i].old = job[i].old /\ job'[i].got = job[i].got
                                /\ ~ job'[i].doubt => ~ job[i].doubt /\ job[i].product # p
      BY <2>5, DoubtfulJobFacts
    <2>7. Touched(p)
      BY <1>1, <2>1, <2>3, <2>5, <2>6 DEF Touched
    <2> QED
      BY <1>1, <1>2, <2>1, <2>3, <2>4, <2>7
  <1>3. CASE ~ JobKeeps(k)
    <2>1. run' = run /\ row' = row /\ job' = [job EXCEPT ![k] = NoJob] /\ sure' = {}
      BY <1>3 DEF JobWrites, JobKeeps
    <2>2. /\ job' \in [Jobs -> JobStates] /\ job'[k].step = "none"
          /\ \A i \in Jobs \ {k} : job'[i] = job[i]
      BY <1>1, <2>1, IdleFacts
    <2> QED
      BY <1>1, <1>3, <2>1, <2>2
  <1> QED
    BY <1>2, <1>3

-----------------------------------------------------------------------------
(* One step of the system *)

Ends(r) == \/ Fails(r) \/ (OnlyNew(r) /\ Cancelled(r))
           \/ \E p \in Products : Worked(r, p) /\ Cancelled(r)
Passes(r) == OnlyNew(r) /\ ~ Cancelled(r)
Answers(r, p) == Worked(r, p) /\ ~ Cancelled(r)

\* Every step is one of a run, of a confirmation, of a job, or comes from outside.
LEMMA Steps ==
  ASSUME Next
  PROVE  \/ \E r \in Runs : StartDiscover(r) \/ Scan(r) \/ Publish(r) \/ Save(r) \/ Ends(r) \/ Passes(r)
         \/ \E r \in Runs, p \in Products : Begin(r, p) \/ Answers(r, p)
         \/ Cancel \/ Discard \/ Restart
         \/ \E c \in Confirms, r \in Runs : Confirm(c, r)
         \/ \E c \in Confirms : CheckSession(c) \/ ConfirmFails(c) \/ ConfirmEnds(c) \/ ClearFile(c)
                                \/ Reset(c) \/ Write(c)
         \/ \E c \in Confirms, p \in Products : UpdateProduct(c, p) \/ Pick(c, p)
         \/ \E k \in Jobs, p \in Products : StartJob(k, p)
         \/ \E k \in Jobs : Crawl(k) \/ JobWrites(k)
         \/ \E p \in Products : Edits(p) \/ Changes(p)
  <1>1. CASE User
    BY <1>1 DEF User
  <1>2. ASSUME NEW r \in Runs, DiscoverThread(r)
        PROVE  \/ Scan(r) \/ Publish(r) \/ Save(r) \/ Ends(r) \/ Passes(r)
               \/ \E p \in Products : Begin(r, p) \/ Answers(r, p)
    BY <1>2 DEF DiscoverThread, Ends, Passes, Answers
  <1>3. ASSUME NEW c \in Confirms, ConfirmThread(c)
        PROVE  \/ CheckSession(c) \/ ConfirmFails(c) \/ ConfirmEnds(c) \/ ClearFile(c)
               \/ Reset(c) \/ Write(c)
               \/ \E p \in Products : UpdateProduct(c, p) \/ Pick(c, p)
    BY <1>3 DEF ConfirmThread
  <1> QED
    BY <1>1, <1>2, <1>3 DEF Next

\* A run that ends leaves the others alone.
LEMMA EndsFacts ==
  ASSUME TypeOK, NEW r \in Runs, Ends(r)
  PROVE  /\ run' \in [Runs -> RunStates] /\ \A q \in Runs \ {r} : run'[q] = run[q]
         /\ Discovering(r) /\ run'[r].step \in {"cancelled", "failed"}
         /\ run'[r].todo = {} /\ run'[r].begun = {} /\ ~ run'[r].stops
         /\ state' \in [active : BOOLEAN, result : 0..MaxRuns, cancel : BOOLEAN, workers : BOOLEAN]
         /\ ~ state'.active /\ Unmasked(r) /\ upsets' \in 0..MaxUpsets
         /\ \/ state'.result = state.result /\ pending' = pending /\ swept' = swept
            \/ /\ state'.result = 0 /\ pending' = 0
               /\ swept' = swept \cup ({state.result, pending} \ {0})
         /\ state'.cancel = state.cancel
         /\ UNCHANGED <<vendor, row, applying, confirm, job, closed>> /\ sure' = {}
  <1>1. state \in [active : BOOLEAN, result : 0..MaxRuns, cancel : BOOLEAN, workers : BOOLEAN] /\ 0 \in 0..MaxRuns
    BY DiscoveryAssumption DEF TypeOK
  <1>2. ASSUME NEW how \in {"cancelled", "failed"}, run' = [run EXCEPT ![r] = Ended(how)]
        PROVE  /\ run' \in [Runs -> RunStates] /\ \A q \in Runs \ {r} : run'[q] = run[q]
               /\ run'[r].step = how /\ run'[r].todo = {} /\ run'[r].begun = {} /\ ~ run'[r].stops
    <2> DEFINE g == Ended(how)
    <2>1. g \in RunStates /\ g.step = how /\ g.todo = {} /\ g.begun = {} /\ ~ g.stops
      BY EndedFacts
    <2>2. run' = [run EXCEPT ![r] = g]
      BY <1>2
    <2> HIDE DEF g
    <2>3. run' \in [Runs -> RunStates] /\ run'[r] = g /\ \A q \in Runs \ {r} : run'[q] = run[q]
      BY <2>1, <2>2, OneRun
    <2> QED
      BY <2>1, <2>3
  <1>3. CASE Fails(r)
    <2>1. /\ run[r].step \in {"scan", "work"} /\ Upset /\ run' = [run EXCEPT ![r] = Ended("failed")]
          /\ state' = [state EXCEPT !.active = FALSE, !.result = 0] /\ pending' = 0
          /\ swept' = swept \cup ({state.result, pending} \ {0}) /\ Unmasked(r)
          /\ UNCHANGED <<vendor, row, applying, confirm, job, closed>> /\ sure' = {}
      BY <1>3 DEF Fails
    <2>2. /\ state' \in [active : BOOLEAN, result : 0..MaxRuns, cancel : BOOLEAN, workers : BOOLEAN]
          /\ state'.result = 0
      BY <1>1, <2>1
    <2>3. ~ state'.active
      BY <1>1, <2>1
    <2>4. state'.cancel = state.cancel
      BY <1>1, <2>1
    <2> QED
      BY <1>2, <2>1, <2>2, <2>3, <2>4, UpsetFacts DEF Discovering
  <1>4. ASSUME NEW p \in Products, Worked(r, p), Cancelled(r)
        PROVE  /\ run[r].step = "work" /\ run' = [run EXCEPT ![r] = Ended("cancelled")]
               /\ state' = [state EXCEPT !.active = FALSE]
               /\ Unmasked(r) /\ sure' = {}
               /\ UNCHANGED <<upsets, vendor, row, pending, applying, confirm, job, closed, swept>>
    BY <1>4 DEF Worked, GivesUp
  <1>5. CASE (OnlyNew(r) /\ Cancelled(r)) \/ \E p \in Products : Worked(r, p) /\ Cancelled(r)
    <2>1. /\ run[r].step = "work" /\ run' = [run EXCEPT ![r] = Ended("cancelled")]
          /\ state' = [state EXCEPT !.active = FALSE]
          /\ Unmasked(r) /\ sure' = {}
          /\ UNCHANGED <<upsets, vendor, row, pending, applying, confirm, job, closed, swept>>
      BY <1>4, <1>5 DEF OnlyNew, GivesUp
    <2>2. /\ state' \in [active : BOOLEAN, result : 0..MaxRuns, cancel : BOOLEAN, workers : BOOLEAN]
          /\ state'.result = state.result
      BY <1>1, <2>1
    <2>3. ~ state'.active
      BY <1>1, <2>1
    <2>4. state'.cancel = state.cancel
      BY <1>1, <2>1
    <2>5. upsets' \in 0..MaxUpsets
      BY <2>1, UpsetFacts
    <2> QED
      BY <1>2, <2>1, <2>2, <2>3, <2>4, <2>5 DEF Discovering
  <1> QED
    BY <1>3, <1>5 DEF Ends

\* A run passes on to the comparison when no product is left.
LEMMA PassFacts ==
  ASSUME TypeOK, NEW r \in Runs, Passes(r)
  PROVE  /\ run[r].step = "work" /\ run[r].todo = {} /\ ~ state.cancel
         /\ run' \in [Runs -> RunStates] /\ run'[r].step = "publish"
         /\ \A q \in Runs \ {r} : run'[q] = run[q]
         /\ run'[r].todo = run[r].todo /\ run'[r].begun = run[r].begun
         /\ run'[r].base = run[r].base /\ run'[r].plan = run[r].plan
         /\ run'[r].doubt = run[r].doubt /\ run'[r].stops = run[r].stops /\ sure' = {}
         /\ UNCHANGED <<vendor, row, state, pending, applying, confirm, job, closed, swept, masked, upsets>>
  <1>1. /\ run[r].step = "work" /\ run[r].todo = {} /\ ~ state.cancel /\ sure' = {}
        /\ run' = [run EXCEPT ![r].step = "publish"]
        /\ UNCHANGED <<vendor, row, state, pending, applying, confirm, job, closed, swept, masked, upsets>>
    BY DEF Passes, OnlyNew, GivesUp, Cancelled
  <1>2. /\ run' \in [Runs -> RunStates] /\ run'[r].step = "publish"
        /\ \A q \in Runs \ {r} : run'[q] = run[q]
        /\ run'[r].todo = run[r].todo /\ run'[r].begun = run[r].begun
        /\ run'[r].base = run[r].base /\ run'[r].plan = run[r].plan
        /\ run'[r].doubt = run[r].doubt
    BY <1>1, NextStepFacts
  <1>3. run'[r].stops = run[r].stops
    BY <1>1, NextStepFacts
  <1> QED
    BY <1>1, <1>2, <1>3

\* A worker answers while the run is at work.
LEMMA AnswerFacts ==
  ASSUME TypeOK, NEW r \in Runs, NEW p \in Products, Answers(r, p)
  PROVE  /\ run[r].step = "work" /\ p \in run[r].begun /\ ~ state.cancel
         /\ \E got \in PathSets : run' = [run EXCEPT ![r] = Answered(r, p, got)]
         /\ upsets' \in 0..MaxUpsets /\ sure' = {}
         /\ UNCHANGED <<vendor, row, state, pending, applying, confirm, job, closed, swept, masked>>
  <1>1. /\ run[r].step = "work" /\ p \in run[r].begun /\ ~ state.cancel /\ sure' = {}
        /\ \/ \E got \in SUBSET Shown(p) : /\ Fetched(p, got)
                                           /\ run' = [run EXCEPT ![r] = Answered(r, p, got)]
           \/ Raised(r, p)
        /\ UNCHANGED <<vendor, row, state, pending, applying, confirm, job, closed, swept, masked>>
    BY DEF Answers, GivesUp, Worked, Raised, Cancelled
  <1>2. Shown(p) \in PathSets /\ run[r].base[p] \in PathSets
    BY Typed
  <1>3. CASE \E got \in SUBSET Shown(p) : /\ Fetched(p, got)
                                          /\ run' = [run EXCEPT ![r] = Answered(r, p, got)]
    <2>1. \E got \in PathSets : Fetched(p, got) /\ run' = [run EXCEPT ![r] = Answered(r, p, got)]
      BY <1>2, <1>3 DEF PathSets
    <2>2. upsets' \in 0..MaxUpsets
      BY <2>1, UpsetFacts DEF Fetched
    <2> QED
      BY <1>1, <2>1, <2>2
  <1>4. CASE Raised(r, p)
    <2>1. \E got \in PathSets : run' = [run EXCEPT ![r] = Answered(r, p, got)]
      BY <1>2, <1>4 DEF Raised
    <2>2. upsets' \in 0..MaxUpsets
      BY <1>4, UpsetFacts DEF Raised
    <2> QED
      BY <1>1, <2>1, <2>2
  <1> QED
    BY <1>1, <1>3, <1>4

\* An answer requests no stop.
LEMMA AnsweredStops ==
  ASSUME TypeOK, NEW r \in Runs, NEW p \in Products, NEW got, NEW g, g = Answered(r, p, got), g.stops
  PROVE  run[r].stops
  <1> DEFINE h == run[r]
  <1>1. h \in RunStates
    BY Typed
  <1> HIDE DEF h
  <1>2. g.stops = h.stops
    BY <1>1 DEF Answered, RunStates, h
  <1> QED
    BY <1>2 DEF h

\* An answer moves its run only.
LEMMA AnswerMoves ==
  ASSUME TypeOK, NEW r \in Runs, NEW p \in Products, Answers(r, p)
  PROVE  /\ run' \in [Runs -> RunStates] /\ \A q \in Runs \ {r} : run'[q] = run[q]
         /\ run'[r].todo = run[r].todo \ {p} /\ run'[r].begun = run[r].begun \ {p}
         /\ run'[r].step = IF run[r].todo \ {p} = {} THEN "publish" ELSE "work"
         /\ run'[r].stops => run[r].stops
         /\ run'[r].plan.added = run[r].plan.added /\ run'[r].plan.removed = run[r].plan.removed
         /\ \A x \in Products \ {p} : /\ run'[r].base[x] = run[r].base[x]
                                      /\ run'[r].plan.add[x] = run[r].plan.add[x]
                                      /\ run'[r].plan.del[x] = run[r].plan.del[x]
         /\ run[r].doubt \subseteq run'[r].doubt
         /\ p \notin run'[r].doubt => /\ run'[r].plan.add[p] = Shown(p) \ run[r].base[p]
                                      /\ run'[r].plan.del[p] = run[r].base[p] \ Shown(p)
  <1>1. PICK got \in PathSets : run' = [run EXCEPT ![r] = Answered(r, p, got)]
    BY AnswerFacts
  <1>2. run[r].step = "work" /\ p \in run[r].begun
    BY AnswerFacts
  <1> DEFINE g == Answered(r, p, got)
  <1>0. g = Answered(r, p, got) /\ got \in PathSets
    OBVIOUS
  <1> HIDE DEF g
  <1>3. /\ g \in RunStates
        /\ g.todo = run[r].todo \ {p} /\ g.begun = run[r].begun \ {p}
        /\ g.step = IF run[r].todo \ {p} = {} THEN "publish" ELSE "work"
        /\ \A x \in Products \ {p} : /\ g.base[x] = run[r].base[x]
                                     /\ g.plan.add[x] = run[r].plan.add[x]
                                     /\ g.plan.del[x] = run[r].plan.del[x]
        /\ g.plan.add[p] = got \ run[r].base[p] /\ g.plan.del[p] = run[r].base[p] \ got
        /\ g.plan.added = run[r].plan.added /\ g.plan.removed = run[r].plan.removed
        /\ g.doubt = IF got = Shown(p) THEN run[r].doubt ELSE run[r].doubt \cup {p}
    <2>1. AnswerIs(r, p, got, g)
      BY <1>0, <1>2, AnsweredFacts
    <2> QED
      BY <2>1 DEF AnswerIs
  <1>4. g.stops => run[r].stops
    BY <1>0, AnsweredStops
  <1>5. run' = [run EXCEPT ![r] = g]
    BY <1>0, <1>1
  <1>6. /\ run' \in [Runs -> RunStates] /\ run'[r] = g /\ \A q \in Runs \ {r} : run'[q] = run[q]
    BY <1>3, <1>5, OneRun
  <1>7. p \notin g.doubt => got = Shown(p)
    BY <1>3
  <1>8. run[r].doubt \subseteq g.doubt
    BY <1>3
  <1> QED
    BY <1>3, <1>4, <1>6, <1>7, <1>8

\* Either the tables are as they were, or one product was touched.
LEMMA Tables ==
  ASSUME TypeOK, ConfirmsAreTrue, JobsAreTrue, Next
  PROVE  UNCHANGED <<row, vendor>> \/ \E p \in Products : Touched(p)
  <1>1. ASSUME NEW r \in Runs, StartDiscover(r) \/ Scan(r) \/ Publish(r) \/ Save(r) \/ Ends(r) \/ Passes(r)
        PROVE  UNCHANGED <<row, vendor>>
    BY <1>1 DEF StartDiscover, Scan, Publish, Save, Ends, Fails, Passes, OnlyNew, GivesUp, Worked
  <1>2. ASSUME NEW r \in Runs, NEW p \in Products, Begin(r, p) \/ Answers(r, p)
        PROVE  UNCHANGED <<row, vendor>>
    BY <1>2 DEF Begin, Answers, GivesUp, Worked
  <1>3. Cancel \/ Discard \/ Restart => UNCHANGED <<row, vendor>>
    BY DEF Cancel, Discard, Restart
  <1>4. ASSUME NEW c \in Confirms, NEW r \in Runs, Confirm(c, r)
        PROVE  UNCHANGED <<row, vendor>>
    BY <1>4 DEF Confirm
  <1>5. ASSUME NEW c \in Confirms,
               CheckSession(c) \/ ConfirmFails(c) \/ ConfirmEnds(c) \/ ClearFile(c) \/ Reset(c)
        PROVE  UNCHANGED <<row, vendor>>
    BY <1>5 DEF CheckSession, ConfirmFails, ConfirmEnds, ClearFile, Reset
  <1>6. ASSUME NEW c \in Confirms, Write(c)
        PROVE  \E p \in Products : Touched(p)
    <2>1. confirm[c].product \in Products /\ confirm[c].of \in Runs
      BY <1>6, WriteFacts DEF ConfirmsAreTrue
    <2> QED
      BY <1>6, <2>1, WriteTouches
  <1>7. ASSUME NEW c \in Confirms, NEW p \in Products, UpdateProduct(c, p)
        PROVE  Touched(p)
    <2>1. confirm[c].of \in Runs
      BY <1>7, UpdateFacts DEF ConfirmsAreTrue
    <2> QED
      BY <1>7, <2>1, UpdateTouches
  <1>8. ASSUME NEW c \in Confirms, NEW p \in Products, Pick(c, p)
        PROVE  UNCHANGED <<row, vendor>>
    BY <1>8 DEF Pick
  <1>9. ASSUME NEW k \in Jobs, NEW p \in Products, StartJob(k, p)
        PROVE  UNCHANGED <<row, vendor>>
    BY <1>9 DEF StartJob
  <1>10. ASSUME NEW k \in Jobs, Crawl(k) \/ JobWrites(k)
         PROVE  UNCHANGED <<row, vendor>> \/ \E p \in Products : Touched(p)
    <2>1. Crawl(k) => UNCHANGED <<row, vendor>>
      BY DEF Crawl
    <2> QED
      BY <1>10, <2>1, JobTouches
  <1>11. ASSUME NEW p \in Products, Edits(p) \/ Changes(p)
         PROVE  Touched(p)
    BY <1>11, EditTouches
  <1> QED
    BY Steps, <1>1, <1>2, <1>3, <1>4, <1>5, <1>6, <1>7, <1>8, <1>9, <1>10, <1>11

\* A run that knows what it knew.
Kept(r) ==
    /\ run'[r].todo = run[r].todo /\ run'[r].begun = run[r].begun /\ run'[r].base = run[r].base
    /\ run'[r].plan = run[r].plan /\ run[r].doubt \subseteq run'[r].doubt
    /\ \/ run'[r].step = run[r].step
       \/ run[r].step = "work" /\ run[r].todo = {} /\ run'[r].step = "publish"
       \/ run[r].step = "publish" /\ run'[r].step = "save" /\ Publish(r)
       \/ run[r].step = "save" /\ run'[r].step = "done" /\ Save(r)
       \/ run[r].step = "save" /\ run'[r].step = "unsaved"
\* A thread of a discovery that comes or goes.
Turns(r) ==
    /\ run[r].step = "new" \/ Discovering(r)
    /\ run'[r].step \in {"scan", "cancelled", "failed", "gone"}
    /\ run'[r].todo = {} /\ run'[r].begun = {}

\* A restart keeps or turns every run.
LEMMA RestartKeeps ==
  ASSUME TypeOK, StopsAreSeen, Restart, NEW r \in Runs
  PROVE  Kept(r) \/ Turns(r)
  <1>1. \/ Discovering(r) /\ run'[r] = Ended("gone")
        \/ /\ ~ Discovering(r) /\ run'[r].todo = run[r].todo /\ run'[r].begun = run[r].begun
           /\ run'[r].base = run[r].base /\ run'[r].plan = run[r].plan
           /\ run'[r].doubt = run[r].doubt
           /\ run'[r].step = IF run[r].step = "save" THEN "unsaved" ELSE run[r].step
    BY RestartFacts
  <1> QED
    BY <1>1, EndedFacts DEF Kept, Turns

\* What any step does to a given run.
LEMMA Moves ==
  ASSUME TypeOK, StopsAreSeen, ConfirmsAreTrue, JobsAreTrue, Next, NEW r \in Runs
  PROVE  \/ Kept(r)
         \/ Turns(r)
         \/ Scan(r)
         \/ \E p \in Products : Begin(r, p) \/ Answers(r, p)
  <1>1. run' = run => Kept(r)
    BY DEF Kept
  <1>2. ASSUME NEW q \in Runs, StartDiscover(q)
        PROVE  Kept(r) \/ Turns(r)
    BY <1>2, StartFacts DEF Kept, Turns, Alike
  <1>3. ASSUME NEW q \in Runs, Scan(q)
        PROVE  Kept(r) \/ Scan(r)
    BY <1>3, ScanFacts DEF Kept
  <1>4. ASSUME NEW q \in Runs, Publish(q) \/ Save(q)
        PROVE  Kept(r)
    <2>1. CASE Publish(q)
      <3>1. run[q].step = "publish" /\ run' = [run EXCEPT ![q].step = "save"]
        BY <2>1 DEF Publish
      <3> QED
        BY <2>1, <3>1, NextStepFacts DEF Kept
    <2>2. CASE Save(q)
      <3>1. run[q].step = "save" /\ run' = [run EXCEPT ![q].step = "done"]
        BY <2>2 DEF Save
      <3> QED
        BY <2>2, <3>1, NextStepFacts DEF Kept
    <2> QED
      BY <1>4, <2>1, <2>2
  <1>5. ASSUME NEW q \in Runs, Ends(q)
        PROVE  Kept(r) \/ Turns(r)
    BY <1>5, EndsFacts DEF Kept, Turns
  <1>6. ASSUME NEW q \in Runs, NEW p \in Products, Begin(q, p)
        PROVE  Kept(r) \/ Begin(r, p)
    BY <1>6, BeginFacts DEF Kept
  <1>7. ASSUME NEW q \in Runs, NEW p \in Products, Answers(q, p)
        PROVE  Kept(r) \/ Answers(r, p)
    <2>1. CASE q # r
      <3>1. run'[r] = run[r]
        BY <1>7, <2>1, AnswerMoves
      <3> QED
        BY <3>1 DEF Kept
    <2> QED
      BY <1>7, <2>1
  <1>8. Cancel => Kept(r)
    BY CancelFacts DEF Kept, Alike
  <1>9. Discard => Kept(r)
    BY <1>1 DEF Discard
  <1>10. Restart => Kept(r) \/ Turns(r)
    BY RestartKeeps
  <1>11. ASSUME NEW c \in Confirms, NEW q \in Runs, Confirm(c, q)
         PROVE  Kept(r)
    BY <1>1, <1>11 DEF Confirm
  <1>12. ASSUME NEW c \in Confirms,
                CheckSession(c) \/ ConfirmFails(c) \/ ConfirmEnds(c) \/ ClearFile(c)
         PROVE  Kept(r)
    BY <1>1, <1>12 DEF CheckSession, ConfirmFails, ConfirmEnds, ClearFile
  <1>13. ASSUME NEW c \in Confirms, Reset(c)
         PROVE  Kept(r)
    BY <1>13, ResetFacts DEF Kept, Alike
  <1>14. ASSUME NEW p \in Products, Touched(p)
         PROVE  Kept(r)
    BY <1>14, DoubtFacts DEF Touched, Kept, Alike
  <1>15. ASSUME NEW c \in Confirms, Write(c)
         PROVE  Kept(r)
    <2>1. confirm[c].product \in Products /\ confirm[c].of \in Runs
      BY <1>15, WriteFacts DEF ConfirmsAreTrue
    <2> QED
      BY <1>14, <1>15, <2>1, WriteTouches
  <1>16. ASSUME NEW c \in Confirms, NEW p \in Products, UpdateProduct(c, p) \/ Pick(c, p)
         PROVE  Kept(r)
    <2>1. CASE UpdateProduct(c, p)
      <3>1. confirm[c].of \in Runs
        BY <2>1, UpdateFacts DEF ConfirmsAreTrue
      <3> QED
        BY <1>14, <2>1, <3>1, UpdateTouches
    <2>2. CASE Pick(c, p)
      BY <1>1, <2>2 DEF Pick
    <2> QED
      BY <1>16, <2>1, <2>2
  <1>17. ASSUME NEW k \in Jobs, NEW p \in Products, StartJob(k, p)
         PROVE  Kept(r)
    BY <1>1, <1>17 DEF StartJob
  <1>18. ASSUME NEW k \in Jobs, Crawl(k) \/ JobWrites(k)
         PROVE  Kept(r)
    <2>1. Crawl(k) => run' = run
      BY DEF Crawl
    <2>2. JobWrites(k) => run' = run \/ \E p \in Products : Touched(p)
      BY JobTouches
    <2> QED
      BY <1>1, <1>14, <1>18, <2>1, <2>2
  <1>19. ASSUME NEW p \in Products, Edits(p) \/ Changes(p)
         PROVE  Kept(r)
    BY <1>14, <1>19, EditTouches
  <1>20. ASSUME NEW q \in Runs, Passes(q)
         PROVE  Kept(r)
    <2>1. CASE q # r
      <3>1. run'[r] = run[r]
        BY <1>20, <2>1, PassFacts
      <3> QED
        BY <3>1 DEF Kept
    <2>2. CASE q = r
      BY <1>20, <2>2, PassFacts DEF Kept
    <2> QED
      BY <2>1, <2>2
  <1> QED
    BY Steps, <1>2, <1>3, <1>4, <1>5, <1>6, <1>7, <1>8, <1>9, <1>10, <1>11, <1>12, <1>13, <1>15,
       <1>16, <1>17, <1>18, <1>19, <1>20

-----------------------------------------------------------------------------
(* Types *)

\* The hypotheses of a step.
Ready == /\ TypeOK /\ StopsAreSeen /\ ConfirmsAreTrue /\ JobsAreTrue /\ Next

\* A write touches a product.
LEMMA WriteIsTouch ==
  ASSUME Ready, NEW c \in Confirms, Write(c)
  PROVE  \E p \in Products : Touched(p)
  <1>1. confirm[c].product \in Products /\ confirm[c].of \in Runs
    BY WriteFacts DEF ConfirmsAreTrue, Ready
  <1> QED
    BY <1>1, WriteTouches DEF Ready

\* So does an update.
LEMMA UpdateIsTouch ==
  ASSUME Ready, NEW c \in Confirms, NEW p \in Products, UpdateProduct(c, p)
  PROVE  Touched(p)
  <1>1. confirm[c].of \in Runs
    BY UpdateFacts DEF ConfirmsAreTrue, Ready
  <1> QED
    BY <1>1, UpdateTouches DEF Ready

\* Every step keeps the types of the runs,
LEMMA TypeRuns ==
  ASSUME Ready
  PROVE  /\ run' \in [Runs -> RunStates]
         /\ \A r \in Runs : /\ run'[r].begun \subseteq run'[r].todo
                            /\ run'[r].todo # {} => run'[r].step = "work"
  <1> USE DEF Ready
  <1>1. run' \in [Runs -> RunStates]
    <2>1. ASSUME NEW r \in Runs, StartDiscover(r) \/ Scan(r) \/ Ends(r) \/ Passes(r)
          PROVE  run' \in [Runs -> RunStates]
      BY <2>1, StartFacts, ScanFacts, EndsFacts, PassFacts
    <2>2. ASSUME NEW r \in Runs, Publish(r) \/ Save(r)
          PROVE  run' \in [Runs -> RunStates]
      <3>1. run' = [run EXCEPT ![r].step = "save"] \/ run' = [run EXCEPT ![r].step = "done"]
        BY <2>2 DEF Publish, Save
      <3> QED
        BY <3>1, NextStepFacts
    <2>3. ASSUME NEW r \in Runs, NEW p \in Products, Begin(r, p) \/ Answers(r, p)
          PROVE  run' \in [Runs -> RunStates]
      BY <2>3, BeginFacts, AnswerMoves
    <2>4. Cancel \/ Restart => run' \in [Runs -> RunStates]
      BY CancelFacts, RestartFacts
    <2>5. run' = run => run' \in [Runs -> RunStates]
      BY DEF TypeOK
    <2>6. Discard => run' = run
      BY DEF Discard
    <2>7. ASSUME NEW c \in Confirms, NEW r \in Runs, Confirm(c, r)
          PROVE  run' = run
      BY <2>7 DEF Confirm
    <2>8. ASSUME NEW c \in Confirms, CheckSession(c) \/ ConfirmFails(c) \/ ConfirmEnds(c) \/ ClearFile(c)
          PROVE  run' = run
      BY <2>8 DEF CheckSession, ConfirmFails, ConfirmEnds, ClearFile
    <2>9. ASSUME NEW c \in Confirms, Reset(c)
          PROVE  run' \in [Runs -> RunStates]
      BY <2>9, ResetFacts
    <2>10. ASSUME NEW p \in Products, Touched(p)
           PROVE  run' \in [Runs -> RunStates]
      BY <2>10, DoubtFacts DEF Touched
    <2>11. ASSUME NEW c \in Confirms, NEW p \in Products, Pick(c, p)
           PROVE  run' = run
      BY <2>11 DEF Pick
    <2>12. ASSUME NEW k \in Jobs, NEW p \in Products, StartJob(k, p)
           PROVE  run' = run
      BY <2>12 DEF StartJob
    <2>13. ASSUME NEW k \in Jobs, Crawl(k) \/ JobWrites(k)
           PROVE  run' = run \/ \E p \in Products : Touched(p)
      BY <2>13, JobTouches DEF Crawl
    <2> QED
      BY Steps, <2>1, <2>2, <2>3, <2>4, <2>5, <2>6, <2>7, <2>8, <2>9, <2>10, <2>11, <2>12, <2>13,
         WriteIsTouch, UpdateIsTouch, EditTouches
  <1>2. ASSUME NEW r \in Runs
        PROVE  run'[r].begun \subseteq run'[r].todo /\ (run'[r].todo # {} => run'[r].step = "work")
    <2>1. run[r].begun \subseteq run[r].todo /\ (run[r].todo # {} => run[r].step = "work")
      BY Typed
    <2>2. CASE Kept(r)
      BY <2>1, <2>2 DEF Kept
    <2>3. CASE Turns(r)
      BY <2>3 DEF Turns
    <2>4. CASE Scan(r)
      <3>1. Both # {} => Listed # {}
        BY DEF Both, There, Listed
      <3> QED
        BY <2>4, <3>1, ScanFacts
    <2>5. ASSUME NEW p \in Products, Begin(r, p)
          PROVE  run'[r].begun \subseteq run'[r].todo /\ (run'[r].todo # {} => run'[r].step = "work")
      BY <2>1, <2>5, BeginFacts
    <2>6. ASSUME NEW p \in Products, Answers(r, p)
          PROVE  run'[r].begun \subseteq run'[r].todo /\ (run'[r].todo # {} => run'[r].step = "work")
      BY <2>1, <2>6, AnswerMoves
    <2> QED
      BY <2>2, <2>3, <2>4, <2>5, <2>6, Moves
  <1> QED
    BY <1>1, <1>2

\* those of the confirmations,
LEMMA TypeConfirms ==
  ASSUME Ready
  PROVE  confirm' \in [Confirms -> ConfirmStates]
  <1> USE DEF Ready
  <1>1. confirm' = confirm => confirm' \in [Confirms -> ConfirmStates]
    BY DEF TypeOK
  <1>2. ASSUME NEW r \in Runs, StartDiscover(r) \/ Scan(r) \/ Publish(r) \/ Save(r) \/ Ends(r) \/ Passes(r)
        PROVE  confirm' = confirm
    BY <1>2 DEF StartDiscover, Scan, Publish, Save, Ends, Fails, Passes, OnlyNew, GivesUp, Worked
  <1>3. ASSUME NEW r \in Runs, NEW p \in Products, Begin(r, p) \/ Answers(r, p)
        PROVE  confirm' = confirm
    BY <1>3 DEF Begin, Answers, GivesUp, Worked
  <1>4. Cancel \/ Discard => confirm' = confirm
    BY DEF Cancel, Discard
  <1>5. ASSUME NEW c \in Confirms, NEW r \in Runs, Confirm(c, r)
        PROVE  confirm' \in [Confirms -> ConfirmStates]
    BY <1>5, ConfirmFacts
  <1>6. ASSUME NEW c \in Confirms,
               CheckSession(c) \/ ConfirmFails(c) \/ ConfirmEnds(c) \/ ClearFile(c) \/ Reset(c) \/ Write(c)
        PROVE  confirm' \in [Confirms -> ConfirmStates]
    BY <1>6, CheckFacts, ThrowFacts, EndFacts, WriteFacts DEF GoesOn
  <1>7. ASSUME NEW c \in Confirms, NEW p \in Products, UpdateProduct(c, p) \/ Pick(c, p)
        PROVE  confirm' \in [Confirms -> ConfirmStates]
    BY <1>7, UpdateFacts, PickFacts DEF GoesOn
  <1>8. ASSUME NEW k \in Jobs, NEW p \in Products, StartJob(k, p)
        PROVE  confirm' = confirm
    BY <1>8 DEF StartJob
  <1>9. ASSUME NEW k \in Jobs, Crawl(k) \/ JobWrites(k)
        PROVE  confirm' = confirm
    BY <1>9 DEF Crawl, JobWrites
  <1> QED
    BY Steps, <1>1, <1>2, <1>3, <1>4, <1>5, <1>6, <1>7, <1>8, <1>9, EditTouches, RestartFacts

\* those of the jobs,
LEMMA TypeJobs ==
  ASSUME Ready
  PROVE  job' \in [Jobs -> JobStates]
  <1> USE DEF Ready
  <1>1. job' = job => job' \in [Jobs -> JobStates]
    BY DEF TypeOK
  <1>2. ASSUME NEW r \in Runs, StartDiscover(r) \/ Scan(r) \/ Publish(r) \/ Save(r) \/ Ends(r) \/ Passes(r)
        PROVE  job' = job
    BY <1>2 DEF StartDiscover, Scan, Publish, Save, Ends, Fails, Passes, OnlyNew, GivesUp, Worked
  <1>3. ASSUME NEW r \in Runs, NEW p \in Products, Begin(r, p) \/ Answers(r, p)
        PROVE  job' = job
    BY <1>3 DEF Begin, Answers, GivesUp, Worked
  <1>4. Cancel \/ Discard => job' = job
    BY DEF Cancel, Discard
  <1>5. ASSUME NEW c \in Confirms, NEW r \in Runs, Confirm(c, r)
        PROVE  job' = job
    BY <1>5 DEF Confirm
  <1>6. ASSUME NEW c \in Confirms,
               CheckSession(c) \/ ConfirmFails(c) \/ ConfirmEnds(c) \/ ClearFile(c) \/ Reset(c)
        PROVE  job' = job
    BY <1>6 DEF CheckSession, ConfirmFails, ConfirmEnds, ClearFile, Reset
  <1>7. ASSUME NEW p \in Products, Touched(p)
        PROVE  job' \in [Jobs -> JobStates]
    BY <1>7 DEF Touched
  <1>8. ASSUME NEW c \in Confirms, NEW p \in Products, Pick(c, p)
        PROVE  job' = job
    BY <1>8 DEF Pick
  <1>9. ASSUME NEW k \in Jobs, NEW p \in Products, StartJob(k, p)
        PROVE  job' \in [Jobs -> JobStates]
    BY <1>9, StartJobFacts
  <1>10. ASSUME NEW k \in Jobs, Crawl(k) \/ JobWrites(k)
         PROVE  job' \in [Jobs -> JobStates]
    BY <1>7, <1>10, CrawlFacts, JobTouches
  <1> QED
    BY Steps, <1>1, <1>2, <1>3, <1>4, <1>5, <1>6, <1>7, <1>8, <1>9, <1>10, EditTouches,
       RestartFacts, WriteIsTouch, UpdateIsTouch

\* The steps that leave the flags, the results and the threads' kind of work alone.
QuietRuns == \A r \in Runs : /\ Discovering(r)' <=> Discovering(r)
                             /\ run'[r].step = "done" <=> run[r].step = "done"
QuietConfirms == \A c \in Confirms : /\ Applies(c)' <=> Applies(c)
                                     /\ confirm'[c].step = "reset" <=> confirm[c].step = "reset"
                                     /\ confirm'[c].of = confirm[c].of
Quiet == /\ SameState /\ UNCHANGED <<pending, applying, closed, swept, masked>>
         /\ upsets' \in 0..MaxUpsets /\ QuietRuns /\ QuietConfirms
Loud == \/ \E r \in Runs : StartDiscover(r) \/ Publish(r) \/ Save(r) \/ Ends(r)
        \/ Cancel \/ Discard \/ Restart
        \/ \E c \in Confirms, r \in Runs : Confirm(c, r)
        \/ \E c \in Confirms : ConfirmFails(c) \/ ConfirmEnds(c) \/ ClearFile(c) \/ Reset(c)

\* Runs and confirmations that stay are quiet.
LEMMA QuietFacts ==
  /\ run' = run => QuietRuns
  /\ confirm' = confirm => QuietConfirms
  BY DEF QuietRuns, QuietConfirms, Discovering, Applies

\* So is a confirmation that goes on applying.
LEMMA GoesOnQuietly ==
  ASSUME NEW c \in Confirms, NEW steps, GoesOn(c, steps),
         steps \subseteq {"products", "pick", "write", "end"}, Applies(c)
  PROVE  QuietConfirms
  BY DEF GoesOn, QuietConfirms, Applies

\* A step is quiet, or one of the few that change a flag or what it stands for.
LEMMA QuietSteps ==
  ASSUME Ready
  PROVE  Quiet \/ Loud
  <1> USE DEF Ready
  <1>1. upsets' = upsets => upsets' \in 0..MaxUpsets
    BY UpsetFacts
  <1>0. state' = state => SameState
    BY StateStays
  <1>2. ASSUME NEW r \in Runs, Scan(r)
        PROVE  Quiet
    <2>1. QuietRuns
      BY <1>2, ScanFacts DEF QuietRuns, Discovering
    <2> QED
      BY <1>0, <1>1, <1>2, <2>1, ScanFacts, QuietFacts DEF Quiet
  <1>13. ASSUME NEW r \in Runs, Passes(r)
         PROVE  Quiet
    <2>1. QuietRuns
      BY <1>13, PassFacts DEF QuietRuns, Discovering
    <2> QED
      BY <1>0, <1>1, <1>13, <2>1, PassFacts, QuietFacts DEF Quiet
  <1>3. ASSUME NEW r \in Runs, NEW p \in Products, Begin(r, p)
        PROVE  Quiet
    <2>1. QuietRuns
      BY <1>3, BeginFacts DEF QuietRuns, Discovering
    <2> QED
      BY <1>0, <1>1, <1>3, <2>1, BeginFacts, QuietFacts DEF Quiet
  <1>4. ASSUME NEW r \in Runs, NEW p \in Products, Answers(r, p)
        PROVE  Quiet
    <2>1. QuietRuns
      <3>1. run[r].step = "work" /\ run'[r].step \in {"publish", "work"}
        BY <1>4, AnswerFacts, AnswerMoves
      <3>2. \A q \in Runs \ {r} : run'[q] = run[q]
        BY <1>4, AnswerMoves
      <3> QED
        BY <3>1, <3>2 DEF QuietRuns, Discovering
    <2> QED
      BY <1>0, <1>1, <1>4, <2>1, AnswerFacts, QuietFacts DEF Quiet
  <1>5. ASSUME NEW p \in Products, Touched(p)
        PROVE  QuietRuns
    BY <1>5, DoubtFacts DEF Touched, QuietRuns, Discovering, Alike
  <1>6. ASSUME NEW c \in Confirms, CheckSession(c)
        PROVE  Quiet
    <2>1. QuietConfirms
      BY <1>6, CheckFacts, GoesOnQuietly DEF Applies
    <2> QED
      BY <1>0, <1>1, <1>6, <2>1, QuietFacts DEF Quiet, CheckSession
  <1>7. ASSUME NEW c \in Confirms, NEW p \in Products, Pick(c, p)
        PROVE  Quiet
    <2>1. QuietConfirms
      BY <1>7, PickFacts, GoesOnQuietly DEF Applies
    <2> QED
      BY <1>0, <1>1, <1>7, <2>1, QuietFacts DEF Quiet, Pick
  <1>8. ASSUME NEW c \in Confirms, NEW p \in Products, UpdateProduct(c, p)
        PROVE  Quiet
    <2>1. QuietConfirms
      BY <1>8, UpdateFacts, GoesOnQuietly DEF Applies
    <2> QED
      BY <1>0, <1>5, <1>8, <2>1, UpdateIsTouch DEF Quiet, Touched
  <1>9. ASSUME NEW c \in Confirms, Write(c)
        PROVE  Quiet
    <2>1. QuietConfirms
      BY <1>9, WriteFacts, GoesOnQuietly DEF Applies
    <2> QED
      BY <1>0, <1>5, <1>9, <2>1, WriteIsTouch DEF Quiet, Touched
  <1>10. ASSUME NEW k \in Jobs, NEW p \in Products, StartJob(k, p)
         PROVE  Quiet
    BY <1>0, <1>10, StartJobFacts, QuietFacts DEF Quiet
  <1>11. ASSUME NEW k \in Jobs, Crawl(k) \/ JobWrites(k)
         PROVE  Quiet
    <2>1. Crawl(k) => Quiet
      BY <1>0, CrawlFacts, QuietFacts DEF Quiet
    <2>2. CASE JobWrites(k)
      <3>1. confirm' = confirm
        BY <2>2, JobTouches
      <3>2. (\E p \in Products : Touched(p))
            \/ UNCHANGED <<run, state, pending, applying, closed, swept, masked, upsets>>
        BY <2>2, JobTouches
      <3> QED
        BY <1>0, <1>1, <1>5, <3>1, <3>2, QuietFacts DEF Quiet, Touched
    <2> QED
      BY <1>11, <2>1, <2>2
  <1>12. ASSUME NEW p \in Products, Edits(p) \/ Changes(p)
         PROVE  Quiet
    BY <1>0, <1>5, <1>12, EditTouches, QuietFacts DEF Quiet, Touched
  <1> QED
    BY Steps, <1>2, <1>3, <1>4, <1>6, <1>7, <1>8, <1>9, <1>10, <1>11, <1>12, <1>13 DEF Loud

\* those of the flags,
LEMMA TypeFlags ==
  ASSUME Ready
  PROVE  /\ state' \in [active : BOOLEAN, result : 0..MaxRuns, cancel : BOOLEAN, workers : BOOLEAN]
         /\ pending' \in 0..MaxRuns /\ applying' \in BOOLEAN
         /\ masked' \subseteq {"run", "confirm", "left"} /\ upsets' \in 0..MaxUpsets
         /\ closed' \subseteq Runs /\ swept' \subseteq Runs
  <1> USE DEF Ready
  <1> DEFINE States == [active : BOOLEAN, result : 0..MaxRuns, cancel : BOOLEAN, workers : BOOLEAN]
             Goal == /\ state' \in States /\ pending' \in 0..MaxRuns /\ applying' \in BOOLEAN
                     /\ masked' \subseteq {"run", "confirm", "left"} /\ upsets' \in 0..MaxUpsets
                     /\ closed' \subseteq Runs /\ swept' \subseteq Runs
  <1>1. /\ state \in States /\ pending \in 0..MaxRuns /\ applying \in BOOLEAN
        /\ masked \subseteq {"run", "confirm", "left"} /\ upsets \in 0..MaxUpsets
        /\ closed \subseteq Runs /\ swept \subseteq Runs
        /\ state.result \in 0..MaxRuns
    BY DEF TypeOK
  <1>2. 0 \in 0..MaxRuns /\ Runs \subseteq 0..MaxRuns /\ NoState \in States
        /\ \A x \in 0..MaxRuns : x # 0 => x \in Runs
    BY DiscoveryAssumption DEF NoState, Runs
  <1>3. \A x, y : x \in 0..MaxRuns => ({x} \ {0, y}) \subseteq Runs
    BY <1>2
  <1>4. \A x, y, z : x \in 0..MaxRuns => ({x} \ {0, y, z}) \subseteq Runs
    BY <1>2
  <1>5. \A x, y : x \in 0..MaxRuns /\ y \in 0..MaxRuns => ({x, y} \ {0}) \subseteq Runs
    BY <1>2
  <1>6. /\ upsets' = upsets => upsets' \in 0..MaxUpsets
        /\ Upset => upsets' \in 0..MaxUpsets
    BY UpsetFacts
  <1>7. /\ \A r \in Runs : Unmasked(r) => masked' \subseteq {"run", "confirm", "left"}
        /\ \A c \in Confirms : MaskedWithout(c) \subseteq {"run", "confirm", "left"}
        /\ \A flags \in SUBSET {"run", "confirm"}, already \in SUBSET masked :
              MaskedBy(flags, already) => masked' \subseteq {"run", "confirm", "left"}
    BY <1>1 DEF Unmasked, MaskedWithout, MaskedBy
  <1>8. Quiet => Goal
    BY <1>1 DEF Quiet, SameState
  <1>9. ASSUME NEW r \in Runs, StartDiscover(r)
        PROVE  Goal
    <2>1. /\ state' = [active |-> TRUE, result |-> 0, cancel |-> FALSE, workers |-> FALSE]
          /\ pending' = pending
          /\ swept' = swept \cup ({state.result} \ {0, pending})
          /\ UNCHANGED <<applying, closed, masked, upsets>>
      BY <1>9 DEF StartDiscover, KeptFile, NoState
    <2>2. state' \in States
      BY <1>2, <2>1
    <2> QED
      BY <1>1, <1>3, <1>6, <2>1, <2>2
  <1>10. ASSUME NEW r \in Runs, Publish(r)
         PROVE  Goal
    <2>1. /\ state' = [state EXCEPT !.active = FALSE, !.result = r]
          /\ swept' = swept \cup ({state.result} \ {0, pending})
          /\ Unmasked(r) /\ UNCHANGED <<pending, applying, closed, upsets>>
      BY <1>10 DEF Publish
    <2>2. state' \in States
      BY <1>1, <1>2, <2>1
    <2> QED
      BY <1>1, <1>3, <1>6, <1>7, <2>1, <2>2
  <1>11. ASSUME NEW r \in Runs, Save(r)
         PROVE  Goal
    <2>1. /\ pending' = r /\ swept' = swept \cup ({pending} \ {0, state.result})
          /\ UNCHANGED <<state, applying, closed, masked, upsets>>
      BY <1>11 DEF Save
    <2> QED
      BY <1>1, <1>2, <1>3, <1>6, <2>1
  <1>12. ASSUME NEW r \in Runs, Ends(r)
         PROVE  Goal
    <2>1. /\ state' \in States /\ Unmasked(r) /\ upsets' \in 0..MaxUpsets
          /\ \/ pending' = pending /\ swept' = swept
             \/ pending' = 0 /\ swept' = swept \cup ({state.result, pending} \ {0})
          /\ UNCHANGED <<applying, closed>>
      BY <1>12, EndsFacts
    <2> QED
      BY <1>1, <1>2, <1>5, <1>7, <2>1
  <1>13. Cancel => Goal
    <2>1. Cancel => /\ state' \in States /\ upsets' \in 0..MaxUpsets
                    /\ UNCHANGED <<pending, applying, closed, swept, masked>>
      BY CancelFacts
    <2> QED
      BY <1>1, <2>1
  <1>14. ASSUME Discard
         PROVE  Goal
    <2>1. /\ pending' = 0 /\ state' = [state EXCEPT !.active = FALSE, !.result = 0]
          /\ applying' = FALSE /\ MaskedBy({"run", "confirm"}, masked \ {"left"})
          /\ Upset /\ swept' = swept
          /\ closed' \subseteq closed \cup Runs
      BY <1>14 DEF Discard, Dropped
    <2>2. state' \in States
      BY <1>1, <1>2, <2>1
    <2>3. masked' \subseteq {"run", "confirm", "left"}
      <3>1. {"run", "confirm"} \in SUBSET {"run", "confirm"} /\ masked \ {"left"} \in SUBSET masked
        OBVIOUS
      <3> QED
        BY <1>7, <2>1, <3>1
    <2>4. upsets' \in 0..MaxUpsets /\ closed' \subseteq Runs
      BY <1>1, <1>6, <2>1
    <2> QED
      BY <1>1, <1>2, <2>1, <2>2, <2>3, <2>4
  <1>15. ASSUME Restart
         PROVE  Goal
    <2>1. /\ state' = [NoState EXCEPT !.result = pending] /\ applying' = FALSE /\ masked' = {}
          /\ Upset /\ swept' = swept \cup ({state.result} \ {0, pending})
          /\ closed' \subseteq closed \cup Runs /\ pending' = pending
      BY <1>15 DEF Restart
    <2>2. state' \in States
      BY <1>1, <1>2, <2>1
    <2> QED
      BY <1>1, <1>3, <1>6, <2>1, <2>2
  <1>16. ASSUME NEW c \in Confirms, NEW r \in Runs, Confirm(c, r)
         PROVE  Goal
    <2>1. applying' = TRUE /\ UNCHANGED <<state, pending, closed, swept, masked, upsets>>
      BY <1>16, ConfirmFacts
    <2> QED
      BY <1>1, <1>6, <2>1
  <1>17. ASSUME NEW c \in Confirms, ConfirmFails(c) \/ ConfirmEnds(c)
         PROVE  Goal
    <2>1. /\ applying' \in {applying, FALSE} /\ masked' \subseteq MaskedWithout(c) \cup {"left"}
          /\ upsets' \in 0..MaxUpsets /\ UNCHANGED <<state, pending, closed, swept>>
      BY <1>6, <1>17 DEF ConfirmFails, ConfirmEnds
    <2> QED
      BY <1>1, <1>7, <2>1
  <1>18. ASSUME NEW c \in Confirms, ClearFile(c)
         PROVE  Goal
    <2>1. /\ pending' = 0 /\ swept' = swept \cup ({pending} \ {0, state.result, confirm[c].of})
          /\ UNCHANGED <<state, applying, closed, masked, upsets>>
      BY <1>18 DEF ClearFile
    <2>2. ({pending} \ {0, state.result, confirm[c].of}) \subseteq Runs
      BY <1>1, <1>4
    <2>3. swept' \subseteq Runs /\ pending' \in 0..MaxRuns
      BY <1>1, <1>2, <2>1, <2>2
    <2> QED
      BY <1>1, <1>6, <2>1, <2>3
  <1>19. ASSUME NEW c \in Confirms, Reset(c)
         PROVE  Goal
    <2>1. /\ state' = NoState /\ MaskedBy({"run"}, masked)
          /\ closed' = closed \cup {r \in {confirm[c].of} : run[r].step = "done" /\ pending # r}
          /\ swept' = swept \cup ({state.result} \ {0, pending, confirm[c].of})
          /\ UNCHANGED <<pending, applying, upsets>>
      BY <1>19 DEF Reset, Cleared
    <2>2. confirm[c].of \in Runs
      BY <1>19 DEF Reset, ConfirmsAreTrue
    <2>3. closed' \subseteq Runs
      BY <1>1, <2>1, <2>2
    <2>4. masked' \subseteq {"run", "confirm", "left"}
      BY <1>7, <2>1
    <2>5. swept' \subseteq Runs
      <3>1. state.result \in 0..MaxRuns
        BY <1>1
      <3>2. ({state.result} \ {0, pending, confirm[c].of}) \subseteq Runs
        BY <1>4, <3>1, Zenon
      <3> QED
        BY <1>1, <2>1, <3>2
    <2>6. state' \in States /\ upsets' \in 0..MaxUpsets /\ pending' \in 0..MaxRuns /\ applying' \in BOOLEAN
      BY <1>1, <1>2, <1>6, <2>1
    <2> QED
      BY <2>3, <2>4, <2>5, <2>6
  <1> HIDE DEF States
  <1>20. Goal
    BY QuietSteps, <1>8, <1>9, <1>10, <1>11, <1>12, <1>13, <1>14, <1>15, <1>16, <1>17, <1>18, <1>19
       DEF Loud
  <1> QED
    BY <1>20 DEF States

\* Who can be sure of what he writes.
LEMMA SureSteps ==
  ASSUME Next
  PROVE  \/ sure' = {}
         \/ \E c \in Confirms, p \in Products : UpdateProduct(c, p)
         \/ \E c \in Confirms : Write(c)
         \/ \E k \in Jobs : JobWrites(k)
  <1>1. ASSUME NEW r \in Runs, StartDiscover(r) \/ Scan(r) \/ Publish(r) \/ Save(r) \/ Ends(r) \/ Passes(r)
        PROVE  sure' = {}
    BY <1>1 DEF StartDiscover, Scan, Publish, Save, Ends, Fails, Passes, OnlyNew, GivesUp, Worked
  <1>2. ASSUME NEW r \in Runs, NEW p \in Products, Begin(r, p) \/ Answers(r, p)
        PROVE  sure' = {}
    BY <1>2 DEF Begin, Answers, GivesUp, Worked
  <1>3. Cancel \/ Discard \/ Restart => sure' = {}
    BY DEF Cancel, Discard, Restart
  <1>4. ASSUME NEW c \in Confirms, NEW r \in Runs, Confirm(c, r)
        PROVE  sure' = {}
    BY <1>4 DEF Confirm
  <1>5. ASSUME NEW c \in Confirms,
               CheckSession(c) \/ ConfirmFails(c) \/ ConfirmEnds(c) \/ ClearFile(c) \/ Reset(c)
        PROVE  sure' = {}
    BY <1>5 DEF CheckSession, ConfirmFails, ConfirmEnds, ClearFile, Reset
  <1>6. ASSUME NEW c \in Confirms, NEW p \in Products, Pick(c, p)
        PROVE  sure' = {}
    BY <1>6 DEF Pick
  <1>7. ASSUME NEW k \in Jobs, NEW p \in Products, StartJob(k, p)
        PROVE  sure' = {}
    BY <1>7 DEF StartJob
  <1>8. ASSUME NEW k \in Jobs, Crawl(k)
        PROVE  sure' = {}
    BY <1>8 DEF Crawl
  <1>9. ASSUME NEW p \in Products, Edits(p) \/ Changes(p)
        PROVE  sure' = {}
    BY <1>9 DEF Edits, Changes
  <1> QED
    BY Steps, <1>1, <1>2, <1>3, <1>4, <1>5, <1>6, <1>7, <1>8, <1>9

\* and all types.
LEMMA TypeStep ==
  ASSUME Ready
  PROVE  TypeOK'
  <1> USE DEF Ready
  <1>1. /\ vendor' \in [Products -> [url : 0..2, paths : PathSets]]
        /\ row' \in [Products -> Rows]
    <2>1. UNCHANGED <<row, vendor>> \/ \E p \in Products : Touched(p)
      BY Tables
    <2> QED
      BY <2>1 DEF Touched, TypeOK
  <1>2. sure' \subseteq Products
    <2>1. ASSUME NEW c \in Confirms, NEW p \in Products, UpdateProduct(c, p)
          PROVE  sure' \subseteq Products
      BY <2>1 DEF UpdateProduct
    <2>2. ASSUME NEW c \in Confirms, Write(c)
          PROVE  sure' \subseteq Products
      <3>1. confirm[c].product \in Products
        BY <2>2, WriteFacts DEF ConfirmsAreTrue
      <3> QED
        BY <2>2, <3>1 DEF Write, Sure
    <2>3. ASSUME NEW k \in Jobs, JobWrites(k)
          PROVE  sure' \subseteq Products
      BY <2>3, JobTouches DEF Sure
    <2> QED
      BY SureSteps, <2>1, <2>2, <2>3
  <1>3. /\ state' \in [active : BOOLEAN, result : 0..MaxRuns, cancel : BOOLEAN, workers : BOOLEAN]
        /\ pending' \in 0..MaxRuns /\ applying' \in BOOLEAN
        /\ masked' \subseteq {"run", "confirm", "left"} /\ upsets' \in 0..MaxUpsets
        /\ closed' \subseteq Runs /\ swept' \subseteq Runs
    BY TypeFlags
  <1>4. /\ run' \in [Runs -> RunStates]
        /\ \A r \in Runs : /\ run'[r].begun \subseteq run'[r].todo
                           /\ run'[r].todo # {} => run'[r].step = "work"
    BY TypeRuns
  <1>5. confirm' \in [Confirms -> ConfirmStates] /\ job' \in [Jobs -> JobStates]
    BY TypeConfirms, TypeJobs
  <1> QED
    BY <1>1, <1>2, <1>3, <1>4, <1>5 DEF TypeOK

-----------------------------------------------------------------------------
(* The flags tell the threads *)

\* The two halves of FlagsAreTrue.
RunFlag == /\ state.active => \E r \in Runs : Discovering(r)
           /\ "run" \notin masked =>
                 \A r \in Runs : Discovering(r) => /\ state.active
                                                  /\ \A q \in Runs : Discovering(q) => q = r
ConfirmFlag == /\ applying => "left" \in masked \/ \E c \in Confirms : Applies(c)
               /\ "left" \in masked => applying
               /\ "confirm" \notin masked =>
                     \A c \in Confirms : Applies(c) => /\ applying /\ "left" \notin masked
                                                      /\ \A d \in Confirms : Applies(d) => d = c

\* The two flags are separate.
LEMMA FlagHalves == FlagsAreTrue <=> RunFlag /\ ConfirmFlag
  BY DEF FlagsAreTrue, RunFlag, ConfirmFlag

\* Every step keeps the flag of the discovery true,
LEMMA RunFlagStep ==
  ASSUME Ready, RunFlag
  PROVE  RunFlag'
  <1> USE DEF Ready
  <1>1. ASSUME state'.active <=> state.active, masked \cap {"run"} \subseteq masked', QuietRuns
        PROVE  RunFlag'
    BY <1>1 DEF RunFlag, QuietRuns
  <1>2. Quiet => RunFlag'
    BY <1>1 DEF Quiet, SameState
  <1>3. ASSUME NEW r \in Runs, StartDiscover(r)
        PROVE  RunFlag'
    <2>1. ~ state.active /\ state'.active /\ masked' = masked
      BY <1>3 DEF StartDiscover, NoState
    <2>2. Discovering(r)' /\ \A q \in Runs \ {r} : Discovering(q)' <=> Discovering(q)
      BY <1>3, StartFacts DEF Discovering, Alike
    <2>3. "run" \notin masked => \A q \in Runs : ~ Discovering(q)
      BY <2>1 DEF RunFlag
    <2> QED
      BY <2>1, <2>2, <2>3 DEF RunFlag
  <1>4. ASSUME NEW r \in Runs, Discovering(r), ~ state'.active, Unmasked(r), ~ Discovering(r)',
               \A q \in Runs \ {r} : run'[q] = run[q]
        PROVE  RunFlag'
    <2>1. \A q \in Runs \ {r} : Discovering(q)' <=> Discovering(q)
      BY <1>4 DEF Discovering
    <2>2. CASE \E q \in Runs \ {r} : Discovering(q)
      <3>1. "run" \in masked /\ masked' = masked
        BY <1>4, <2>2 DEF RunFlag, Unmasked
      <3> QED
        BY <1>4, <3>1 DEF RunFlag
    <2>3. CASE \A q \in Runs \ {r} : ~ Discovering(q)
      BY <1>4, <2>1, <2>3 DEF RunFlag
    <2> QED
      BY <2>2, <2>3
  <1>5. ASSUME NEW r \in Runs, Publish(r)
        PROVE  RunFlag'
    <2>1. run[r].step = "publish" /\ run' = [run EXCEPT ![r].step = "save"] /\ Unmasked(r)
      BY <1>5 DEF Publish
    <2>2. run'[r].step = "save" /\ \A q \in Runs \ {r} : run'[q] = run[q]
      BY <2>1, NextStepFacts
    <2>3. ~ state'.active
      BY <1>5 DEF Publish, TypeOK
    <2>4. Discovering(r) /\ ~ Discovering(r)'
      BY <2>1, <2>2 DEF Discovering
    <2> QED
      BY <1>4, <2>1, <2>2, <2>3, <2>4
  <1>6. ASSUME NEW r \in Runs, Save(r)
        PROVE  RunFlag'
    <2>1. /\ run[r].step = "save" /\ run' = [run EXCEPT ![r].step = "done"]
          /\ UNCHANGED <<state, masked>>
      BY <1>6 DEF Save
    <2>2. run'[r].step = "done" /\ \A q \in Runs \ {r} : run'[q] = run[q]
      BY <2>1, NextStepFacts
    <2>3. \A q \in Runs : Discovering(q)' <=> Discovering(q)
      BY <2>1, <2>2 DEF Discovering
    <2> QED
      BY <2>1, <2>3 DEF RunFlag
  <1>7. ASSUME NEW r \in Runs, Ends(r)
        PROVE  RunFlag'
    <2>1. run'[r].step \in {"cancelled", "failed"} /\ \A q \in Runs \ {r} : run'[q] = run[q]
      BY <1>7, EndsFacts
    <2>2. Discovering(r) /\ ~ state'.active /\ Unmasked(r)
      BY <1>7, EndsFacts
    <2>3. ~ Discovering(r)'
      BY <2>1 DEF Discovering
    <2> QED
      BY <1>4, <2>1, <2>2, <2>3
  <1>8. ASSUME Cancel
        PROVE  RunFlag'
    <2>1. state'.active <=> state.active
      BY <1>8, CancelFacts
    <2>2. \A q \in Runs : Discovering(q)' <=> Discovering(q)
      BY <1>8, CancelFacts DEF Discovering, Alike
    <2>3. masked' = masked
      BY <1>8, CancelFacts
    <2> QED
      BY <2>1, <2>2, <2>3 DEF RunFlag
  <1>9. ASSUME MaskedBy({"run"}, masked) \/ MaskedBy({"run", "confirm"}, masked \ {"left"}),
               ~ state'.active,
               \A q \in Runs : Discovering(q)' <=> Discovering(q)
        PROVE  RunFlag'
    <2>1. (\E r \in Runs : Discovering(r)) => "run" \in masked'
      BY <1>9 DEF MaskedBy
    <2> QED
      BY <1>9, <2>1 DEF RunFlag
  <1>10. ASSUME Discard
         PROVE  RunFlag'
    <2>1. ~ state'.active
      BY <1>10 DEF Discard, TypeOK
    <2>2. MaskedBy({"run", "confirm"}, masked \ {"left"}) /\ run' = run
      BY <1>10 DEF Discard
    <2> QED
      BY <1>9, <2>1, <2>2 DEF Discovering
  <1>11. ASSUME Restart
         PROVE  RunFlag'
    <2>1. ~ state'.active
      BY <1>11 DEF Restart, NoState
    <2>2. \A r \in Runs : ~ Discovering(r)'
      <3> TAKE r \in Runs
      <3>1. \/ Discovering(r) /\ run'[r].step = "gone"
            \/ ~ Discovering(r) /\ run'[r].step \in {run[r].step, "unsaved"}
        BY <1>11, RestartFacts, EndedFacts
      <3> QED
        BY <3>1 DEF Discovering
    <2> QED
      BY <2>1, <2>2 DEF RunFlag
  <1>12. ASSUME NEW c \in Confirms, NEW r \in Runs, Confirm(c, r)
         PROVE  RunFlag'
    BY <1>1, <1>12, QuietFacts DEF Confirm
  <1>13. ASSUME NEW c \in Confirms, ConfirmFails(c) \/ ConfirmEnds(c) \/ ClearFile(c)
         PROVE  RunFlag'
    <2>1. run' = run /\ state' = state
      BY <1>13 DEF ConfirmFails, ConfirmEnds, ClearFile
    <2>2. masked \cap {"run"} \subseteq masked'
      BY <1>13 DEF ConfirmFails, ConfirmEnds, ClearFile, MaskedWithout
    <2> QED
      BY <1>1, <2>1, <2>2, QuietFacts
  <1>14. ASSUME NEW c \in Confirms, Reset(c)
         PROVE  RunFlag'
    <2>1. ~ state'.active
      BY <1>14, ResetFacts DEF NoState
    <2>2. \A q \in Runs : Discovering(q)' <=> Discovering(q)
      BY <1>14, ResetFacts DEF Discovering, Alike
    <2>3. MaskedBy({"run"}, masked)
      BY <1>14, ResetFacts
    <2> QED
      BY <1>9, <2>1, <2>2, <2>3
  <1> QED
    BY QuietSteps, <1>2, <1>3, <1>5, <1>6, <1>7, <1>8, <1>10, <1>11, <1>12, <1>13, <1>14 DEF Loud

\* and that of the confirmation.
LEMMA ConfirmFlagStep ==
  ASSUME Ready, ConfirmFlag
  PROVE  ConfirmFlag'
  <1> USE DEF Ready
  <1>1. ASSUME applying' <=> applying, masked \cap {"confirm"} \subseteq masked',
               "left" \in masked' <=> "left" \in masked,
               \A c \in Confirms : Applies(c)' <=> Applies(c)
        PROVE  ConfirmFlag'
    BY <1>1 DEF ConfirmFlag
  <1>2. confirm' = confirm => \A c \in Confirms : Applies(c)' <=> Applies(c)
    BY DEF Applies
  <1>3. Quiet => ConfirmFlag'
    BY <1>1 DEF Quiet, QuietConfirms
  <1>4. ASSUME NEW r \in Runs, StartDiscover(r) \/ Publish(r) \/ Save(r) \/ Ends(r)
        PROVE  ConfirmFlag'
    <2>1. UNCHANGED <<confirm, applying>> /\ (UNCHANGED masked \/ Unmasked(r))
      BY <1>4, EndsFacts DEF StartDiscover, Publish, Save
    <2>2. masked \cap {"confirm"} \subseteq masked' /\ ("left" \in masked' <=> "left" \in masked)
      BY <2>1 DEF Unmasked
    <2> QED
      BY <1>1, <1>2, <2>1, <2>2
  <1>5. Cancel => ConfirmFlag'
    BY <1>1, <1>2, CancelFacts
  <1>6. ASSUME Discard
        PROVE  ConfirmFlag'
    <2>1. /\ MaskedBy({"run", "confirm"}, masked \ {"left"}) /\ confirm' = confirm
          /\ applying' = FALSE
      BY <1>6 DEF Discard
    <2>2. ((\E c \in Confirms : Applies(c)) => "confirm" \in masked') /\ "left" \notin masked'
      BY <2>1 DEF MaskedBy
    <2> QED
      BY <1>2, <2>1, <2>2 DEF ConfirmFlag
  <1>7. ASSUME Restart
        PROVE  ConfirmFlag'
    <2>1. ~ applying' /\ masked' = {}
      BY <1>7 DEF Restart
    <2>2. \A c \in Confirms : ~ Applies(c)'
      BY <1>7, RestartFacts DEF Applies
    <2> QED
      BY <2>1, <2>2 DEF ConfirmFlag
  <1>8. ASSUME NEW c \in Confirms, NEW r \in Runs, Confirm(c, r)
        PROVE  ConfirmFlag'
    <2>1. /\ ~ applying /\ applying' /\ masked' = masked
          /\ Applies(c)' /\ \A d \in Confirms \ {c} : Applies(d)' <=> Applies(d)
      BY <1>8, ConfirmFacts DEF Applies
    <2>2. /\ "confirm" \notin masked => \A d \in Confirms : ~ Applies(d)
          /\ "left" \notin masked
      BY <2>1 DEF ConfirmFlag
    <2> QED
      BY <2>1, <2>2 DEF ConfirmFlag
  <1>9. ASSUME NEW c \in Confirms, ConfirmFails(c) \/ ConfirmEnds(c)
        PROVE  ConfirmFlag'
    <2>1. /\ "left" \in masked' <=> applying'
          /\ "confirm" \in masked' <=> "confirm" \in MaskedWithout(c)
      <3>1. CASE ConfirmEnds(c)
        BY <3>1 DEF ConfirmEnds
      <3>2. CASE ConfirmFails(c) /\ applying
        BY <3>2 DEF ConfirmFails
      <3>3. CASE ConfirmFails(c) /\ ~ applying
        BY <3>3 DEF ConfirmFails, ConfirmFlag, MaskedWithout
      <3> QED
        BY <1>9, <3>1, <3>2, <3>3
    <2>2. Applies(c) /\ ~ Applies(c)'
      <3>1. confirm[c].step \in {"products", "pick", "write", "end"}
        BY <1>9 DEF ConfirmFails, ConfirmEnds
      <3>2. confirm'[c].step \in {"failed", "clear"}
        BY <1>9, ThrowFacts, EndFacts DEF GoesOn
      <3> QED
        BY <3>1, <3>2 DEF Applies
    <2>3. \A d \in Confirms \ {c} : confirm'[d] = confirm[d]
      BY <1>9, ThrowFacts, EndFacts DEF GoesOn
    <2>4. \A d \in Confirms \ {c} : Applies(d)' <=> Applies(d)
      BY <2>3 DEF Applies
    <2>5. CASE \E d \in Confirms \ {c} : Applies(d)
      <3>1. "confirm" \in masked /\ "confirm" \in masked'
        BY <2>1, <2>2, <2>5 DEF ConfirmFlag, MaskedWithout
      <3> QED
        BY <2>1, <3>1 DEF ConfirmFlag
    <2>6. CASE \A d \in Confirms \ {c} : ~ Applies(d)
      BY <2>1, <2>2, <2>4, <2>6 DEF ConfirmFlag
    <2> QED
      BY <2>5, <2>6
  <1>10. ASSUME NEW c \in Confirms, ClearFile(c) \/ Reset(c)
         PROVE  ConfirmFlag'
    <2>1. /\ applying' = applying /\ confirm[c].step \in {"clear", "reset"}
          /\ masked' = masked \/ MaskedBy({"run"}, masked)
      BY <1>10 DEF ClearFile, Reset
    <2>2. /\ confirm'[c].step \in {"reset", "done"}
          /\ \A d \in Confirms \ {c} : confirm'[d] = confirm[d]
      BY <1>10, EndFacts DEF GoesOn
    <2>3. \A d \in Confirms : Applies(d)' <=> Applies(d)
      BY <2>1, <2>2 DEF Applies
    <2>4. masked \cap {"confirm"} \subseteq masked' /\ ("left" \in masked' <=> "left" \in masked)
      BY <2>1 DEF MaskedBy
    <2> QED
      BY <1>1, <2>1, <2>3, <2>4
  <1> QED
    BY QuietSteps, <1>3, <1>4, <1>5, <1>6, <1>7, <1>8, <1>9, <1>10 DEF Loud

-----------------------------------------------------------------------------
(* The results *)

\* A run that is done stays so, and gets there by its save.
LEMMA StaysDone ==
  ASSUME Ready, NEW r \in Runs
  PROVE  /\ run[r].step = "done" => run'[r].step = "done"
         /\ run'[r].step = "done" => run[r].step = "done" \/ (run[r].step = "save" /\ Save(r))
  <1> USE DEF Ready
  <1>1. CASE Kept(r)
    BY <1>1 DEF Kept
  <1>2. CASE Turns(r)
    BY <1>2 DEF Turns, Discovering
  <1>3. CASE Scan(r)
    <2>1. run[r].step = "scan" /\ run'[r].step \in {"publish", "work"}
      BY <1>3, ScanFacts
    <2> QED
      BY <2>1
  <1>4. ASSUME NEW p \in Products, Begin(r, p) \/ Answers(r, p)
        PROVE  run[r].step = "work" /\ run'[r].step \in {"publish", "work"}
    BY <1>4, BeginFacts, AnswerFacts, AnswerMoves
  <1> QED
    BY <1>1, <1>2, <1>3, <1>4, Moves

\* A confirmation of r that is about to clear the memory.
Resets(r) == \E c \in Confirms : confirm[c].step = "reset" /\ confirm[c].of = r

\* A finished result stays on offer,
LEMMA OfferedStep ==
  ASSUME Ready, ResultStaysOffered
  PROVE  ResultStaysOffered'
  <1> USE DEF Ready
  <1> SUFFICES ASSUME NEW r \in Runs, run'[r].step = "done", r \notin closed' \cup swept'
               PROVE  Offered(r)' \/ Resets(r)'
    BY DEF ResultStaysOffered, Resets
  <1>0. r # 0
    BY DiscoveryAssumption DEF Runs
  <1>1. run[r].step = "done" \/ (run[r].step = "save" /\ Save(r))
    BY StaysDone
  <1>2. run[r].step = "done" /\ r \notin closed \cup swept => Offered(r) \/ Resets(r)
    BY DEF ResultStaysOffered, Resets
  <1>3. confirm' = confirm => (Resets(r)' <=> Resets(r))
    BY DEF Resets
  <1>4. CASE Save(r)
    BY <1>0, <1>4 DEF Save, Offered
  <1>5. CASE run[r].step = "done"
    <2> USE <1>0, <1>5
    <2>1. CASE Quiet
      <3>1. Resets(r) => Resets(r)'
        BY <2>1 DEF Quiet, QuietConfirms, Resets
      <3> QED
        BY <1>2, <2>1, <3>1 DEF Quiet, SameState, Offered
    <2>2. ASSUME NEW q \in Runs, StartDiscover(q) \/ Publish(q) \/ Save(q) \/ Ends(q)
          PROVE  Offered(r)' \/ Resets(r)'
      <3>1. confirm' = confirm /\ closed' = closed /\ swept \subseteq swept'
        BY <2>2, EndsFacts DEF StartDiscover, Publish, Save
      <3>2. CASE StartDiscover(q)
        <4>1. state'.result = 0 /\ pending' = pending /\ swept' = swept \cup ({state.result} \ {0, pending})
          BY <3>2, StartedFacts DEF StartDiscover, KeptFile
        <4> QED
          BY <1>2, <1>3, <3>1, <4>1 DEF Offered
      <3>3. CASE Publish(q)
        <4>1. pending' = pending /\ swept' = swept \cup ({state.result} \ {0, pending})
          BY <3>3 DEF Publish
        <4> QED
          BY <1>2, <1>3, <3>1, <4>1 DEF Offered
      <3>4. CASE Save(q)
        <4>1. state' = state /\ swept' = swept \cup ({pending} \ {0, state.result})
          BY <3>4 DEF Save
        <4> QED
          BY <1>2, <1>3, <3>1, <4>1 DEF Offered
      <3>5. CASE Ends(q)
        <4>1. \/ state'.result = state.result /\ pending' = pending
              \/ swept' = swept \cup ({state.result, pending} \ {0})
          BY <3>5, EndsFacts
        <4> QED
          BY <1>2, <1>3, <3>1, <4>1 DEF Offered
      <3> QED
        BY <2>2, <3>2, <3>3, <3>4, <3>5
    <2>3. CASE Cancel
      <3>1. state'.result = state.result /\ UNCHANGED <<pending, confirm, closed, swept>>
        BY <2>3, CancelFacts
      <3> QED
        BY <1>2, <1>3, <3>1 DEF Offered
    <2>4. CASE Discard
      <3>1. /\ closed' = closed \cup {q \in Runs : Offered(q) /\ run[q].step = "done"}
            /\ UNCHANGED <<confirm, swept>>
        BY <2>4 DEF Discard
      <3> QED
        BY <1>2, <1>3, <3>1
    <2>5. CASE Restart
      <3>1. /\ state' = [NoState EXCEPT !.result = pending]
            /\ swept' = swept \cup ({state.result} \ {0, pending})
            /\ closed' = closed \cup {q \in Runs : run[q].step = "done" /\ pending # q /\ Resets(q)}
            /\ pending' = pending
        BY <2>5 DEF Restart, Resets
      <3> QED
        BY <1>2, <3>1 DEF Offered
    <2>6. ASSUME NEW c \in Confirms, NEW q \in Runs, Confirm(c, q)
          PROVE  Offered(r)' \/ Resets(r)'
      <3>1. /\ \A d \in Confirms \ {c} : confirm'[d] = confirm[d]
            /\ confirm[c].step = "new" /\ UNCHANGED <<state, pending, closed, swept>>
        BY <2>6, ConfirmFacts
      <3> QED
        BY <1>2, <3>1 DEF Offered, Resets
    <2>7. ASSUME NEW c \in Confirms, ConfirmFails(c) \/ ConfirmEnds(c)
          PROVE  Offered(r)' \/ Resets(r)'
      <3>1. /\ \A d \in Confirms \ {c} : confirm'[d] = confirm[d]
            /\ confirm[c].step # "reset" /\ UNCHANGED <<state, pending, closed, swept>>
        BY <2>7, ThrowFacts, EndFacts DEF GoesOn, ConfirmEnds
      <3> QED
        BY <1>2, <3>1 DEF Offered, Resets
    <2>8. ASSUME NEW c \in Confirms, ClearFile(c)
          PROVE  Offered(r)' \/ Resets(r)'
      <3>1. /\ \A d \in Confirms \ {c} : confirm'[d] = confirm[d]
            /\ confirm'[c].step = "reset" /\ confirm'[c].of = confirm[c].of
        BY <2>8, EndFacts DEF GoesOn
      <3>2. /\ confirm[c].step = "clear" /\ UNCHANGED <<state, closed>>
            /\ swept' = swept \cup ({pending} \ {0, state.result, confirm[c].of})
        BY <2>8 DEF ClearFile
      <3>3. Resets(r) => Resets(r)'
        BY <3>1, <3>2 DEF Resets
      <3>4. confirm[c].of = r => Resets(r)'
        BY <3>1 DEF Resets
      <3> QED
        BY <1>2, <3>2, <3>3, <3>4 DEF Offered
    <2>9. ASSUME NEW c \in Confirms, Reset(c)
          PROVE  Offered(r)' \/ Resets(r)'
      <3>1. \A d \in Confirms \ {c} : confirm'[d] = confirm[d]
        BY <2>9, EndFacts DEF GoesOn
      <3>2. /\ closed' = closed \cup {q \in {confirm[c].of} : run[q].step = "done" /\ pending # q}
            /\ swept' = swept \cup ({state.result} \ {0, pending, confirm[c].of})
            /\ pending' = pending
        BY <2>9 DEF Reset
      <3>3. confirm[c].of = r => pending = r
        BY <3>2
      <3>4. Resets(r) => Resets(r)' \/ confirm[c].of = r
        BY <3>1 DEF Resets
      <3> QED
        BY <1>2, <3>2, <3>3, <3>4 DEF Offered
    <2> QED
      BY QuietSteps, <2>1, <2>2, <2>3, <2>4, <2>5, <2>6, <2>7, <2>8, <2>9 DEF Loud
  <1> QED
    BY <1>1, <1>4, <1>5

\* and a closed one off it.
LEMMA ClosedStep ==
  ASSUME Ready, ClosedStaysClosed, ClosedAreDone
  PROVE  ClosedStaysClosed' /\ ClosedAreDone'
  <1> USE DEF Ready
  <1> SUFFICES ASSUME NEW r \in closed'
               PROVE  ~ Offered(r)' /\ run'[r].step = "done"
    BY DEF ClosedStaysClosed, ClosedAreDone
  <1>0. closed \subseteq Runs /\ closed' \subseteq Runs /\ 0 \notin Runs
    BY TypeFlags, DiscoveryAssumption DEF TypeOK, Runs
  <1>1. r \in closed => ~ Offered(r) /\ run[r].step = "done" /\ run'[r].step = "done"
    BY <1>0, StaysDone DEF ClosedStaysClosed, ClosedAreDone
  <1>2. r # 0 /\ r \in Runs
    BY <1>0
  <1> USE <1>2
  <1>3. CASE r \in closed /\ ~ Restart
    <2> USE <1>1, <1>3
    <2>1. CASE Quiet
      BY <2>1 DEF Quiet, SameState, Offered
    <2>2. ASSUME NEW q \in Runs, StartDiscover(q) \/ Ends(q)
          PROVE  ~ Offered(r)'
      <3>1. state'.result \in {0, state.result} /\ pending' \in {0, pending}
        BY <2>2, EndsFacts, StartedFacts DEF StartDiscover, KeptFile
      <3> QED
        BY <3>1 DEF Offered
    <2>3. ASSUME NEW q \in Runs, Publish(q) \/ Save(q)
          PROVE  ~ Offered(r)'
      <3>1. run[q].step \in {"publish", "save"}
        BY <2>3 DEF Publish, Save
      <3>2. q # r
        BY <3>1
      <3>3. state'.result \in {q, state.result} /\ pending' \in {q, pending}
        BY <2>3 DEF Publish, Save, TypeOK
      <3> QED
        BY <3>2, <3>3 DEF Offered
    <2>4. CASE Cancel
      BY <2>4, CancelFacts DEF Offered
    <2>5. CASE Discard
      <3>1. state'.result = 0 /\ pending' = 0
        BY <2>5 DEF Discard, Dropped, TypeOK
      <3> QED
        BY <3>1 DEF Offered
    <2>6. ASSUME NEW c \in Confirms, NEW q \in Runs, Confirm(c, q)
          PROVE  ~ Offered(r)'
      BY <2>6 DEF Confirm, Offered
    <2>7. ASSUME NEW c \in Confirms, ConfirmFails(c) \/ ConfirmEnds(c) \/ ClearFile(c)
          PROVE  ~ Offered(r)'
      BY <2>7 DEF ConfirmFails, ConfirmEnds, ClearFile, Offered
    <2>8. ASSUME NEW c \in Confirms, Reset(c)
          PROVE  ~ Offered(r)'
      <3>1. state'.result = 0 /\ pending' = pending
        BY <2>8, ResetFacts DEF NoState
      <3> QED
        BY <3>1 DEF Offered
    <2> QED
      BY QuietSteps, <2>1, <2>2, <2>3, <2>4, <2>5, <2>6, <2>7, <2>8 DEF Loud
  <1>4. CASE Restart
    <2>1. /\ state' = [NoState EXCEPT !.result = pending] /\ pending' = pending
          /\ closed' \subseteq closed \cup {q \in Runs : run[q].step = "done" /\ pending # q}
      BY <1>4 DEF Restart
    <2>2. state'.result = pending
      BY <2>1 DEF NoState
    <2>3. run[r].step = "done" /\ pending # r
      BY <1>1, <2>1 DEF Offered
    <2>4. run'[r].step = "done"
      BY <2>3, StaysDone
    <2> QED
      BY <2>1, <2>2, <2>3, <2>4 DEF Offered
  <1>5. CASE r \notin closed /\ ~ Restart
    <2> USE <1>5
    <2>1. ~ Quiet
      BY DEF Quiet
    <2>2. ASSUME NEW q \in Runs, StartDiscover(q) \/ Publish(q) \/ Save(q) \/ Ends(q)
          PROVE  FALSE
      BY <2>2, EndsFacts DEF StartDiscover, Publish, Save
    <2>3. ~ Cancel
      BY CancelFacts
    <2>4. CASE Discard
      <3>1. state'.result = 0 /\ pending' = 0 /\ run[r].step = "done"
        BY <2>4 DEF Discard, Dropped, TypeOK
      <3>2. run'[r].step = "done"
        BY <3>1, StaysDone
      <3> QED
        BY <3>1, <3>2 DEF Offered
    <2>5. ASSUME NEW c \in Confirms, NEW q \in Runs, Confirm(c, q)
          PROVE  FALSE
      BY <2>5 DEF Confirm
    <2>6. ASSUME NEW c \in Confirms, ConfirmFails(c) \/ ConfirmEnds(c) \/ ClearFile(c)
          PROVE  FALSE
      BY <2>6 DEF ConfirmFails, ConfirmEnds, ClearFile
    <2>7. ASSUME NEW c \in Confirms, Reset(c)
          PROVE  ~ Offered(r)' /\ run'[r].step = "done"
      <3>1. state'.result = 0
        BY <2>7, ResetFacts DEF NoState
      <3>2. pending' = pending /\ run[r].step = "done" /\ pending # r
        BY <2>7 DEF Reset
      <3>3. run'[r].step = "done"
        BY <3>2, StaysDone
      <3> QED
        BY <3>1, <3>2, <3>3 DEF Offered
    <2> QED
      BY QuietSteps, <2>1, <2>2, <2>3, <2>4, <2>5, <2>6, <2>7 DEF Loud
  <1> QED
    BY <1>1, <1>3, <1>4, <1>5

\* A request to stop stays until it is seen.
LEMMA StopsStep ==
  ASSUME Ready
  PROVE  StopsAreSeen'
  <1> USE DEF Ready
  <1>0. \A r \in Runs : run[r].stops => state.cancel /\ run[r].step \in {"scan", "work"}
    BY DEF StopsAreSeen
  <1>1. ASSUME \A r \in Runs : ~ run'[r].stops
        PROVE  StopsAreSeen'
    BY <1>1 DEF StopsAreSeen
  <1>2. ASSUME state'.cancel <=> state.cancel,
               \A r \in Runs : run'[r].stops => run[r].stops /\ run'[r].step = run[r].step
        PROVE  StopsAreSeen'
    BY <1>0, <1>2 DEF StopsAreSeen
  <1>3. run' = run /\ (state'.cancel <=> state.cancel) => StopsAreSeen'
    BY <1>2
  <1>4. ASSUME NEW r \in Runs, StartDiscover(r)
        PROVE  StopsAreSeen'
    BY <1>1, <1>4, StartFacts
  <1>5. ASSUME NEW r \in Runs, Scan(r)
        PROVE  StopsAreSeen'
    <2>1. run'[r].stops => run[r].stops /\ run'[r].step = "work"
      BY <1>5, ScanFacts
    <2>2. \A q \in Runs \ {r} : run'[q] = run[q]
      BY <1>5, ScanFacts
    <2>3. state'.cancel <=> state.cancel
      BY <1>5, ScanFacts DEF SameState
    <2> QED
      BY <1>0, <2>1, <2>2, <2>3 DEF StopsAreSeen
  <1>6. ASSUME NEW r \in Runs, Publish(r) \/ Save(r)
        PROVE  StopsAreSeen'
    <2>1. /\ run[r].step \in {"publish", "save"}
          /\ run' = [run EXCEPT ![r].step = "save"] \/ run' = [run EXCEPT ![r].step = "done"]
      BY <1>6 DEF Publish, Save
    <2>2. \A q \in Runs \ {r} : run'[q] = run[q]
      BY <2>1, NextStepFacts
    <2>3. run'[r].stops = run[r].stops
      BY <2>1, NextStepFacts
    <2>4. ~ run'[r].stops
      BY <1>0, <2>1, <2>3
    <2>5. state'.cancel <=> state.cancel
      BY <1>6 DEF Publish, Save, TypeOK
    <2> QED
      BY <1>2, <2>2, <2>4, <2>5
  <1>7. ASSUME NEW r \in Runs, Ends(r)
        PROVE  StopsAreSeen'
    <2>1. ~ run'[r].stops
      BY <1>7, EndsFacts
    <2>2. \A q \in Runs \ {r} : run'[q] = run[q]
      BY <1>7, EndsFacts
    <2>3. state'.cancel <=> state.cancel
      BY <1>7, EndsFacts
    <2> QED
      BY <1>2, <2>1, <2>2, <2>3
  <1>21. ASSUME NEW r \in Runs, Passes(r)
         PROVE  StopsAreSeen'
    <2>1. run'[r].stops = run[r].stops
      BY <1>21, PassFacts
    <2>2. \A q \in Runs \ {r} : run'[q] = run[q]
      BY <1>21, PassFacts
    <2>3. ~ state.cancel
      BY <1>21, PassFacts
    <2>4. \A q \in Runs : ~ run'[q].stops
      BY <1>0, <2>1, <2>2, <2>3
    <2> QED
      BY <1>1, <2>4
  <1>8. ASSUME NEW r \in Runs, NEW p \in Products, Begin(r, p)
        PROVE  StopsAreSeen'
    <2>1. run'[r].stops = run[r].stops
      BY <1>8, BeginFacts
    <2>2. run'[r].step = run[r].step /\ state' = state /\ \A q \in Runs \ {r} : run'[q] = run[q]
      BY <1>8, BeginFacts
    <2> QED
      BY <1>2, <2>1, <2>2
  <1>9. ASSUME NEW r \in Runs, NEW p \in Products, Answers(r, p)
        PROVE  StopsAreSeen'
    <2>1. run'[r].stops => run[r].stops
      BY <1>9, AnswerMoves
    <2>2. \A q \in Runs \ {r} : run'[q] = run[q]
      BY <1>9, AnswerMoves
    <2>3. ~ state.cancel
      BY <1>9, AnswerFacts
    <2>4. \A q \in Runs : ~ run'[q].stops
      BY <1>0, <2>1, <2>2, <2>3
    <2> QED
      BY <1>1, <2>4
  <1>10. ASSUME Cancel
         PROVE  StopsAreSeen'
    <2>1. state'.cancel
      BY <1>10, CancelFacts
    <2>2. \A r \in Runs : run'[r].stops => run[r].stops \/ run[r].step \in {"scan", "work"}
      BY <1>10, CancelFacts
    <2>3. \A r \in Runs : run'[r].step = run[r].step
      BY <1>10, CancelFacts DEF Alike
    <2> QED
      BY <1>0, <2>1, <2>2, <2>3 DEF StopsAreSeen
  <1>11. ASSUME Discard
         PROVE  StopsAreSeen'
    <2>1. run' = run /\ (state'.cancel <=> state.cancel)
      BY <1>11 DEF Discard, TypeOK
    <2> QED
      BY <1>3, <2>1
  <1>12. Restart => StopsAreSeen'
    BY <1>1, RestartFacts
  <1>13. ASSUME NEW c \in Confirms, NEW r \in Runs, Confirm(c, r)
         PROVE  StopsAreSeen'
    BY <1>3, <1>13 DEF Confirm
  <1>14. ASSUME NEW c \in Confirms,
                CheckSession(c) \/ ConfirmFails(c) \/ ConfirmEnds(c) \/ ClearFile(c)
         PROVE  StopsAreSeen'
    <2>1. run' = run /\ state' = state
      BY <1>14 DEF CheckSession, ConfirmFails, ConfirmEnds, ClearFile
    <2> QED
      BY <1>3, <2>1
  <1>15. ASSUME NEW c \in Confirms, Reset(c)
         PROVE  StopsAreSeen'
    BY <1>1, <1>15, ResetFacts
  <1>16. ASSUME NEW p \in Products, Touched(p)
         PROVE  StopsAreSeen'
    <2>1. \A r \in Runs : run'[r].stops = run[r].stops
      BY <1>16, DoubtFacts DEF Touched
    <2>2. state' = state /\ \A r \in Runs : run'[r].step = run[r].step
      BY <1>16, DoubtFacts DEF Touched, Alike
    <2> QED
      BY <1>2, <2>1, <2>2
  <1>17. ASSUME NEW c \in Confirms, NEW p \in Products, Pick(c, p)
         PROVE  StopsAreSeen'
    BY <1>3, <1>17 DEF Pick
  <1>18. ASSUME NEW k \in Jobs, NEW p \in Products, StartJob(k, p)
         PROVE  StopsAreSeen'
    BY <1>3, <1>18 DEF StartJob
  <1>19. ASSUME NEW k \in Jobs, Crawl(k) \/ JobWrites(k)
         PROVE  StopsAreSeen'
    <2>1. Crawl(k) => run' = run /\ state' = state
      BY DEF Crawl
    <2>2. JobWrites(k) => (\E p \in Products : Touched(p)) \/ (run' = run /\ state' = state)
      BY JobTouches
    <2> QED
      BY <1>3, <1>16, <1>19, <2>1, <2>2
  <1> QED
    BY Steps, <1>4, <1>5, <1>6, <1>7, <1>8, <1>9, <1>10, <1>11, <1>12, <1>13, <1>14, <1>15, <1>16,
       <1>17, <1>18, <1>19, <1>21, WriteIsTouch, UpdateIsTouch, EditTouches

-----------------------------------------------------------------------------
(* What the threads know *)

\* The last conjunct of Knows.
AgreesWith(h, p, known, shown) ==
    (p \notin h.todo /\ known.url # Nowhere /\ known.url = shown.url) =>
        /\ h.plan.add[p] = shown.paths \ known.paths
        /\ h.plan.del[p] = known.paths \ shown.paths

\* Every step keeps plans true for products without doubt.
LEMMA PlansStep ==
  ASSUME Ready, PlansAreTrue
  PROVE  PlansAreTrue'
  <1> USE DEF Ready
  <1> SUFFICES ASSUME NEW r \in Runs, NEW p \in Products
               PROVE  Knows(run'[r], p, row'[p], vendor'[p])
    BY DEF PlansAreTrue
  <1>1. Knows(run[r], p, row[p], vendor[p])
    BY DEF PlansAreTrue
  <1>2. ASSUME NEW x \in Products, Touched(x)
        PROVE  Knows(run'[r], p, row'[p], vendor'[p])
    <2>1. /\ Alike(run'[r], run[r]) /\ run[r].doubt \subseteq run'[r].doubt
          /\ Read(r, x) => x \in run'[r].doubt
      BY <1>2, DoubtFacts DEF Touched
    <2>2. CASE p = x
      BY <1>1, <2>1, <2>2 DEF Knows, Read, Alike
    <2>3. CASE p # x
      <3>1. row'[p] = row[p] /\ vendor'[p] = vendor[p]
        BY <1>2, <2>3 DEF Touched
      <3> QED
        BY <1>1, <2>1, <3>1 DEF Knows, Alike
    <2> QED
      BY <2>2, <2>3
  <1>3. CASE UNCHANGED <<row, vendor>>
    <2>1. CASE Kept(r)
      <3>1. run'[r].step \in {"work", "publish", "save", "done", "unsaved"} =>
               run[r].step \in {"work", "publish", "save", "done", "unsaved"}
        BY <2>1 DEF Kept
      <3>2. /\ run'[r].todo = run[r].todo /\ run'[r].begun = run[r].begun
            /\ run'[r].base = run[r].base /\ run'[r].plan = run[r].plan
            /\ run[r].doubt \subseteq run'[r].doubt
        BY <2>1 DEF Kept
      <3> QED
        BY <1>1, <1>3, <3>1, <3>2 DEF Knows
    <2>2. CASE Turns(r)
      BY <2>2 DEF Turns, Knows
    <2>3. CASE Scan(r)
      <3>1. run'[r].todo = Both /\ run'[r].begun = {} /\ run'[r].plan = Compared
        BY <2>3, ScanFacts
      <3>2. p \in Both => Compared.removed[p] = Nowhere
        BY ComparedFacts
      <3>3. p \notin Both => /\ Compared.added[p] = vendor[p].url /\ Compared.removed[p] = row[p].url
                             /\ ~ (row[p].url # Nowhere /\ row[p].url = vendor[p].url)
        BY ComparedFacts DEF Both, There
      <3> QED
        BY <1>3, <3>1, <3>2, <3>3 DEF Knows
    <2>4. ASSUME NEW x \in Products, Begin(r, x)
          PROVE  Knows(run'[r], p, row'[p], vendor'[p])
      <3>1. /\ run[r].step = "work" /\ x \in run[r].todo /\ run'[r].begun = run[r].begun \cup {x}
            /\ run'[r].base[x] = row[x].paths
            /\ \A y \in Products \ {x} : run'[r].base[y] = run[r].base[y]
            /\ run'[r].step = run[r].step /\ run'[r].todo = run[r].todo
            /\ run'[r].plan = run[r].plan /\ run'[r].doubt = run[r].doubt
        BY <2>4, BeginFacts
      <3>2. CASE p = x
        BY <1>1, <1>3, <3>1, <3>2 DEF Knows
      <3>3. CASE p # x
        BY <1>1, <1>3, <3>1, <3>3 DEF Knows
      <3> QED
        BY <3>2, <3>3
    <2>5. ASSUME NEW x \in Products, Answers(r, x)
          PROVE  Knows(run'[r], p, row'[p], vendor'[p])
      <3>1. /\ run[r].step = "work" /\ x \in run[r].begun /\ run[r].begun \subseteq run[r].todo
        BY <2>5, AnswerFacts, Typed
      <3>2. /\ run'[r].todo = run[r].todo \ {x} /\ run'[r].begun = run[r].begun \ {x}
            /\ run'[r].step \in {"publish", "work"}
            /\ run'[r].plan.added = run[r].plan.added /\ run'[r].plan.removed = run[r].plan.removed
            /\ run[r].doubt \subseteq run'[r].doubt
        BY <2>5, AnswerMoves
      <3>3. CASE p = x
        <4>1. p \notin run'[r].doubt => /\ run'[r].plan.add[p] = Shown(p) \ run[r].base[p]
                                        /\ run'[r].plan.del[p] = run[r].base[p] \ Shown(p)
          BY <2>5, <3>3, AnswerMoves
        <4>2. p \notin run'[r].doubt => run[r].base[p] = row[p].paths
          BY <1>1, <3>1, <3>2, <3>3 DEF Knows
        <4>3. row[p].url # Nowhere /\ row[p].url = vendor[p].url => Shown(p) = vendor[p].paths
          BY DEF Shown, There
        <4>4. run[r].plan.removed[p] = Nowhere
          BY <1>1, <3>1, <3>3 DEF Knows
        <4>5. p \notin run'[r].doubt => AgreesWith(run'[r], p, row[p], vendor[p])
          BY <4>1, <4>2, <4>3 DEF AgreesWith
        <4> QED
          BY <1>3, <3>2, <3>3, <4>4, <4>5 DEF Knows, AgreesWith
      <3>4. CASE p # x
        <4>1. /\ run'[r].base[p] = run[r].base[p] /\ run'[r].plan.add[p] = run[r].plan.add[p]
              /\ run'[r].plan.del[p] = run[r].plan.del[p]
          BY <2>5, <3>4, AnswerMoves
        <4> QED
          BY <1>1, <1>3, <3>1, <3>2, <3>4, <4>1 DEF Knows
      <3> QED
        BY <3>3, <3>4
    <2> QED
      BY <2>1, <2>2, <2>3, <2>4, <2>5, Moves
  <1> QED
    BY <1>2, <1>3, Tables

\* Published(r), for the state of r.
IsOut(h) == h.step \in {"save", "done", "unsaved"}

\* What is published stays as it is, but for new doubts.
LEMMA PublishedStays ==
  ASSUME Ready, NEW r \in Runs, Published(r)
  PROVE  /\ IsOut(run'[r]) /\ run'[r].plan = run[r].plan /\ run[r].doubt \subseteq run'[r].doubt
         /\ \A p : Read(r, p)
  <1> USE DEF Ready
  <1>1. run[r].step \in {"save", "done", "unsaved"} /\ run[r].todo = {}
    BY Typed DEF Published
  <1>2. Kept(r)
    <2>1. ~ Turns(r)
      BY <1>1 DEF Turns, Discovering
    <2>2. ~ Scan(r)
      BY <1>1, ScanFacts
    <2>3. \A p \in Products : ~ Begin(r, p) /\ ~ Answers(r, p)
      BY <1>1, BeginFacts, AnswerFacts
    <2> QED
      BY <2>1, <2>2, <2>3, Moves
  <1> QED
    BY <1>1, <1>2 DEF Kept, IsOut, Read

\* One conjunct of ConfirmsAreTrue.
Applying(h) ==
    h.step \in {"products", "pick", "write", "end", "clear", "reset"} =>
        /\ h.of \in Runs /\ Published(h.of)
        /\ h.step = "products" =>
              \A p \in h.todo : \/ run[h.of].plan.added[p] # Nowhere
                                \/ run[h.of].plan.removed[p] # Nowhere
        /\ h.step = "write" =>
              /\ h.product \in Products
              /\ h.product \notin run[h.of].doubt => h.cur = row[h.product].paths

\* The invariant of the confirmations, one by one.
LEMMA ApplyingMeans ==
  /\ ConfirmsAreTrue <=> \A c \in Confirms : Applying(confirm[c])
  /\ ConfirmsAreTrue' <=> \A c \in Confirms : Applying(confirm[c])'
  BY DEF ConfirmsAreTrue, Applying, Plan

\* A confirmation that stays keeps its truth.
LEMMA SameConfirm ==
  ASSUME Ready, NEW c \in Confirms, confirm'[c] = confirm[c]
  PROVE  Applying(confirm[c])'
  <1> USE DEF Ready
  <1> DEFINE h == confirm[c]
             r == h.of
  <1>1. Applying(h)
    BY ApplyingMeans
  <1>2. CASE h.step \in {"products", "pick", "write", "end", "clear", "reset"}
    <2>1. r \in Runs /\ Published(r)
      BY <1>1, <1>2 DEF Applying
    <2>2. /\ IsOut(run'[r]) /\ run'[r].plan = run[r].plan /\ run[r].doubt \subseteq run'[r].doubt
          /\ \A p : Read(r, p)
      BY <2>1, PublishedStays
    <2>3. ASSUME h.step = "write"
          PROVE  /\ h.product \in Products
                 /\ h.product \notin run'[r].doubt => h.cur = row'[h.product].paths
      <3>1. h.product \in Products /\ (h.product \notin run[r].doubt => h.cur = row[h.product].paths)
        BY <1>1, <1>2, <2>3 DEF Applying
      <3>2. ASSUME NEW x \in Products, Touched(x)
            PROVE  h.product \in run'[r].doubt \/ row'[h.product] = row[h.product]
        <4>1. Read(r, x) => x \in run'[r].doubt
          BY <2>1, <3>2, DoubtFacts DEF Touched
        <4> QED
          BY <2>2, <3>1, <3>2, <4>1 DEF Touched
      <3> QED
        BY <2>2, <3>1, <3>2, Tables
    <2>4. h.step = "products" => \A p \in h.todo : \/ run'[r].plan.added[p] # Nowhere
                                                  \/ run'[r].plan.removed[p] # Nowhere
      BY <1>1, <1>2, <2>2 DEF Applying
    <2> HIDE DEF h
    <2>5. confirm'[c] = h
      BY DEF h
    <2>6. IsOut(run'[confirm'[c].of])
      BY <2>2, <2>5
    <2> QED
      BY <2>1, <2>3, <2>4, <2>5, <2>6 DEF Applying, Published, IsOut
  <1>3. CASE h.step \notin {"products", "pick", "write", "end", "clear", "reset"}
    BY <1>3 DEF Applying
  <1> QED
    BY <1>2, <1>3

\* A confirmation that goes on to a step that asks for nothing.
LEMMA FreeConfirm ==
  ASSUME Ready, NEW c \in Confirms, NEW steps, GoesOn(c, steps),
         steps \subseteq {"pick", "end", "clear", "reset", "done"},
         confirm[c].step \in {"products", "pick", "write", "end", "clear", "reset"}
  PROVE  Applying(confirm[c])'
  <1> USE DEF Ready
  <1> DEFINE r == confirm[c].of
  <1>1. r \in Runs /\ Published(r)
    BY ApplyingMeans DEF Applying
  <1>2. IsOut(run'[r])
    BY <1>1, PublishedStays
  <1>3. confirm'[c].of = r /\ confirm'[c].step \notin {"products", "write"}
    BY DEF GoesOn
  <1>4. IsOut(run'[confirm'[c].of])
    BY <1>2, <1>3
  <1> QED
    BY <1>1, <1>3, <1>4 DEF Applying, Published, IsOut

\* Every step keeps what confirmations know true.
LEMMA ConfirmsStep ==
  ASSUME Ready
  PROVE  ConfirmsAreTrue'
  <1> USE DEF Ready
  <1> DEFINE Active == {"products", "pick", "write", "end", "clear", "reset"}
  <1>0. \A c \in Confirms : Applying(confirm[c])
    BY ApplyingMeans
  <1>1. ASSUME NEW c \in Confirms, \A d \in Confirms \ {c} : confirm'[d] = confirm[d],
               Applying(confirm[c])'
        PROVE  ConfirmsAreTrue'
    BY <1>1, SameConfirm, ApplyingMeans
  <1>2. confirm' = confirm => ConfirmsAreTrue'
    BY SameConfirm, ApplyingMeans
  <1>3. ASSUME NEW r \in Runs, StartDiscover(r) \/ Scan(r) \/ Publish(r) \/ Save(r) \/ Ends(r) \/ Passes(r)
        PROVE  confirm' = confirm
    BY <1>3 DEF StartDiscover, Scan, Publish, Save, Ends, Fails, Passes, OnlyNew, GivesUp, Worked
  <1>4. ASSUME NEW r \in Runs, NEW p \in Products, Begin(r, p) \/ Answers(r, p)
        PROVE  confirm' = confirm
    BY <1>4 DEF Begin, Answers, GivesUp, Worked
  <1>5. Cancel \/ Discard => confirm' = confirm
    BY DEF Cancel, Discard
  <1>6. ASSUME Restart
        PROVE  ConfirmsAreTrue'
    <2>1. \A c \in Confirms : confirm'[c].step \in {"gone", "new", "done"}
      BY <1>6, RestartFacts
    <2> QED
      BY <2>1 DEF ConfirmsAreTrue
  <1>7. ASSUME NEW c \in Confirms, NEW r \in Runs, Confirm(c, r)
        PROVE  ConfirmsAreTrue'
    <2>1. /\ \A d \in Confirms \ {c} : confirm'[d] = confirm[d]
          /\ Published(r) /\ run' = run
          /\ confirm'[c].step = "products" /\ confirm'[c].of = r
          /\ confirm'[c].todo = {p \in Products : \/ run[r].plan.added[p] # Nowhere
                                                  \/ run[r].plan.removed[p] # Nowhere}
      BY <1>7, ConfirmFacts
    <2>2. Applying(confirm[c])'
      BY <2>1 DEF Applying, Published
    <2> QED
      BY <1>1, <2>1, <2>2
  <1>8. ASSUME NEW c \in Confirms,
               CheckSession(c) \/ ConfirmEnds(c) \/ ClearFile(c) \/ Reset(c) \/ Write(c)
        PROVE  ConfirmsAreTrue'
    <2>1. confirm[c].step \in Active
      BY <1>8 DEF CheckSession, ConfirmEnds, ClearFile, Reset, Write
    <2>2. GoesOn(c, {"pick", "end"}) \/ GoesOn(c, {"clear"}) \/ GoesOn(c, {"reset"}) \/ GoesOn(c, {"done"})
      BY <1>8, CheckFacts, EndFacts, WriteFacts
    <2>3. Applying(confirm[c])'
      BY <2>1, <2>2, FreeConfirm
    <2> QED
      BY <1>1, <2>2, <2>3 DEF GoesOn
  <1>9. ASSUME NEW c \in Confirms, ConfirmFails(c)
        PROVE  ConfirmsAreTrue'
    <2>1. /\ \A d \in Confirms \ {c} : confirm'[d] = confirm[d]
          /\ confirm'[c].step = "failed"
      BY <1>9, ThrowFacts
    <2> QED
      BY <1>1, <2>1 DEF Applying
  <1>10. ASSUME NEW c \in Confirms, NEW p \in Products, UpdateProduct(c, p)
         PROVE  ConfirmsAreTrue'
    <2>1. /\ GoesOn(c, {"products"}) /\ confirm[c].step = "products"
          /\ confirm'[c].todo = confirm[c].todo \ {p}
      BY <1>10, UpdateFacts
    <2> DEFINE r == confirm[c].of
    <2>2. /\ r \in Runs /\ Published(r)
          /\ \A x \in confirm[c].todo : run[r].plan.added[x] # Nowhere \/ run[r].plan.removed[x] # Nowhere
      BY <1>0, <2>1 DEF Applying
    <2>3. IsOut(run'[r]) /\ run'[r].plan = run[r].plan
      BY <2>2, PublishedStays
    <2>4. confirm'[c].of = r /\ confirm'[c].step = "products"
      BY <2>1 DEF GoesOn
    <2>5. IsOut(run'[confirm'[c].of])
      BY <2>3, <2>4
    <2>6. Applying(confirm[c])'
      BY <2>1, <2>2, <2>3, <2>4, <2>5 DEF Applying, Published, IsOut
    <2> QED
      BY <1>1, <2>1, <2>6 DEF GoesOn
  <1>11. ASSUME NEW c \in Confirms, NEW p \in Products, Pick(c, p)
         PROVE  ConfirmsAreTrue'
    <2>1. /\ GoesOn(c, {"write", "pick", "end"}) /\ confirm[c].step = "pick"
          /\ confirm'[c].step = "write" => confirm'[c].product = p /\ confirm'[c].cur = row[p].paths
      BY <1>11, PickFacts
    <2>2. run' = run /\ row' = row
      BY <1>11 DEF Pick
    <2> DEFINE r == confirm[c].of
    <2>3. r \in Runs /\ Published(r)
      BY <1>0, <2>1 DEF Applying
    <2>4. confirm'[c].of = r /\ confirm'[c].step # "products"
      BY <2>1 DEF GoesOn
    <2>5. IsOut(run'[confirm'[c].of])
      BY <2>2, <2>3, <2>4 DEF Published, IsOut
    <2>6. Applying(confirm[c])'
      BY <2>1, <2>2, <2>3, <2>4, <2>5 DEF Applying, Published, IsOut
    <2> QED
      BY <1>1, <2>1, <2>6 DEF GoesOn
  <1>12. ASSUME NEW k \in Jobs, NEW p \in Products, StartJob(k, p)
         PROVE  confirm' = confirm
    BY <1>12 DEF StartJob
  <1>13. ASSUME NEW k \in Jobs, Crawl(k) \/ JobWrites(k)
         PROVE  confirm' = confirm
    BY <1>13 DEF Crawl, JobWrites
  <1> QED
    BY Steps, <1>2, <1>3, <1>4, <1>5, <1>6, <1>7, <1>8, <1>9, <1>10, <1>11, <1>12, <1>13, EditTouches

\* One conjunct of JobsAreTrue.
Informed(h) ==
    h.step # "none" =>
        /\ h.product \in Products
        /\ ~ h.doubt => There(h.product) /\ h.old = row[h.product].paths
        /\ (~ h.doubt /\ h.step = "write") => h.got = Shown(h.product)

\* The invariant of the jobs, one by one.
LEMMA InformedMeans ==
  /\ JobsAreTrue <=> \A k \in Jobs : Informed(job[k])
  /\ JobsAreTrue' <=> \A k \in Jobs : Informed(job[k])'
  BY DEF JobsAreTrue, Informed

\* A job keeps its truth while rows and pages stay.
LEMMA SameJob ==
  ASSUME Ready, NEW k \in Jobs, job'[k] = job[k], UNCHANGED <<row, vendor>>
  PROVE  Informed(job[k])'
  <1>1. Informed(job[k])
    BY InformedMeans DEF Ready
  <1> QED
    BY <1>1 DEF Informed, There, Shown

\* Every step keeps what jobs know true.
LEMMA JobsStep ==
  ASSUME Ready
  PROVE  JobsAreTrue'
  <1> USE DEF Ready
  <1>0. \A k \in Jobs : Informed(job[k])
    BY InformedMeans
  <1>1. ASSUME NEW k \in Jobs, \A i \in Jobs \ {k} : job'[i] = job[i], UNCHANGED <<row, vendor>>,
               Informed(job[k])'
        PROVE  JobsAreTrue'
    BY <1>1, SameJob, InformedMeans
  <1>2. UNCHANGED <<job, row, vendor>> => JobsAreTrue'
    BY SameJob, InformedMeans
  <1>3. ASSUME NEW x \in Products, Touched(x)
        PROVE  JobsAreTrue'
    <2>1. ASSUME NEW k \in Jobs
          PROVE  Informed(job[k])'
      <3>1. CASE job'[k].step = "none"
        BY <3>1 DEF Informed
      <3>2. CASE job'[k].step # "none"
        <4>1. /\ job'[k].step = job[k].step /\ job'[k].product = job[k].product
              /\ job'[k].old = job[k].old /\ job'[k].got = job[k].got
          BY <1>3, <3>2 DEF Touched
        <4>2. ~ job'[k].doubt => ~ job[k].doubt /\ job[k].product # x
          BY <1>3, <3>2 DEF Touched
        <4> DEFINE p == job[k].product
        <4>3. p \in Products
          BY <1>0, <3>2, <4>1 DEF Informed
        <4>4. p # x => row'[p] = row[p] /\ vendor'[p] = vendor[p]
          BY <1>3, <4>3 DEF Touched
        <4>5. ~ job'[k].doubt => row'[p] = row[p] /\ vendor'[p] = vendor[p]
          BY <4>2, <4>4
        <4>6. ~ job'[k].doubt => /\ There(p) /\ job'[k].old = row[p].paths
                                 /\ job'[k].step = "write" => job'[k].got = Shown(p)
          BY <1>0, <3>2, <4>1, <4>2 DEF Informed
        <4> HIDE DEF p
        <4>7. job'[k].product = p
          BY <4>1 DEF p
        <4> QED
          BY <4>3, <4>5, <4>6, <4>7 DEF Informed, There, Shown
      <3> QED
        BY <3>1, <3>2
    <2> QED
      BY <2>1, InformedMeans
  <1>4. ASSUME NEW r \in Runs, StartDiscover(r) \/ Scan(r) \/ Publish(r) \/ Save(r) \/ Ends(r) \/ Passes(r)
        PROVE  UNCHANGED <<job, row, vendor>>
    BY <1>4 DEF StartDiscover, Scan, Publish, Save, Ends, Fails, Passes, OnlyNew, GivesUp, Worked
  <1>5. ASSUME NEW r \in Runs, NEW p \in Products, Begin(r, p) \/ Answers(r, p)
        PROVE  UNCHANGED <<job, row, vendor>>
    BY <1>5 DEF Begin, Answers, GivesUp, Worked
  <1>6. Cancel \/ Discard => UNCHANGED <<job, row, vendor>>
    BY DEF Cancel, Discard
  <1>7. ASSUME NEW c \in Confirms, NEW r \in Runs, Confirm(c, r)
        PROVE  UNCHANGED <<job, row, vendor>>
    BY <1>7 DEF Confirm
  <1>8. ASSUME NEW c \in Confirms,
               CheckSession(c) \/ ConfirmFails(c) \/ ConfirmEnds(c) \/ ClearFile(c) \/ Reset(c)
        PROVE  UNCHANGED <<job, row, vendor>>
    BY <1>8 DEF CheckSession, ConfirmFails, ConfirmEnds, ClearFile, Reset
  <1>9. ASSUME NEW c \in Confirms, NEW p \in Products, Pick(c, p)
        PROVE  UNCHANGED <<job, row, vendor>>
    BY <1>9 DEF Pick
  <1>10. ASSUME Restart
         PROVE  JobsAreTrue'
    <2>1. \A k \in Jobs : job'[k].step = "none"
      BY <1>10, RestartFacts
    <2> QED
      BY <2>1 DEF JobsAreTrue
  <1>11. ASSUME NEW k \in Jobs, NEW p \in Products, StartJob(k, p)
         PROVE  JobsAreTrue'
    <2>1. /\ \A i \in Jobs \ {k} : job'[i] = job[i]
          /\ job'[k].step = "crawl" /\ job'[k].product = p /\ job'[k].old = row[p].paths
          /\ There(p) /\ UNCHANGED <<row, vendor>>
      BY <1>11, StartJobFacts
    <2>2. Informed(job[k])'
      BY <2>1 DEF Informed, There
    <2> QED
      BY <1>1, <2>1, <2>2
  <1>12. ASSUME NEW k \in Jobs, Crawl(k)
         PROVE  JobsAreTrue'
    <2>1. /\ \A i \in Jobs \ {k} : job'[i] = job[i]
          /\ job[k].step = "crawl" /\ job'[k].step = "write" /\ job'[k].product = job[k].product
          /\ job'[k].old = job[k].old /\ UNCHANGED <<row, vendor>>
          /\ ~ job'[k].doubt => ~ job[k].doubt /\ job'[k].got = Shown(job[k].product)
      BY <1>12, CrawlFacts
    <2>2. Informed(job[k])'
      BY <1>0, <2>1 DEF Informed, There, Shown
    <2> QED
      BY <1>1, <2>1, <2>2
  <1>13. ASSUME NEW k \in Jobs, JobWrites(k)
         PROVE  JobsAreTrue'
    <2>1. \/ \E p \in Products : Touched(p)
          \/ /\ job'[k].step = "none" /\ \A i \in Jobs \ {k} : job'[i] = job[i]
             /\ UNCHANGED <<row, vendor>>
      BY <1>13, JobTouches
    <2>2. job'[k].step = "none" => Informed(job[k])'
      BY DEF Informed
    <2> QED
      BY <1>1, <1>3, <2>1, <2>2
  <1> QED
    BY Steps, <1>2, <1>3, <1>4, <1>5, <1>6, <1>7, <1>8, <1>9, <1>10, <1>11, <1>12, <1>13,
       WriteIsTouch, UpdateIsTouch, EditTouches

-----------------------------------------------------------------------------
(* The invariant *)

\* The first state is of the right types,
LEMMA InitialTypes ==
  ASSUME Init
  PROVE  TypeOK
  <1>1. PICK table \in Starts : /\ vendor = [p \in Products |-> [url |-> 1, paths |-> table[p]]]
                                /\ row = [p \in Products |-> Row(1, table[p], FALSE, 1)]
    BY DEF Init
  <1>2. \A p \in Products : table[p] \in PathSets
    BY <1>1, DiscoveryAssumption DEF PathSets
  <1>3. vendor \in [Products -> [url : 0..2, paths : PathSets]]
    BY <1>1, <1>2
  <1>4. row \in [Products -> Rows]
    BY <1>1, <1>2 DEF Row, Rows
  <1>5. 0 \in 0..MaxRuns /\ 0 \in 0..MaxUpsets
    BY DiscoveryAssumption
  <1>6. state \in [active : BOOLEAN, result : 0..MaxRuns, cancel : BOOLEAN, workers : BOOLEAN]
    BY <1>5 DEF Init, NoState
  <1> DEFINE new == NewRun
  <1>7. new \in RunStates /\ new.todo = {} /\ new.begun = {}
    BY NewFacts
  <1>8. run = [r \in Runs |-> new]
    BY DEF Init
  <1> HIDE DEF new
  <1>9. /\ run \in [Runs -> RunStates]
        /\ \A r \in Runs : /\ run[r].begun \subseteq run[r].todo
                           /\ run[r].todo # {} => run[r].step = "work"
    BY <1>7, <1>8
  <1>10. confirm \in [Confirms -> ConfirmStates] /\ job \in [Jobs -> JobStates]
    BY IdleFacts DEF Init
  <1>11. /\ pending \in 0..MaxRuns /\ applying \in BOOLEAN /\ closed \subseteq Runs /\ swept \subseteq Runs
         /\ masked \subseteq {"run", "confirm", "left"} /\ sure \subseteq Products /\ upsets \in 0..MaxUpsets
    BY <1>5 DEF Init
  <1> QED
    BY <1>3, <1>4, <1>6, <1>9, <1>10, <1>11 DEF TypeOK

\* satisfies the invariant,
LEMMA Initially ==
  ASSUME Init
  PROVE  KInv
  <1>1. \A r \in Runs : run[r] = NewRun
    BY DEF Init
  <1>2. \A r \in Runs : run[r].step = "new" /\ run[r].todo = {}
    BY <1>1, NewFacts
  <1>3. \A r \in Runs : ~ run[r].stops
    BY <1>1, NewFacts
  <1>4. \A c \in Confirms : confirm[c].step = "new"
    BY IdleFacts DEF Init
  <1>5. \A k \in Jobs : job[k].step = "none"
    BY IdleFacts DEF Init
  <1>6. ~ state.active /\ ~ applying
    BY DEF Init, NoState
  <1>7. closed = {}
    BY DEF Init
  <1>8. FlagsAreTrue
    <2>1. masked = {}
      BY DEF Init
    <2> QED
      BY <1>2, <1>4, <1>6, <2>1 DEF FlagsAreTrue, Discovering, Applies
  <1>9. ResultStaysOffered
    BY <1>2 DEF ResultStaysOffered
  <1>10. ClosedStaysClosed /\ ClosedAreDone
    BY <1>7 DEF ClosedStaysClosed, ClosedAreDone
  <1>11. StopsAreSeen
    BY <1>3 DEF StopsAreSeen
  <1>12. PlansAreTrue
    BY <1>2 DEF PlansAreTrue, Knows
  <1>13. ConfirmsAreTrue
    BY <1>4 DEF ConfirmsAreTrue
  <1>14. JobsAreTrue
    BY <1>5 DEF JobsAreTrue
  <1> QED
    BY InitialTypes, <1>8, <1>9, <1>10, <1>11, <1>12, <1>13, <1>14 DEF KInv

\* and every step keeps it.
LEMMA Inductive ==
  ASSUME KInv, [Next]_vars
  PROVE  KInv'
  <1>1. CASE Next
    <2>1. Ready
      BY <1>1 DEF KInv, Ready
    <2>2. TypeOK'
      BY <2>1, TypeStep
    <2>3. FlagsAreTrue'
      <3>1. RunFlag /\ ConfirmFlag
        BY FlagHalves DEF KInv
      <3>2. RunFlag' /\ ConfirmFlag'
        BY <2>1, <3>1, RunFlagStep, ConfirmFlagStep
      <3> QED
        BY <3>2 DEF FlagsAreTrue, RunFlag, ConfirmFlag
    <2>4. ResultStaysOffered' /\ ClosedStaysClosed' /\ ClosedAreDone'
      BY <2>1, OfferedStep, ClosedStep DEF KInv
    <2>5. StopsAreSeen' /\ PlansAreTrue' /\ ConfirmsAreTrue' /\ JobsAreTrue'
      BY <2>1, StopsStep, PlansStep, ConfirmsStep, JobsStep DEF KInv
    <2> QED
      BY <2>2, <2>3, <2>4, <2>5 DEF KInv
  <1>2. CASE UNCHANGED vars
    <2> USE <1>2 DEF vars
    <2>1. TypeOK'
      BY DEF KInv, TypeOK
    <2>2. FlagsAreTrue'
      BY DEF KInv, FlagsAreTrue, Discovering, Applies
    <2>3. ResultStaysOffered' /\ ClosedStaysClosed' /\ ClosedAreDone'
      BY DEF KInv, ResultStaysOffered, ClosedStaysClosed, ClosedAreDone, Offered
    <2>4. StopsAreSeen' /\ PlansAreTrue'
      BY DEF KInv, StopsAreSeen, PlansAreTrue, Knows
    <2>5. ConfirmsAreTrue'
      BY DEF KInv, ConfirmsAreTrue, Published, Plan
    <2>6. JobsAreTrue'
      BY DEF KInv, JobsAreTrue, There, Shown
    <2> QED
      BY <2>1, <2>2, <2>3, <2>4, <2>5, <2>6 DEF KInv
  <1> QED
    BY <1>1, <1>2

\* In every reachable state the flags, the results on offer and what each
\* thread of discover_products, discover_products_confirm and the refreshes has
\* at hand are in step with the threads, the tables and the vendor's pages.
THEOREM Invariance == Spec => []KInv
  <1>1. Init => KInv
    BY Initially
  <1>2. KInv /\ [Next]_vars => KInv'
    BY Inductive
  <1> QED
    BY <1>1, <1>2, PTL DEF Spec

\* The tables, the discovery state, the pending file and the threads keep
\* their types, for every number of discoveries and confirmations.
THEOREM Typing == Spec => []TypeOK
  <1>1. KInv => TypeOK
    BY DEF KInv
  <1> QED
    BY <1>1, Invariance, PTL

\* The flags, counted.
LEMMA CountedFlags ==
  ASSUME FlagsAreTrue
  PROVE  FlagsTellThreads
  <1> DEFINE working == {r \in Runs : Discovering(r)}
             writing == {c \in Confirms : Applies(c)}
  <1>1. /\ state.active => working # {}
        /\ applying => writing # {} \/ "left" \in masked
        /\ "left" \in masked => applying
    BY DEF FlagsAreTrue
  <1>2. ASSUME "run" \notin masked
        PROVE  Cardinality(working) = IF state.active THEN 1 ELSE 0
    <2>1. CASE state.active
      <3>1. PICK r \in Runs : working = {r}
        BY <1>2, <2>1 DEF FlagsAreTrue
      <3> QED
        BY <2>1, <3>1, FS_Singleton
    <2>2. CASE ~ state.active
      <3>1. working = {}
        BY <1>2, <2>2 DEF FlagsAreTrue
      <3> QED
        BY <2>2, <3>1, FS_EmptySet
    <2> QED
      BY <2>1, <2>2
  <1>3. ASSUME "confirm" \notin masked
        PROVE  Cardinality(writing) = IF applying /\ "left" \notin masked THEN 1 ELSE 0
    <2>1. CASE applying /\ "left" \notin masked
      <3>1. PICK c \in Confirms : writing = {c}
        BY <1>3, <2>1 DEF FlagsAreTrue
      <3> QED
        BY <2>1, <3>1, FS_Singleton
    <2>2. CASE ~ (applying /\ "left" \notin masked)
      <3>1. writing = {}
        BY <1>3, <2>2 DEF FlagsAreTrue
      <3> QED
        BY <2>2, <3>1, FS_EmptySet
    <2> QED
      BY <2>1, <2>2
  <1> QED
    BY <1>1, <1>2, <1>3 DEF FlagsTellThreads

\* Unless a discard, or the end of a confirmation, took a flag down under a
\* thread, there is one thread of discover_products while _auto_discover_state
\* is active and none otherwise; the same for _confirm_state, but for the flag
\* that a failed confirmation leaves up until a discard or a restart.
THEOREM FlagsTell == Spec => []FlagsTellThreads
  <1>1. KInv => FlagsTellThreads
    BY CountedFlags DEF KInv
  <1> QED
    BY <1>1, Invariance, PTL

\* A result that _save_pending wrote is offered until it is discarded or
\* confirmed to the end, whatever fails or restarts, or until another discovery
\* or confirmation sweeps it away.
THEOREM StaysOffered == Spec => []ResultStaysOffered
  <1>1. KInv => ResultStaysOffered
    BY DEF KInv
  <1> QED
    BY <1>1, Invariance, PTL

\* A result that was discarded after it was saved, or confirmed to the end,
\* does not come back.
THEOREM StaysClosed == Spec => []ClosedStaysClosed
  <1>1. KInv => ClosedStaysClosed
    BY DEF KInv
  <1> QED
    BY <1>1, Invariance, PTL

\* A discovery that discover_products_cancel met with work to do never
\* publishes.
THEOREM Heeded == Spec => []CancelIsHeeded
  <1>1. KInv => CancelIsHeeded
    BY DEF KInv, StopsAreSeen, CancelIsHeeded, Published
  <1> QED
    BY <1>1, Invariance, PTL

-----------------------------------------------------------------------------
(* What is written *)

\* The clause of CleanWriteMirrors for one product.
Mirrors(p) ==
    /\ row'[p].url # Nowhere =>
           row'[p].url # vendor[p].url \/ row'[p].paths = vendor[p].paths
    /\ row'[p].url = Nowhere => vendor[p].url # row[p].url
    /\ row'[p].url # Nowhere /\ row'[p].paths # row[p].paths => row'[p].marked

\* A published plan tells the truth about products without doubt.
LEMMA PublishedKnows ==
  ASSUME KInv, NEW r \in Runs, Published(r), NEW p \in Products, p \notin run[r].doubt
  PROVE  /\ (run[r].plan.added[p] = Nowhere /\ run[r].plan.removed[p] # Nowhere) =>
               row[p].url = run[r].plan.removed[p] /\ vendor[p].url = Nowhere
         /\ (There(p) /\ row[p].url = vendor[p].url) =>
               /\ run[r].plan.add[p] = vendor[p].paths \ row[p].paths
               /\ run[r].plan.del[p] = row[p].paths \ vendor[p].paths
  <1>1. run[r].step \in {"save", "done", "unsaved"} /\ run[r].todo = {}
    BY Typed DEF Published, KInv
  <1>2. Knows(run[r], p, row[p], vendor[p])
    BY DEF KInv, PlansAreTrue
  <1> QED
    BY <1>1, <1>2 DEF Knows, There

\* A clean update mirrors the page.
LEMMA UpdateMirrors ==
  ASSUME KInv, NEW c \in Confirms, NEW p \in Products, UpdateProduct(c, p), p \in sure'
  PROVE  Mirrors(p)
  <1> DEFINE r == confirm[c].of
  <1>1. confirm[c].step = "products" /\ p \in confirm[c].todo
    BY UpdateFacts DEF KInv
  <1>2. /\ r \in Runs /\ Published(r)
        /\ run[r].plan.added[p] # Nowhere \/ run[r].plan.removed[p] # Nowhere
    BY <1>1, ApplyingMeans DEF KInv, Applying
  <1>3. Plan(c).added[p] = Nowhere /\ p \notin run[r].doubt
    BY DEF UpdateProduct
  <1>4. row[p].url = Plan(c).removed[p] /\ vendor[p].url = Nowhere /\ row[p].url # Nowhere
    BY <1>2, <1>3, PublishedKnows DEF Plan
  <1>5. row'[p] = Updated(p, Plan(c))
    BY <1>2, UpdateTouches DEF KInv
  <1>6. row'[p].url = Nowhere
    BY <1>3, <1>4, <1>5 DEF Updated, Row
  <1> QED
    BY <1>4, <1>6 DEF Mirrors

\* So does a clean write,
LEMMA WriteMirrors ==
  ASSUME KInv, NEW c \in Confirms, Write(c), NEW q \in sure'
  PROVE  Mirrors(q)
  <1> DEFINE r == confirm[c].of
             p == confirm[c].product
             cur == confirm[c].cur
             add == Plan(c).add[p]
             del == Plan(c).del[p]
  <1>1. confirm[c].step = "write"
    BY WriteFacts DEF KInv
  <1>2. /\ r \in Runs /\ Published(r) /\ p \in Products
        /\ p \notin run[r].doubt => cur = row[p].paths
    BY <1>1, ApplyingMeans DEF KInv, Applying
  <1>3. q = p /\ There(p) /\ row[p].id = confirm[c].id /\ p \notin run[r].doubt
    BY DEF Write, Sure
  <1>4. /\ row'[p].url = row[p].url
        /\ \/ RealChange(cur, add, del) /\ row'[p].marked /\ row'[p].paths = Applied(cur, add, del)
           \/ ~ RealChange(cur, add, del) /\ row'[p].paths = cur
    BY <1>2, <1>3, WriteTouches DEF KInv
  <1>5. cur = row[p].paths /\ row[p].url # Nowhere
    BY <1>2, <1>3 DEF There
  <1>6. row[p].url = vendor[p].url => add = vendor[p].paths \ cur /\ del = cur \ vendor[p].paths
    <2>1. (There(p) /\ row[p].url = vendor[p].url) =>
              /\ run[r].plan.add[p] = vendor[p].paths \ row[p].paths
              /\ run[r].plan.del[p] = row[p].paths \ vendor[p].paths
      BY <1>2, <1>3, PublishedKnows
    <2>2. add = run[r].plan.add[p] /\ del = run[r].plan.del[p]
      BY DEF Plan
    <2> QED
      BY <1>3, <1>5, <2>1, <2>2
  <1> HIDE DEF add, del, cur, p
  <1>7. row[p].url = vendor[p].url => row'[p].paths = vendor[p].paths
    BY <1>4, <1>6 DEF RealChange, Applied
  <1>8. row'[p].paths # row[p].paths => row'[p].marked
    BY <1>4, <1>5
  <1> QED
    BY <1>3, <1>4, <1>5, <1>7, <1>8 DEF Mirrors

\* and a clean refresh.
LEMMA JobMirrors ==
  ASSUME KInv, NEW k \in Jobs, JobWrites(k), NEW q \in sure'
  PROVE  Mirrors(q)
  <1> DEFINE p == job[k].product
  <1>1. /\ p \in Products /\ job[k].step = "write" /\ row'[p].url = row[p].url
        /\ (There(p) /\ row[p].id = job[k].id) =>
              /\ row'[p].paths = job[k].got
              /\ job[k].old # job[k].got => row'[p].marked
        /\ sure' = Sure(p, job[k].id, job[k].doubt)
    BY JobTouches DEF KInv
  <1>2. q = p /\ There(p) /\ row[p].id = job[k].id /\ ~ job[k].doubt
    BY <1>1 DEF Sure
  <1>3. job[k].old = row[p].paths /\ job[k].got = Shown(p)
    BY <1>1, <1>2 DEF KInv, JobsAreTrue
  <1>4. row[p].url # Nowhere /\ (row[p].url = vendor[p].url => Shown(p) = vendor[p].paths)
    BY <1>2 DEF There, Shown
  <1> HIDE DEF p
  <1> QED
    BY <1>1, <1>2, <1>3, <1>4 DEF Mirrors

\* What discover_products_confirm, refresh_pkg_type_single and
\* _check_package_types_fresh write about a product that nobody changed under
\* their hands is what the vendor shows, and a change of the paths is marked.
THEOREM CleanWrites == Spec => CleanWriteMirrors
  <1>1. KInv /\ [Next]_vars => [\A p \in sure' : Mirrors(p)]_vars
    <2> SUFFICES ASSUME KInv, Next
                 PROVE  \A p \in sure' : Mirrors(p)
      OBVIOUS
    <2>1. ASSUME NEW c \in Confirms, NEW p \in Products, UpdateProduct(c, p)
          PROVE  \A q \in sure' : Mirrors(q)
      <3>1. sure' \subseteq {p}
        BY <2>1 DEF UpdateProduct
      <3> QED
        BY <2>1, <3>1, UpdateMirrors
    <2> QED
      BY <2>1, SureSteps, WriteMirrors, JobMirrors
  <1>2. KInv /\ [Next]_vars =>
          [\A p \in sure' :
             /\ row'[p].url # Nowhere =>
                    row'[p].url # vendor[p].url \/ row'[p].paths = vendor[p].paths
             /\ row'[p].url = Nowhere => vendor[p].url # row[p].url
             /\ row'[p].url # Nowhere /\ row'[p].paths # row[p].paths => row'[p].marked]_vars
    BY <1>1 DEF Mirrors
  <1> QED
    BY <1>2, Invariance, PTL DEF Spec, CleanWriteMirrors

=============================================================================
