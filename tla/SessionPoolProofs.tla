--------------------------- MODULE SessionPoolProofs ---------------------------
(***************************************************************************)
(* Proofs about SessionPool, for every set of sessions, all modes, and     *)
(* every table to begin with that PoolAssumption admits.                   *)
(***************************************************************************)
EXTENDS SessionPool, FiniteSetTheorems, TLAPS

\* A hand without a verdict.
LEMMA FreeFacts ==
  Free \in Hands /\ Free.step = "none" /\ Free.sid = None
  BY DEF Free, Hands, Verdicts, Beats

\* There is a first mode.
LEMMA ModeFacts ==
  /\ Len(Modes) \in Nat /\ 1 \in DOMAIN Modes /\ Modes[1] \in ToSet(Modes)
  /\ DOMAIN Modes = 1 .. Len(Modes)
  <1>1. Modes \in Seq(ToSet(Modes)) /\ Modes # <<>>
    BY PoolAssumption
  <1>2. Len(Modes) \in Nat /\ DOMAIN Modes = 1 .. Len(Modes) /\ Len(Modes) > 0
    BY <1>1
  <1>3. 1 \in DOMAIN Modes
    BY <1>2
  <1> QED
    BY <1>2, <1>3 DEF ToSet

\* A row that is not there.
LEMMA NoEntryFacts ==
  /\ NoEntry \in Row /\ NoEntry.status = "absent"
  BY ModeFacts DEF NoEntry, Row, Statuses, Purposes

\* No run.
LEMMA NoRunFacts ==
  /\ NoRun \in Runs /\ NoRun.phase = "idle" /\ NoRun.chosen = None /\ NoRun.seen = {}
  /\ \A s \in Sessions : NoRun.todo[s] = "none"
  <1>1. Unread \in [Sessions -> Purposes \cup {"none"}] /\ \A s \in Sessions : Unread[s] = "none"
    BY DEF Unread
  <1>2. <<>> \in Seq(Sessions)
    OBVIOUS
  <1> HIDE DEF Unread
  <1> QED
    BY <1>1, <1>2 DEF NoRun, Runs

\* What is active is in the table; the lists name active sessions.
LEMMA ListFacts ==
  ASSUME TypeOK
  PROVE  /\ ActiveSessions \in [Sessions -> Purposes \cup {"none"}]
         /\ \A s \in Sessions : ActiveSessions[s] # "none" => row[s].status # "absent"
         /\ \A s \in Sessions : row[s] \in Row
  <1>1. \A s \in Sessions : row[s] \in Row
    BY DEF TypeOK
  <1> QED
    BY <1>1 DEF ActiveSessions, Active, Row

\* A pool is a list of sessions in use, all of them meant for collecting.
LEMMA PoolFacts ==
  ASSUME NEW list \in CollectPools
  PROVE  /\ list \in Seq(Sessions)
         /\ \A i \in DOMAIN list : Active(list[i]) /\ row[list[i]].purpose = "collect"
  <1> DEFINE of(m) == {s \in Sessions : /\ Active(s) /\ row[s].purpose = "collect"
                                        /\ row[s].mode = Modes[m]}
             used == {m \in 1 .. Len(Modes) : of(m) # {}}
  <1>1. IsFiniteSet(1 .. Len(Modes))
    BY ModeFacts, FS_Interval
  <1>2. Cardinality(used) \in Nat
    BY <1>1, FS_Subset, FS_CardinalityType
  <1>3. /\ list \in [1 .. Cardinality(used) -> Sessions]
        /\ \E mode \in [DOMAIN list -> used] : \A i, k \in DOMAIN list :
              list[i] \in of(mode[i]) /\ (i < k => mode[i] < mode[k])
    BY DEF CollectPools
  <1>4. PICK mode \in [DOMAIN list -> used] : \A i \in DOMAIN list : list[i] \in of(mode[i])
    BY <1>3
  <1>5. \A i \in DOMAIN list : Active(list[i]) /\ row[list[i]].purpose = "collect"
    BY <1>4
  <1> HIDE DEF used
  <1> QED
    BY <1>2, <1>3, <1>5

-----------------------------------------------------------------------------
(* The actions, one by one *)

\* The next product begins with the first of the pool.
LEMMA FirstAgain ==
  ASSUME NEW r \in Runs
  PROVE  LET n == [r EXCEPT !.at = 1]
         IN  /\ n \in Runs /\ n.phase = r.phase /\ n.kind = r.kind /\ n.chosen = r.chosen
             /\ n.jar = r.jar /\ n.pool = r.pool /\ n.seen = r.seen /\ n.todo = r.todo
  <1> DEFINE n == [r EXCEPT !.at = 1]
  <1>1. n \in Runs
    BY DEF Runs
  <1>2. /\ n.phase = r.phase /\ n.kind = r.kind /\ n.chosen = r.chosen
        /\ n.jar = r.jar /\ n.pool = r.pool /\ n.seen = r.seen /\ n.todo = r.todo
    BY DEF Runs
  <1> QED
    BY <1>1, <1>2

\* So is that of a run.
LEMMA PoolOfRun ==
  ASSUME NEW r \in Runs
  PROVE  /\ r.pool \in Seq(Sessions) /\ r.at \in Nat
         /\ Len(r.pool) \in Nat /\ DOMAIN r.pool = 1 .. Len(r.pool)
         /\ \A i \in 1 .. Len(r.pool) : r.pool[i] \in Sessions
         /\ r.pool # <<>> => r.pool[1] \in Sessions
  <1>1. r.pool \in Seq(Sessions) /\ r.at \in Nat
    BY DEF Runs
  <1>2. /\ Len(r.pool) \in Nat /\ DOMAIN r.pool = 1 .. Len(r.pool)
        /\ \A i \in 1 .. Len(r.pool) : r.pool[i] \in Sessions
        /\ r.pool # <<>> => Len(r.pool) > 0
    BY <1>1
  <1> QED
    BY <1>1, <1>2

\* What only changes the run.
RunOnly ==
    (\E kind \in {"quick", "full"} : StartRun(kind)) \/ StartSingle
    \/ BeginCollecting \/ NextProduct \/ FallBack

\* One field at a time.
LEMMA CollectingFacts ==
  ASSUME TypeOK, RunsAreSeen, BeginCollecting
  PROVE  run' \in Runs /\ RunsAreSeen' /\ \A s \in Sessions : run'.todo[s] = "none"
  <1>0. run \in Runs /\ run.todo = Unread
    BY DEF TypeOK, BeginCollecting
  <1>1. CASE run.chosen = None
    <2>1. run' = NoRun
      BY <1>1 DEF BeginCollecting
    <2> QED
      BY <2>1, NoRunFacts DEF RunsAreSeen
  <1>2. CASE run.chosen # None
    <2> DEFINE r == [run EXCEPT !.phase = "collect", !.jar = run.chosen, !.seen = @ \cap {run.chosen}]
    <2>1. run' = r
      BY <1>2 DEF BeginCollecting
    <2>2. /\ r \in Runs /\ r.phase = "collect" /\ r.jar = run.chosen /\ r.chosen = run.chosen
          /\ r.seen = run.seen \cap {run.chosen} /\ r.todo = run.todo
      BY <1>0 DEF Runs
    <2>3. run.chosen \in run.seen
      BY <1>2 DEF RunsAreSeen
    <2> HIDE DEF r
    <2>4. run'.chosen = run.chosen /\ run'.jar = run'.chosen /\ run'.chosen \in run'.seen
      BY <2>1, <2>2, <2>3
    <2>5. RunsAreSeen'
      BY <1>2, <2>4 DEF RunsAreSeen
    <2> QED
      BY <1>0, <2>1, <2>2, <2>5 DEF Unread
  <1> QED
    BY <1>1, <1>2

\* A step of the run alone.
LEMMA RunOnlyFacts ==
  ASSUME TypeOK, RunsAreSeen, RunOnly
  PROVE  /\ run' \in Runs /\ RunsAreSeen'
         /\ \A s \in Sessions :
               run'.todo[s] # "none" => run.todo[s] # "none" \/ row[s].status # "absent"
         /\ UNCHANGED <<vendor, row, hand, round, told, cause, mixed, upsets>>
  <1>0. run \in Runs /\ UNCHANGED <<vendor, row, hand, round, told, cause, mixed, upsets>>
    BY DEF TypeOK, RunOnly, StartRun, StartSingle, BeginCollecting, NextProduct, FallBack
  <1>1. ASSUME NEW kind \in {"quick", "full"}, StartRun(kind)
        PROVE  /\ run' \in Runs /\ RunsAreSeen'
               /\ \A s \in Sessions : run'.todo[s] # "none" => row[s].status # "absent"
    <2>1. PICK list \in CollectPools :
            run' = [NoRun EXCEPT !.phase = "preflight", !.kind = kind, !.todo = ActiveSessions,
                                 !.pool = IF kind = "full" THEN list ELSE <<>>]
      BY <1>1 DEF StartRun
    <2> DEFINE pool == IF kind = "full" THEN list ELSE <<>>
    <2>2. pool \in Seq(Sessions)
      BY PoolFacts
    <2> HIDE DEF pool
    <2>3. run' = [NoRun EXCEPT !.phase = "preflight", !.kind = kind, !.todo = ActiveSessions,
                               !.pool = pool]
      BY <2>1 DEF pool
    <2>4. /\ run' \in Runs /\ run'.phase = "preflight" /\ run'.chosen = None
          /\ run'.todo = ActiveSessions
      BY <2>2, <2>3, ListFacts, NoRunFacts DEF Runs
    <2> QED
      BY <2>4, ListFacts DEF RunsAreSeen
  <1>2. CASE StartSingle
    <2>1. PICK list \in CollectPools :
            list # <<>> /\ run' = [NoRun EXCEPT !.phase = "collect", !.kind = "single", !.jar = list[1]]
      BY <1>2 DEF StartSingle
    <2>2. list[1] \in Sessions
      BY <2>1, PoolFacts
    <2>3. /\ run' \in Runs /\ run'.kind = "single" /\ run'.chosen = None
          /\ run'.todo = NoRun.todo
      BY <2>1, <2>2, NoRunFacts DEF Runs
    <2> QED
      BY <2>3, NoRunFacts, <1>0 DEF RunsAreSeen
  <1>3. CASE BeginCollecting
    BY <1>0, <1>3, CollectingFacts
  <1>4. CASE NextProduct
    <2>1. CASE run' = NoRun
      BY <1>0, <2>1, NoRunFacts DEF RunsAreSeen
    <2>2. CASE run' = [run EXCEPT !.at = 1]
      <3>1. /\ run' \in Runs /\ run'.phase = run.phase /\ run'.kind = run.kind
            /\ run'.chosen = run.chosen /\ run'.jar = run.jar /\ run'.pool = run.pool
            /\ run'.seen = run.seen /\ run'.todo = run.todo
        BY <1>0, <2>2, FirstAgain
      <3> QED
        BY <1>0, <3>1 DEF RunsAreSeen
    <2> QED
      BY <1>4, <2>1, <2>2 DEF NextProduct
  <1>5. CASE FallBack
    <2>1. /\ run.at < Len(run.pool) /\ run.kind = "full"
          /\ run' = [run EXCEPT !.at = @ + 1, !.jar = run.pool[run.at + 1]]
      BY <1>5 DEF FallBack, Stale
    <2>2. /\ run.at + 1 \in DOMAIN run.pool /\ run.pool[run.at + 1] \in Sessions
          /\ run.at + 1 \in Nat
      BY <1>0, <2>1, PoolOfRun
    <2>3. /\ run' \in Runs /\ run'.phase = run.phase /\ run'.kind = run.kind
          /\ run'.chosen = run.chosen /\ run'.jar = run.pool[run.at + 1] /\ run'.pool = run.pool
          /\ run'.seen = run.seen /\ run'.todo = run.todo
      BY <1>0, <2>1, <2>2 DEF Runs
    <2>4. run'.jar \in ToSet(run'.pool)
      BY <2>2, <2>3 DEF ToSet
    <2> QED
      BY <1>0, <2>1, <2>3, <2>4 DEF RunsAreSeen
  <1> QED
    BY <1>0, <1>1, <1>2, <1>3, <1>4, <1>5 DEF RunOnly

\* A full run that is out of sessions.
LEMMA GiveUpFacts ==
  ASSUME TypeOK, RunsAreSeen, GiveUp
  PROVE  /\ run' \in Runs /\ RunsAreSeen'
         /\ \A s \in Sessions : run'.todo[s] # "none" => run.todo[s] # "none"
         /\ row' \in [Sessions -> Row] /\ told' \in [Sessions -> {"", "told", "lost"}]
         /\ cause' \in [Sessions -> {"", "seen", "marker", "network", "blamed", "validated"}]
         /\ \A s \in Sessions :
               \/ row'[s] = row[s] /\ told'[s] = told[s] /\ cause'[s] = cause[s]
               \/ cause'[s] = "blamed" /\ row'[s] = row[s] /\ row[s].status = "absent"
               \/ /\ cause'[s] = "blamed" /\ row'[s].status = "expired"
                  /\ row[s].status # "absent"
         /\ UNCHANGED <<vendor, hand, round, mixed, upsets>>
  <1>0. /\ run \in Runs /\ row \in [Sessions -> Row]
        /\ told \in [Sessions -> {"", "told", "lost"}]
        /\ cause \in [Sessions -> {"", "seen", "marker", "network", "blamed", "validated"}]
        /\ UNCHANGED <<vendor, hand, round, mixed, upsets>>
    BY DEF TypeOK, GiveUp
  <1>1. /\ run' \in Runs /\ RunsAreSeen'
        /\ \A s \in Sessions : run'.todo[s] # "none" => run.todo[s] # "none"
    <2>1. CASE run' = NoRun
      BY <1>0, <2>1, NoRunFacts DEF RunsAreSeen
    <2>2. CASE run' = [run EXCEPT !.at = 1]
      <3>1. /\ run' \in Runs /\ run'.phase = run.phase /\ run'.kind = run.kind
            /\ run'.chosen = run.chosen /\ run'.jar = run.jar /\ run'.pool = run.pool
            /\ run'.seen = run.seen /\ run'.todo = run.todo
        BY <1>0, <2>2, FirstAgain
      <3> QED
        BY <1>0, <3>1 DEF RunsAreSeen
    <2> QED
      BY <2>1, <2>2 DEF GiveUp
  <1>2. CASE run.pool = <<>>
    <2>1. row' = row /\ told' = told /\ cause' = cause
      BY <1>2 DEF GiveUp
    <2> QED
      BY <1>0, <1>1, <2>1
  <1>3. CASE run.pool # <<>>
    <2> DEFINE s == run.pool[1]
               e == [row[s] EXCEPT !.status = "expired"]
    <2>1. s \in Sessions
      BY <1>0, <1>3, PoolOfRun
    <2>2. /\ SetStatus(s, "expired") /\ told' = [told EXCEPT ![s] = ""]
          /\ cause' = [cause EXCEPT ![s] = "blamed"]
      BY <1>3 DEF GiveUp
    <2> HIDE DEF s
    <2>3. e \in Row /\ e.status = "expired"
      BY <1>0, <2>1 DEF Row, Statuses
    <2>4. row' = IF row[s].status = "absent" THEN row ELSE [row EXCEPT ![s] = e]
      BY <1>0, <2>1, <2>2 DEF SetStatus
    <2> HIDE DEF e
    <2> QED
      BY <1>0, <1>1, <2>1, <2>2, <2>3, <2>4
  <1> QED
    BY <1>2, <1>3

\* A verdict is bad only if the session is.
LEMMA VerdictFacts ==
  ASSUME TypeOK, NEW s \in Sessions, vendor[s] # "none", NEW a \in Answers(s) \cup Bad, NEW p
  PROVE  /\ PreflightVerdict(a) \in Verdicts
         /\ HeartbeatVerdict(a, p) \in Verdicts
         /\ UserVerdict(a) \in Verdicts
         /\ PreflightVerdict(a) \in {"expired", "polluted"} => vendor[s] \in {"polluted", "expired"}
         /\ HeartbeatVerdict(a, p) \in {"expired", "polluted"} => vendor[s] \in {"polluted", "expired"}
         /\ UserVerdict(a) \in {"expired", "polluted"} => vendor[s] \in {"polluted", "expired"}
         /\ UserVerdict(a) # "marked"
  <1>1. vendor[s] \in {"good", "polluted", "expired"}
    BY DEF TypeOK
  <1>2. \/ vendor[s] = "good" /\ a = "page"
        \/ a = "marker"
        \/ vendor[s] = "polluted" /\ a = "license"
        \/ vendor[s] = "expired" /\ a = "portal"
        \/ a = "odd"
        \/ a = "nothing"
    BY <1>1 DEF Answers, Bad
  <1> USE DEF PreflightVerdict, HeartbeatVerdict, UserVerdict, Verdicts, Beats
  <1>3. CASE a = "page"
    BY <1>3
  <1>4. CASE a = "marker"
    <2>1. CASE p = "collect"
      BY <1>4, <2>1
    <2>2. CASE p # "collect"
      BY <1>4, <2>2
    <2> QED
      BY <2>1, <2>2
  <1>5. CASE a = "license" /\ vendor[s] = "polluted"
    BY <1>5
  <1>6. CASE a = "portal" /\ vendor[s] = "expired"
    BY <1>6
  <1>7. CASE a = "odd"
    BY <1>7
  <1>8. CASE a = "nothing"
    BY <1>8
  <1> QED
    BY <1>2, <1>3, <1>4, <1>5, <1>6, <1>7, <1>8

Probes(s) == Heartbeat(s) \/ Preflight(s) \/ Validate(s)

\* Somebody whose hands were free has a verdict now.
LEMMA ProbeFacts ==
  ASSUME TypeOK, ProbesAreReal, NEW s \in Sessions, Probes(s)
  PROVE  \E j \in Judges, v \in Verdicts :
            /\ hand[j] = Free /\ hand' \in [Judges -> Hands]
            /\ hand'[j].step = "status" /\ hand'[j].sid = s /\ hand'[j].verdict = v
            /\ \A k \in Judges \ {j} : hand'[k] = hand[k]
            /\ vendor[s] # "none"
            /\ v \in {"expired", "polluted"} => vendor[s] \in {"polluted", "expired"}
            /\ j = "user" => v # "marked"
            /\ round' \in [Sessions -> Purposes \cup {"none"}]
            /\ \A x \in Sessions : round'[x] # "none" => round[x] # "none"
            /\ upsets' \in 0..MaxUpsets
            /\ UNCHANGED <<vendor, row, run, told, cause, mixed>>
  <1>0. /\ hand \in [Judges -> Hands] /\ round \in [Sessions -> Purposes \cup {"none"}]
        /\ upsets \in 0..MaxUpsets /\ run \in Runs
    BY DEF TypeOK
  <1>1. ASSUME NEW j \in Judges, NEW v \in Verdicts, NEW a, Probe(j, s, a, v)
        PROVE  /\ hand[j] = Free /\ hand' \in [Judges -> Hands]
               /\ hand'[j].step = "status" /\ hand'[j].sid = s /\ hand'[j].verdict = v
               /\ \A k \in Judges \ {j} : hand'[k] = hand[k]
               /\ upsets' \in 0..MaxUpsets
    <2> DEFINE h == [step |-> "status", sid |-> s, verdict |-> v]
    <2>1. h \in Hands /\ h.step = "status" /\ h.sid = s /\ h.verdict = v
      BY DEF Hands
    <2>2. hand[j] = Free /\ hand' = [hand EXCEPT ![j] = h]
      BY <1>1 DEF Probe
    <2>3. upsets' \in 0..MaxUpsets
      BY <1>0, <1>1, PoolAssumption DEF Probe, Upset
    <2> HIDE DEF h
    <2> QED
      BY <1>0, <2>1, <2>2, <2>3
  <1>2. "preflight" \in Judges /\ "heartbeat" \in Judges /\ "user" \in Judges
    BY DEF Judges
  <1>3. CASE Heartbeat(s)
    <2>1. PICK a \in Answers(s) \cup Bad : Probe("heartbeat", s, a, HeartbeatVerdict(a, round[s]))
      BY <1>3 DEF Heartbeat
    <2>2. vendor[s] # "none"
      BY <1>3 DEF Heartbeat, ProbesAreReal
    <2>3. /\ round' = [round EXCEPT ![s] = "none"]
          /\ UNCHANGED <<vendor, row, run, told, cause, mixed>>
      BY <1>3 DEF Heartbeat
    <2>4. /\ round' \in [Sessions -> Purposes \cup {"none"}]
          /\ \A x \in Sessions : round'[x] # "none" => round[x] # "none"
      BY <1>0, <2>3
    <2> DEFINE v == HeartbeatVerdict(a, round[s])
    <2>5. v \in Verdicts /\ (v \in {"expired", "polluted"} => vendor[s] \in {"polluted", "expired"})
      BY <2>1, <2>2, VerdictFacts
    <2> HIDE DEF v
    <2>6. Probe("heartbeat", s, a, v)
      BY <2>1 DEF v
    <2> QED
      BY <1>1, <1>2, <2>2, <2>3, <2>4, <2>5, <2>6
  <1>4. CASE Preflight(s)
    <2>1. PICK a \in Answers(s) \cup Bad : Probe("preflight", s, a, PreflightVerdict(a))
      BY <1>4 DEF Preflight
    <2>2. vendor[s] # "none"
      BY <1>4 DEF Preflight, ProbesAreReal
    <2>3. UNCHANGED <<vendor, row, run, told, cause, mixed>> /\ round' = round
      BY <1>4 DEF Preflight
    <2> DEFINE v == PreflightVerdict(a)
    <2>5. v \in Verdicts /\ (v \in {"expired", "polluted"} => vendor[s] \in {"polluted", "expired"})
      BY <2>1, <2>2, VerdictFacts
    <2> HIDE DEF v
    <2>6. Probe("preflight", s, a, v)
      BY <2>1 DEF v
    <2> QED
      BY <1>0, <1>1, <1>2, <2>2, <2>3, <2>5, <2>6
  <1>5. CASE Validate(s)
    <2>1. PICK a \in Answers(s) \cup Bad : Probe("user", s, a, UserVerdict(a))
      BY <1>5 DEF Validate
    <2>2. vendor[s] # "none"
      BY <1>5 DEF Validate, ProbesAreReal
    <2>3. UNCHANGED <<vendor, row, run, told, cause, mixed>> /\ round' = round
      BY <1>5 DEF Validate
    <2> DEFINE v == UserVerdict(a)
    <2>5. v \in Verdicts /\ (v \in {"expired", "polluted"} => vendor[s] \in {"polluted", "expired"})
          /\ v # "marked"
      BY <2>1, <2>2, VerdictFacts
    <2> HIDE DEF v
    <2>6. Probe("user", s, a, v)
      BY <2>1 DEF v
    <2> QED
      BY <1>0, <1>1, <1>2, <2>2, <2>3, <2>5, <2>6
  <1> QED
    BY <1>3, <1>4, <1>5 DEF Probes

\* What the pre-flight makes of a verdict.
LEMMA TurnedFacts ==
  ASSUME TypeOK, NEW j \in Judges, NEW s \in Sessions
  PROVE  LET n == Turned(j, s)
         IN  /\ n \in Runs
             /\ n.phase = run.phase /\ n.kind = run.kind /\ n.pool = run.pool /\ n.jar = run.jar
             /\ \A x \in Sessions : n.todo[x] # "none" => run.todo[x] # "none"
             /\ run.seen \subseteq n.seen
             /\ n.chosen = run.chosen \/ (run.chosen = None /\ n.chosen \in n.seen)
  <1>0. run \in Runs
    BY DEF TypeOK
  <1>1. CASE j # "preflight"
    <2> DEFINE n == Turned(j, s)
    <2>1. n = run
      BY <1>1 DEF Turned
    <2> HIDE DEF n
    <2>2. /\ n \in Runs
          /\ n.phase = run.phase /\ n.kind = run.kind /\ n.pool = run.pool /\ n.jar = run.jar
          /\ n.todo = run.todo /\ n.seen = run.seen /\ n.chosen = run.chosen
      BY <1>0, <2>1
    <2> QED
      BY <2>2 DEF n
  <1>2. CASE j = "preflight"
    <2> DEFINE todo == [run.todo EXCEPT ![s] = "none"]
               seen == IF hand[j].verdict = "ok" /\ run.todo[s] = "collect"
                       THEN run.seen \cup {s} ELSE run.seen
               chosen == IF hand[j].verdict = "ok" /\ Picks(s) THEN s ELSE run.chosen
               n == [run EXCEPT !.todo = todo, !.seen = seen, !.chosen = chosen]
    <2>0. run.todo \in [Sessions -> Purposes \cup {"none"}] /\ run.seen \in SUBSET Sessions
          /\ run.chosen \in Sessions \cup {None}
      BY <1>0 DEF Runs
    <2>1. Turned(j, s) = n
      BY <1>0, <1>2 DEF Turned, Runs
    <2>2. /\ todo \in [Sessions -> Purposes \cup {"none"}]
          /\ \A x \in Sessions : todo[x] # "none" => run.todo[x] # "none"
      BY <2>0
    <2>3. /\ seen \in SUBSET Sessions /\ run.seen \subseteq seen
          /\ chosen \in Sessions \cup {None}
          /\ chosen = run.chosen \/ (run.chosen = None /\ chosen \in seen)
      <3>1. CASE hand[j].verdict = "ok" /\ Picks(s)
        <4>1. run.chosen = None /\ run.todo[s] = "collect"
          BY <3>1 DEF Picks
        <4>2. seen = run.seen \cup {s} /\ chosen = s
          BY <3>1, <4>1
        <4> QED
          BY <2>0, <4>1, <4>2
      <3>2. CASE ~ (hand[j].verdict = "ok" /\ Picks(s))
        <4>1. chosen = run.chosen
          BY <3>2
        <4> QED
          BY <2>0, <4>1
      <3> QED
        BY <3>1, <3>2
    <2> HIDE DEF todo, seen, chosen
    <2>4. n \in Runs
      BY <1>0, <2>2, <2>3 DEF Runs
    <2>5. /\ n.phase = run.phase /\ n.kind = run.kind /\ n.pool = run.pool /\ n.jar = run.jar
          /\ n.todo = todo /\ n.seen = seen /\ n.chosen = chosen
      BY <1>0 DEF Runs
    <2> HIDE DEF n
    <2> QED
      BY <2>1, <2>2, <2>3, <2>4, <2>5
  <1> QED
    BY <1>1, <1>2

\* A session that turned out good in the pre-flight was seen by it.
LEMMA TurnedIsSeen ==
  ASSUME TypeOK, RunsAreSeen, NEW j \in Judges, NEW s \in Sessions, run' = Turned(j, s)
  PROVE  /\ run' \in Runs /\ RunsAreSeen'
         /\ \A x \in Sessions : run'.todo[x] # "none" => run.todo[x] # "none"
  <1>1. /\ run'.phase = run.phase /\ run'.kind = run.kind /\ run'.pool = run.pool
        /\ run'.jar = run.jar /\ run.seen \subseteq run'.seen
        /\ run'.chosen = run.chosen \/ (run.chosen = None /\ run'.chosen \in run'.seen)
    BY TurnedFacts
  <1>2. RunsAreSeen'
    BY <1>1 DEF RunsAreSeen
  <1> QED
    BY <1>2, TurnedFacts

\* A status is written.
LEMMA SetStatusFacts ==
  ASSUME TypeOK, NEW s \in Sessions, NEW v \in Statuses, SetStatus(s, v)
  PROVE  /\ row' \in [Sessions -> Row]
         /\ \A x \in Sessions \ {s} : row'[x] = row[x]
         /\ row'[s].beat = row[s].beat
         /\ row'[s].status = IF row[s].status = "absent" THEN "absent" ELSE v
  <1> DEFINE e == [row[s] EXCEPT !.status = v]
  <1>1. row \in [Sessions -> Row] /\ row[s] \in Row
    BY DEF TypeOK
  <1>2. row' = IF row[s].status = "absent" THEN row ELSE [row EXCEPT ![s] = e]
    BY <1>1 DEF SetStatus
  <1>3. e \in Row /\ e.status = v /\ e.beat = row[s].beat
    BY <1>1 DEF Row
  <1> HIDE DEF e
  <1> QED
    BY <1>1, <1>2, <1>3

\* The result of a heartbeat is written.
LEMMA SetBeatFacts ==
  ASSUME TypeOK, NEW s \in Sessions, NEW b \in Beats, SetBeat(s, b)
  PROVE  /\ row' \in [Sessions -> Row]
         /\ \A x \in Sessions \ {s} : row'[x] = row[x]
         /\ row'[s].status = row[s].status
         /\ row[s].status = "absent" \/ row'[s].beat = b
  <1> DEFINE e == [row[s] EXCEPT !.beat = b]
  <1>1. row \in [Sessions -> Row] /\ row[s] \in Row
    BY DEF TypeOK
  <1>2. row' = IF row[s].status = "absent" THEN row ELSE [row EXCEPT ![s] = e]
    BY <1>1 DEF SetBeat
  <1>3. e \in Row /\ e.beat = b /\ e.status = row[s].status
    BY <1>1 DEF Row
  <1> HIDE DEF e
  <1> QED
    BY <1>1, <1>2, <1>3

\* Whose turn it is.
LEMMA HandFacts ==
  ASSUME TypeOK, ProbesAreReal, NEW j \in Judges, hand[j].step # "none"
  PROVE  /\ hand[j] \in Hands /\ hand[j].sid \in Sessions /\ hand[j].verdict \in Verdicts
         /\ vendor[hand[j].sid] # "none"
         /\ hand[j].verdict \in {"expired", "polluted"} =>
               vendor[hand[j].sid] \in {"polluted", "expired"}
         /\ j = "user" => hand[j].verdict # "marked"
         /\ BeatFor(j, hand[j].verdict) \in Beats
  <1>1. /\ hand[j] \in Hands /\ hand[j].sid \in Sessions /\ hand[j].verdict \in Verdicts
        /\ vendor[hand[j].sid] # "none"
        /\ hand[j].verdict \in {"expired", "polluted"} =>
              vendor[hand[j].sid] \in {"polluted", "expired"}
        /\ j = "user" => hand[j].verdict # "marked"
    BY DEF TypeOK, ProbesAreReal, Hands
  <1>2. \A v \in Verdicts : BeatFor(j, v) \in Beats
    BY DEF BeatFor, Verdicts, Beats
  <1> QED
    BY <1>1, <1>2

\* The new status of a verdict, and why.
LEMMA StatusFacts ==
  ASSUME NEW j \in Judges, NEW v \in Verdicts
  PROVE  LET new == StatusFor(j, v)
         IN  \/ new = "none" /\ v = "ok" /\ j = "heartbeat"
             \/ new = "none" /\ v = "error" /\ j # "preflight"
             \/ new = "active" /\ v = "ok" /\ j # "heartbeat"
             \/ new = "polluted" /\ v \in {"polluted", "marked"} /\ j = "preflight"
             \/ new = "expired" /\ v = "error" /\ j = "preflight"
             \/ new = "expired" /\ v \in {"expired", "polluted", "marked"}
  <1>1. j = "preflight" \/ j = "heartbeat" \/ j = "user"
    BY DEF Judges
  <1>2. v = "ok" \/ v = "expired" \/ v = "polluted" \/ v = "error" \/ v = "marked"
    BY DEF Verdicts, Beats
  <1>3. CASE j = "preflight"
    <2>1. CASE v = "ok"
      BY <1>3, <2>1 DEF StatusFor
    <2>2. CASE v = "expired"
      BY <1>3, <2>2 DEF StatusFor
    <2>3. CASE v = "polluted"
      BY <1>3, <2>3 DEF StatusFor
    <2>4. CASE v = "error"
      BY <1>3, <2>4 DEF StatusFor
    <2>5. CASE v = "marked"
      BY <1>3, <2>5 DEF StatusFor
    <2> QED
      BY <1>2, <2>1, <2>2, <2>3, <2>4, <2>5
  <1>4. CASE j = "heartbeat"
    <2>1. CASE v = "ok"
      BY <1>4, <2>1 DEF StatusFor
    <2>2. CASE v = "expired"
      BY <1>4, <2>2 DEF StatusFor
    <2>3. CASE v = "polluted"
      BY <1>4, <2>3 DEF StatusFor
    <2>4. CASE v = "error"
      BY <1>4, <2>4 DEF StatusFor
    <2>5. CASE v = "marked"
      BY <1>4, <2>5 DEF StatusFor
    <2> QED
      BY <1>2, <2>1, <2>2, <2>3, <2>4, <2>5
  <1>5. CASE j = "user"
    <2>1. CASE v = "ok"
      BY <1>5, <2>1 DEF StatusFor
    <2>2. CASE v = "expired"
      BY <1>5, <2>2 DEF StatusFor
    <2>3. CASE v = "polluted"
      BY <1>5, <2>3 DEF StatusFor
    <2>4. CASE v = "error"
      BY <1>5, <2>4 DEF StatusFor
    <2>5. CASE v = "marked"
      BY <1>5, <2>5 DEF StatusFor
    <2> QED
      BY <1>2, <2>1, <2>2, <2>3, <2>4, <2>5
  <1> QED
    BY <1>1, <1>3, <1>4, <1>5

\* The first write of a pair.
LEMMA WriteStatusFacts ==
  ASSUME TypeOK, ProbesAreReal, NEW j \in Judges, WriteStatus(j)
  PROVE  LET s == hand[j].sid
             v == hand[j].verdict
             new == StatusFor(j, v)
         IN  /\ s \in Sessions /\ hand[j].step = "status" /\ v \in Verdicts
             /\ hand' \in [Judges -> Hands]
             /\ hand'[j].step = "beat" /\ hand'[j].sid = s /\ hand'[j].verdict = v
             /\ \A k \in Judges \ {j} : hand'[k] = hand[k]
             /\ row' \in [Sessions -> Row] /\ told' \in [Sessions -> {"", "told", "lost"}]
             /\ cause' \in [Sessions -> {"", "seen", "marker", "network", "blamed", "validated"}]
             /\ \A x \in Sessions \ {s} :
                   row'[x] = row[x] /\ told'[x] = told[x] /\ cause'[x] = cause[x]
             /\ \/ new = "none" /\ row' = row /\ told' = told /\ cause' = cause
                \/ /\ new # "none" /\ row'[s].beat = row[s].beat
                   /\ row'[s].status = IF row[s].status = "absent" THEN "absent" ELSE new
                   /\ cause'[s] = CauseFor(j, v)
             /\ Mixes(j, s)
             /\ UNCHANGED <<vendor, round, run, upsets>>
  <1> DEFINE s == hand[j].sid
             v == hand[j].verdict
             new == StatusFor(j, v)
             why == CauseFor(j, v)
             h == [hand[j] EXCEPT !.step = "beat"]
  <1>1. hand[j].step = "status" /\ Mixes(j, s) /\ UNCHANGED <<vendor, round, run, upsets>>
    BY DEF WriteStatus
  <1>2. s \in Sessions /\ v \in Verdicts /\ hand[j] \in Hands /\ hand \in [Judges -> Hands]
    BY <1>1, HandFacts DEF TypeOK
  <1>3. /\ row \in [Sessions -> Row] /\ told \in [Sessions -> {"", "told", "lost"}]
        /\ cause \in [Sessions -> {"", "seen", "marker", "network", "blamed", "validated"}]
    BY DEF TypeOK
  <1>4. hand' = [hand EXCEPT ![j] = h]
    BY <1>2 DEF WriteStatus
  <1>5. h \in Hands /\ h.step = "beat" /\ h.sid = s /\ h.verdict = v
    BY <1>2 DEF Hands
  <1>6. why \in {"", "seen", "marker", "network", "blamed", "validated"}
    BY DEF CauseFor
  <1>7. CASE new = "none"
    <2>1. row' = row /\ told' = told /\ cause' = cause
      BY <1>7 DEF WriteStatus
    <2> HIDE DEF h, s, v, new
    <2> QED
      BY <1>1, <1>2, <1>3, <1>4, <1>5, <1>7, <2>1 DEF s, v, new
  <1>8. CASE new # "none"
    <2>1. /\ SetStatus(s, new) /\ told' = [told EXCEPT ![s] = ""]
          /\ cause' = [cause EXCEPT ![s] = why]
      BY <1>8 DEF WriteStatus
    <2>2. new \in Statuses
      BY <1>2, <1>8, StatusFacts DEF Statuses
    <2>3. /\ row' \in [Sessions -> Row] /\ \A x \in Sessions \ {s} : row'[x] = row[x]
          /\ row'[s].beat = row[s].beat
          /\ row'[s].status = IF row[s].status = "absent" THEN "absent" ELSE new
      BY <1>2, <2>1, <2>2, SetStatusFacts
    <2> HIDE DEF h, s, v, new, why
    <2>4. /\ told' \in [Sessions -> {"", "told", "lost"}]
          /\ cause' \in [Sessions -> {"", "seen", "marker", "network", "blamed", "validated"}]
          /\ cause'[s] = why
          /\ \A x \in Sessions \ {s} : told'[x] = told[x] /\ cause'[x] = cause[x]
      BY <1>2, <1>3, <1>6, <2>1
    <2>5. /\ hand' \in [Judges -> Hands]
          /\ hand'[j].step = "beat" /\ hand'[j].sid = s /\ hand'[j].verdict = v
          /\ \A k \in Judges \ {j} : hand'[k] = hand[k]
      BY <1>2, <1>4, <1>5
    <2> QED
      BY <1>1, <1>2, <1>8, <2>3, <2>4, <2>5 DEF s, v, new, why
  <1> QED
    BY <1>7, <1>8

\* The end of a verdict.
LEMMA NoticeFacts ==
  ASSUME TypeOK, RunsAreSeen, NEW j \in Judges, NEW s \in Sessions, NEW sent \in BOOLEAN,
         Notice(j, s, sent)
  PROVE  /\ upsets' \in 0..MaxUpsets
         /\ told' \in [Sessions -> {"", "told", "lost"}]
         /\ \A x \in Sessions \ {s} : told'[x] = told[x]
         /\ told'[s] = told[s] \/ told'[s] # ""
         /\ Tells(j) => told'[s] # ""
         /\ hand' \in [Judges -> Hands] /\ hand'[j] = Free
         /\ \A k \in Judges \ {j} : hand'[k] = hand[k]
         /\ run' \in Runs /\ RunsAreSeen'
         /\ \A x \in Sessions : run'.todo[x] # "none" => run.todo[x] # "none"
  <1>1. /\ upsets \in 0..MaxUpsets /\ told \in [Sessions -> {"", "told", "lost"}]
        /\ hand \in [Judges -> Hands]
    BY DEF TypeOK
  <1>2. upsets' \in 0..MaxUpsets
    <2>1. upsets' = upsets \/ (upsets < MaxUpsets /\ upsets' = upsets + 1)
      BY DEF Notice, Upset
    <2>2. upsets \in 0..MaxUpsets
      BY <1>1
    <2> QED
      BY <2>1, <2>2, PoolAssumption
  <1>3. /\ told' \in [Sessions -> {"", "told", "lost"}]
        /\ \A x \in Sessions \ {s} : told'[x] = told[x]
        /\ told'[s] = told[s] \/ told'[s] # ""
        /\ Tells(j) => told'[s] # ""
    <2>1. told' = [told EXCEPT ![s] = IF ~ Tells(j) THEN @ ELSE IF sent THEN "told" ELSE "lost"]
      BY DEF Notice
    <2>2. CASE ~ Tells(j)
      BY <1>1, <2>1, <2>2
    <2>3. CASE Tells(j) /\ sent
      BY <1>1, <2>1, <2>3
    <2>4. CASE Tells(j) /\ ~ sent
      BY <1>1, <2>1, <2>4
    <2> QED
      BY <2>2, <2>3, <2>4
  <1>4. /\ hand' \in [Judges -> Hands] /\ hand'[j] = Free
        /\ \A k \in Judges \ {j} : hand'[k] = hand[k]
    BY <1>1, FreeFacts DEF Notice
  <1>5. run' = Turned(j, s)
    BY DEF Notice
  <1> QED
    BY <1>2, <1>3, <1>4, <1>5, TurnedIsSeen

\* The second write of a pair.
LEMMA WriteBeatFacts ==
  ASSUME TypeOK, ProbesAreReal, RunsAreSeen, NEW j \in Judges, NEW sent \in BOOLEAN,
         WriteBeat(j, sent)
  PROVE  LET s == hand[j].sid
         IN  /\ s \in Sessions /\ hand[j].step = "beat" /\ Mixes(j, s)
             /\ Notice(j, s, sent)
             /\ row' \in [Sessions -> Row]
             /\ \A x \in Sessions \ {s} : row'[x] = row[x]
             /\ row'[s].status = row[s].status
             /\ row[s].status = "absent" \/ row'[s].beat = BeatFor(j, hand[j].verdict)
             /\ UNCHANGED <<vendor, round, cause>>
  <1>1. /\ hand[j].step = "beat" /\ Mixes(j, hand[j].sid) /\ Notice(j, hand[j].sid, sent)
        /\ SetBeat(hand[j].sid, BeatFor(j, hand[j].verdict))
        /\ UNCHANGED <<vendor, round, cause>>
    BY DEF WriteBeat
  <1>2. hand[j].sid \in Sessions /\ BeatFor(j, hand[j].verdict) \in Beats
    BY <1>1, HandFacts
  <1> QED
    BY <1>1, <1>2, SetBeatFacts

\* A write that fails drops the verdict.
LEMMA WriteFailsFacts ==
  ASSUME TypeOK, ProbesAreReal, RunsAreSeen, NEW j \in Judges, WriteFails(j)
  PROVE  LET s == hand[j].sid
         IN  /\ s \in Sessions /\ mixed' = mixed \cup {s} /\ upsets' \in 0..MaxUpsets
             /\ told' \in [Sessions -> {"", "told", "lost"}]
             /\ \A x \in Sessions \ {s} : told'[x] = told[x]
             /\ told'[s] = told[s] \/ told'[s] # ""
             /\ Tells(j) => told'[s] # ""
             /\ hand' \in [Judges -> Hands] /\ hand'[j] = Free
             /\ \A k \in Judges \ {j} : hand'[k] = hand[k]
             /\ run' \in Runs /\ RunsAreSeen'
             /\ \A x \in Sessions : run'.todo[x] # "none" => run.todo[x] # "none"
             /\ UNCHANGED <<vendor, row, round, cause>>
  <1> DEFINE s == hand[j].sid
  <1>1. /\ upsets \in 0..MaxUpsets /\ told \in [Sessions -> {"", "told", "lost"}]
        /\ hand \in [Judges -> Hands]
    BY DEF TypeOK
  <1>2. /\ hand[j].step # "none" /\ mixed' = mixed \cup {s} /\ Upset
        /\ told' = [told EXCEPT ![s] = IF Tells(j) THEN "told" ELSE @]
        /\ hand' = [hand EXCEPT ![j] = Free] /\ run' = Turned(j, s)
        /\ UNCHANGED <<vendor, row, round, cause>>
    BY DEF WriteFails
  <1>3. s \in Sessions
    BY <1>2, HandFacts
  <1>4. upsets' \in 0..MaxUpsets
    <2>1. upsets < MaxUpsets /\ upsets' = upsets + 1
      BY <1>2 DEF Upset
    <2>2. upsets \in 0..MaxUpsets
      BY <1>1
    <2> QED
      BY <2>1, <2>2, PoolAssumption
  <1> HIDE DEF s
  <1>5. /\ told' \in [Sessions -> {"", "told", "lost"}]
        /\ \A x \in Sessions \ {s} : told'[x] = told[x]
        /\ told'[s] = told[s] \/ told'[s] # ""
        /\ Tells(j) => told'[s] # ""
    <2>1. CASE Tells(j)
      BY <1>1, <1>2, <1>3, <2>1
    <2>2. CASE ~ Tells(j)
      BY <1>1, <1>2, <1>3, <2>2
    <2> QED
      BY <2>1, <2>2
  <1>6. /\ hand' \in [Judges -> Hands] /\ hand'[j] = Free
        /\ \A k \in Judges \ {j} : hand'[k] = hand[k]
    BY <1>1, <1>2, FreeFacts
  <1>7. /\ run' \in Runs /\ RunsAreSeen'
        /\ \A x \in Sessions : run'.todo[x] # "none" => run.todo[x] # "none"
    BY <1>2, <1>3, TurnedIsSeen
  <1> QED
    BY <1>2, <1>3, <1>4, <1>5, <1>6, <1>7 DEF s

\* Whose work is dropped, by a failure or a crash.
LEMMA DropsFacts ==
  ASSUME TypeOK, ProbesAreReal, RunsAreSeen, NEW J \in SUBSET Judges, Drops(J)
  PROVE  /\ hand' \in [Judges -> Hands]
         /\ \A j \in Judges : hand'[j] = IF j \in J THEN Free ELSE hand[j]
         /\ run' \in Runs /\ RunsAreSeen'
         /\ \A x \in Sessions : run'.todo[x] # "none" => run.todo[x] # "none"
         /\ round' \in [Sessions -> Purposes \cup {"none"}]
         /\ \A x \in Sessions : round'[x] # "none" => round[x] # "none"
         /\ told' \in [Sessions -> {"", "told", "lost"}]
         /\ \A x \in Sessions : told'[x] = IF x \in Untold(J) THEN "lost" ELSE told[x]
         /\ mixed \subseteq mixed' /\ mixed' \subseteq Sessions
         /\ \A j \in J : hand[j].step = "beat" => hand[j].sid \in mixed'
  <1>1. /\ hand \in [Judges -> Hands] /\ run \in Runs /\ mixed \subseteq Sessions
        /\ round \in [Sessions -> Purposes \cup {"none"}]
        /\ told \in [Sessions -> {"", "told", "lost"}]
    BY DEF TypeOK
  <1>2. /\ hand' \in [Judges -> Hands]
        /\ \A j \in Judges : hand'[j] = IF j \in J THEN Free ELSE hand[j]
    BY <1>1, FreeFacts DEF Drops
  <1>3. /\ run' \in Runs /\ RunsAreSeen'
        /\ \A x \in Sessions : run'.todo[x] # "none" => run.todo[x] # "none"
    <2>1. CASE run' = NoRun
      BY <2>1, NoRunFacts DEF RunsAreSeen
    <2>2. CASE run' = run
      BY <1>1, <2>2 DEF RunsAreSeen
    <2> QED
      BY <2>1, <2>2 DEF Drops
  <1>4. /\ round' \in [Sessions -> Purposes \cup {"none"}]
        /\ \A x \in Sessions : round'[x] # "none" => round[x] # "none"
    BY <1>1 DEF Drops, Unread
  <1>5. /\ told' \in [Sessions -> {"", "told", "lost"}]
        /\ \A x \in Sessions : told'[x] = IF x \in Untold(J) THEN "lost" ELSE told[x]
    BY <1>1 DEF Drops
  <1>6. /\ mixed' = mixed \cup {hand[j].sid : j \in {k \in J : hand[k].step = "beat"}}
        /\ \A j \in J : hand[j].step = "beat" => hand[j].sid \in Sessions
    <2>1. mixed' = mixed \cup {hand[j].sid : j \in {k \in J : hand[k].step = "beat"}}
      BY DEF Drops
    <2>2. \A j \in J : hand[j].step = "beat" => hand[j].sid \in Sessions
      BY HandFacts
    <2> QED
      BY <2>1, <2>2
  <1>7. mixed \subseteq mixed' /\ mixed' \subseteq Sessions
    BY <1>1, <1>6
  <1>8. \A j \in J : hand[j].step = "beat" => hand[j].sid \in mixed'
    BY <1>6
  <1> QED
    BY <1>2, <1>3, <1>4, <1>5, <1>7, <1>8

\* What the user does to a row, apart from validating.
LEMMA CreateFacts ==
  ASSUME TypeOK, ProbesAreReal, NEW s \in Sessions, NEW p \in Purposes, NEW m \in ToSet(Modes),
         Create(s, p, m)
  PROVE  /\ vendor' \in [Sessions -> {"none", "good", "polluted", "expired"}]
         /\ vendor[s] = "none" /\ vendor'[s] = "good"
         /\ \A x \in Sessions \ {s} : vendor'[x] = vendor[x] /\ row'[x] = row[x]
         /\ row' \in [Sessions -> Row] /\ row[s].status = "absent" /\ row'[s].status = "unknown"
         /\ hand["user"] = Free /\ hand' \in [Judges -> Hands]
         /\ hand'["user"].step = "status" /\ hand'["user"].sid = s /\ hand'["user"].verdict = "ok"
         /\ \A k \in Judges \ {"user"} : hand'[k] = hand[k]
         /\ upsets' \in 0..MaxUpsets /\ UNCHANGED <<round, run, told, cause, mixed>>
  <1> DEFINE e == Entry("unknown", p, m, "")
             h == [step |-> "status", sid |-> s, verdict |-> "ok"]
  <1>1. /\ vendor \in [Sessions -> {"none", "good", "polluted", "expired"}]
        /\ row \in [Sessions -> Row] /\ hand \in [Judges -> Hands] /\ "user" \in Judges
    BY DEF TypeOK, Judges
  <1>2. e \in Row /\ e.status = "unknown"
    BY DEF Entry, Row, Statuses
  <1>3. h \in Hands /\ h.step = "status" /\ h.sid = s /\ h.verdict = "ok"
    BY DEF Hands, Verdicts, Beats
  <1>4. /\ vendor[s] = "none" /\ hand["user"] = Free /\ Upset
        /\ vendor' = [vendor EXCEPT ![s] = "good"] /\ row' = [row EXCEPT ![s] = e]
        /\ hand' = [hand EXCEPT !["user"] = h]
        /\ UNCHANGED <<round, run, told, cause, mixed>>
    BY DEF Create
  <1>5. row[s].status = "absent"
    BY <1>4 DEF ProbesAreReal
  <1>6. upsets' \in 0..MaxUpsets
    <2>1. upsets < MaxUpsets /\ upsets' = upsets + 1 /\ upsets \in 0..MaxUpsets
      BY <1>4 DEF Upset, TypeOK
    <2> QED
      BY <2>1, PoolAssumption
  <1> HIDE DEF e, h
  <1> QED
    BY <1>1, <1>2, <1>3, <1>4, <1>5, <1>6

\* Edits and deletions.
LEMMA EditFacts ==
  ASSUME TypeOK, NEW s \in Sessions,
         Delete(s) \/ \E p \in Purposes, m \in ToSet(Modes) : Repurpose(s, p, m)
  PROVE  /\ row' \in [Sessions -> Row] /\ \A x \in Sessions \ {s} : row'[x] = row[x]
         /\ \/ row'[s].status = "absent"
            \/ row'[s].status = row[s].status /\ row'[s].beat = row[s].beat
         /\ row[s].status # "absent"
         /\ upsets' \in 0..MaxUpsets
         /\ UNCHANGED <<vendor, hand, round, run, told, cause, mixed>>
  <1>1. row \in [Sessions -> Row] /\ row[s] \in Row
    BY DEF TypeOK
  <1>2. /\ Upset /\ row[s].status # "absent"
        /\ UNCHANGED <<vendor, hand, round, run, told, cause, mixed>>
    BY DEF Delete, Repurpose
  <1>3. upsets' \in 0..MaxUpsets
    <2>1. upsets < MaxUpsets /\ upsets' = upsets + 1 /\ upsets \in 0..MaxUpsets
      BY <1>2 DEF Upset, TypeOK
    <2> QED
      BY <2>1, PoolAssumption
  <1>4. CASE Delete(s)
    BY <1>1, <1>2, <1>3, <1>4, NoEntryFacts DEF Delete
  <1>5. ASSUME NEW p \in Purposes, NEW m \in ToSet(Modes), Repurpose(s, p, m)
        PROVE  /\ row' \in [Sessions -> Row] /\ \A x \in Sessions \ {s} : row'[x] = row[x]
               /\ row'[s].status = row[s].status /\ row'[s].beat = row[s].beat
    <2> DEFINE e == [row[s] EXCEPT !.purpose = p, !.mode = m]
    <2>1. row' = [row EXCEPT ![s] = e]
      BY <1>1, <1>5 DEF Repurpose
    <2>2. e \in Row /\ e.status = row[s].status /\ e.beat = row[s].beat
      BY <1>1 DEF Row
    <2> HIDE DEF e
    <2> QED
      BY <1>1, <2>1, <2>2
  <1> QED
    BY <1>2, <1>3, <1>4, <1>5

\* A session turns bad at the vendor.
LEMMA TurnsFacts ==
  ASSUME TypeOK, NEW s \in Sessions, Turns(s, "polluted") \/ Turns(s, "expired")
  PROVE  /\ vendor' \in [Sessions -> {"none", "good", "polluted", "expired"}]
         /\ \A x \in Sessions : /\ vendor[x] # "none" => vendor'[x] # "none"
                                /\ vendor'[x] = "good" => vendor[x] = "good"
                                /\ vendor[x] \in {"polluted", "expired"} =>
                                      vendor'[x] \in {"polluted", "expired"}
         /\ UNCHANGED <<row, hand, round, run, told, cause, mixed, upsets>>
  <1>1. vendor \in [Sessions -> {"none", "good", "polluted", "expired"}]
    BY DEF TypeOK
  <1>2. PICK state \in {"polluted", "expired"} : Turns(s, state)
    OBVIOUS
  <1>3. /\ vendor[s] \in {"good", "polluted"} /\ vendor' = [vendor EXCEPT ![s] = state]
        /\ UNCHANGED <<row, hand, round, run, told, cause, mixed, upsets>>
    BY <1>2 DEF Turns
  <1> QED
    BY <1>1, <1>3

\* A round of heartbeats starts.
LEMMA RoundFacts ==
  ASSUME TypeOK, StartRound
  PROVE  /\ round' \in [Sessions -> Purposes \cup {"none"}]
         /\ \A s \in Sessions : round'[s] # "none" => row[s].status # "absent"
         /\ UNCHANGED <<vendor, row, hand, run, told, cause, mixed, upsets>>
  BY ListFacts DEF StartRound

Breaks == Crash \/ \E j \in Judges : ThrownOut(j)

\* A process that ends drops all verdicts.
LEMMA BreaksFacts ==
  ASSUME TypeOK, Breaks
  PROVE  /\ \E J \in SUBSET Judges : Drops(J)
         /\ upsets' \in 0..MaxUpsets /\ UNCHANGED <<vendor, row, cause>>
  <1>1. /\ \E J \in SUBSET Judges : Drops(J)
        /\ Upset /\ UNCHANGED <<vendor, row, cause>>
    BY DEF Breaks, Crash, ThrownOut
  <1>2. upsets' \in 0..MaxUpsets
    <2>1. upsets < MaxUpsets /\ upsets' = upsets + 1 /\ upsets \in 0..MaxUpsets
      BY <1>1 DEF Upset, TypeOK
    <2> QED
      BY <2>1, PoolAssumption
  <1> QED
    BY <1>1, <1>2

\* One step of the system.
LEMMA Steps ==
  ASSUME Next
  PROVE  \/ RunOnly \/ GiveUp \/ StartRound
         \/ \E s \in Sessions : Probes(s)
         \/ \E j \in Judges : WriteStatus(j)
         \/ \E j \in Judges, sent \in BOOLEAN : WriteBeat(j, sent)
         \/ \E j \in Judges : WriteFails(j)
         \/ Breaks
         \/ \E s \in Sessions, p \in Purposes, m \in ToSet(Modes) : Create(s, p, m)
         \/ \E s \in Sessions :
               Delete(s) \/ \E p \in Purposes, m \in ToSet(Modes) : Repurpose(s, p, m)
         \/ \E s \in Sessions : Turns(s, "polluted") \/ Turns(s, "expired")
  <1>1. "preflight" \in Judges /\ "heartbeat" \in Judges /\ "user" \in Judges
    BY DEF Judges
  <1>2. CASE HeartbeatThread \/ Judge("user")
    BY <1>1, <1>2 DEF HeartbeatThread, Judge, Probes
  <1>3. CASE RunThread
    BY <1>1, <1>3 DEF RunThread, Judge, Probes, RunOnly
  <1>4. CASE \E j \in Judges : Trips(j)
    BY <1>4 DEF Trips, Breaks
  <1>5. CASE \E s \in Sessions : User(s)
    BY <1>5 DEF User, Probes
  <1>6. CASE (\E kind \in {"quick", "full"} : StartRun(kind)) \/ StartSingle \/ StartRound \/ Crash
    BY <1>6 DEF RunOnly, Breaks
  <1> QED
    BY <1>2, <1>3, <1>4, <1>5, <1>6 DEF Next

-----------------------------------------------------------------------------
(* Types, probes, runs *)

\* What the user has edited is remembered until the next run begins.
LEMMA EditedFacts ==
  ASSUME [Next]_vars
  PROVE  \/ edited' = edited
         \/ /\ edited' = {}
            /\ StartSingle \/ \E kind \in {"quick", "full"} : StartRun(kind)
         \/ \E s \in Sessions : edited' = edited \cup {s}
  <1>0. CASE UNCHANGED vars \/ StartRound \/ GiveUp \/ Breaks
    BY <1>0 DEF vars, StartRound, GiveUp, Breaks, Crash, ThrownOut
  <1>1. CASE RunOnly
    BY <1>1 DEF RunOnly, StartRun, StartSingle, BeginCollecting, NextProduct, FallBack
  <1>2. ASSUME NEW s \in Sessions, Probes(s) \/ Turns(s, "polluted") \/ Turns(s, "expired")
        PROVE  edited' = edited
    BY <1>2 DEF Probes, Heartbeat, Preflight, Validate, Turns
  <1>3. ASSUME NEW j \in Judges,
               WriteStatus(j) \/ WriteFails(j) \/ \E sent \in BOOLEAN : WriteBeat(j, sent)
        PROVE  edited' = edited
    BY <1>3 DEF WriteStatus, WriteFails, WriteBeat
  <1>4. ASSUME NEW s \in Sessions, NEW p \in Purposes, NEW m \in ToSet(Modes), Create(s, p, m)
        PROVE  edited' = edited
    BY <1>4 DEF Create
  <1>5. ASSUME NEW s \in Sessions,
               Delete(s) \/ \E p \in Purposes, m \in ToSet(Modes) : Repurpose(s, p, m)
        PROVE  edited' = edited \/ edited' = edited \cup {s}
    BY <1>5 DEF Delete, Repurpose
  <1> QED
    BY <1>0, <1>1, <1>2, <1>3, <1>4, <1>5, Steps

\* Crossing verdicts are remembered.
LEMMA MixesFacts ==
  ASSUME TypeOK, NEW j \in Judges, NEW s \in Sessions, Mixes(j, s)
  PROVE  /\ mixed \subseteq mixed' /\ mixed' \subseteq Sessions
         /\ s \notin mixed' => ~ Crossed(j, s) /\ ~ (j = "heartbeat" /\ Out(s))
         /\ mixed' \subseteq mixed \cup {s}
  <1>1. mixed' = IF Crossed(j, s) \/ (j = "heartbeat" /\ Out(s)) THEN mixed \cup {s} ELSE mixed
    BY DEF Mixes
  <1>2. mixed \subseteq Sessions
    BY DEF TypeOK
  <1> QED
    BY <1>1, <1>2

\* Every step keeps the types,
LEMMA TypeStep ==
  ASSUME TypeOK, ProbesAreReal, RunsAreSeen, [Next]_vars
  PROVE  TypeOK'
  <1>a. edited' \subseteq Sessions
    BY EditedFacts DEF TypeOK
  <1>0. CASE UNCHANGED vars
    BY <1>0 DEF TypeOK, vars
  <1>1. CASE RunOnly
    BY <1>a, <1>1, RunOnlyFacts DEF TypeOK
  <1>2. CASE GiveUp
    <2>1. /\ run' \in Runs /\ row' \in [Sessions -> Row]
          /\ told' \in [Sessions -> {"", "told", "lost"}]
          /\ cause' \in [Sessions -> {"", "seen", "marker", "network", "blamed", "validated"}]
          /\ UNCHANGED <<vendor, hand, round, mixed, upsets>>
      BY <1>2, GiveUpFacts
    <2> QED
      BY <1>a, <2>1 DEF TypeOK
  <1>3. CASE StartRound
    BY <1>a, <1>3, RoundFacts DEF TypeOK
  <1>4. ASSUME NEW s \in Sessions, Probes(s)
        PROVE  TypeOK'
    <2>1. /\ hand' \in [Judges -> Hands] /\ round' \in [Sessions -> Purposes \cup {"none"}]
          /\ upsets' \in 0..MaxUpsets /\ UNCHANGED <<vendor, row, run, told, cause, mixed>>
      BY <1>4, ProbeFacts
    <2> QED
      BY <1>a, <2>1 DEF TypeOK
  <1>5. ASSUME NEW j \in Judges, WriteStatus(j)
        PROVE  TypeOK'
    <2>1. /\ hand' \in [Judges -> Hands] /\ row' \in [Sessions -> Row]
          /\ told' \in [Sessions -> {"", "told", "lost"}]
          /\ cause' \in [Sessions -> {"", "seen", "marker", "network", "blamed", "validated"}]
          /\ hand[j].sid \in Sessions /\ Mixes(j, hand[j].sid)
          /\ UNCHANGED <<vendor, round, run, upsets>>
      BY <1>5, WriteStatusFacts
    <2>2. mixed' \subseteq Sessions
      BY <2>1, MixesFacts
    <2> QED
      BY <1>a, <2>1, <2>2 DEF TypeOK
  <1>6. ASSUME NEW j \in Judges, NEW sent \in BOOLEAN, WriteBeat(j, sent)
        PROVE  TypeOK'
    <2>1. /\ hand[j].sid \in Sessions /\ Mixes(j, hand[j].sid) /\ Notice(j, hand[j].sid, sent)
          /\ row' \in [Sessions -> Row] /\ UNCHANGED <<vendor, round, cause>>
      BY <1>6, WriteBeatFacts
    <2>2. /\ upsets' \in 0..MaxUpsets /\ told' \in [Sessions -> {"", "told", "lost"}]
          /\ hand' \in [Judges -> Hands] /\ run' \in Runs
      BY <2>1, NoticeFacts
    <2>3. mixed' \subseteq Sessions
      BY <2>1, MixesFacts
    <2> QED
      BY <1>a, <2>1, <2>2, <2>3 DEF TypeOK
  <1>7. ASSUME NEW j \in Judges, WriteFails(j)
        PROVE  TypeOK'
    <2>1. /\ hand[j].sid \in Sessions /\ mixed' = mixed \cup {hand[j].sid}
          /\ upsets' \in 0..MaxUpsets /\ told' \in [Sessions -> {"", "told", "lost"}]
          /\ hand' \in [Judges -> Hands] /\ run' \in Runs /\ UNCHANGED <<vendor, row, round, cause>>
      BY <1>7, WriteFailsFacts
    <2> QED
      BY <1>a, <2>1 DEF TypeOK
  <1>8. CASE Breaks
    BY <1>a, <1>8, BreaksFacts, DropsFacts DEF TypeOK
  <1>9. ASSUME NEW s \in Sessions, NEW p \in Purposes, NEW m \in ToSet(Modes), Create(s, p, m)
        PROVE  TypeOK'
    <2>1. /\ vendor' \in [Sessions -> {"none", "good", "polluted", "expired"}]
          /\ row' \in [Sessions -> Row] /\ hand' \in [Judges -> Hands]
          /\ upsets' \in 0..MaxUpsets /\ UNCHANGED <<round, run, told, cause, mixed>>
      BY <1>9, CreateFacts
    <2> QED
      BY <1>a, <2>1 DEF TypeOK
  <1>10. ASSUME NEW s \in Sessions,
                Delete(s) \/ \E p \in Purposes, m \in ToSet(Modes) : Repurpose(s, p, m)
         PROVE  TypeOK'
    BY <1>a, <1>10, EditFacts DEF TypeOK
  <1>11. ASSUME NEW s \in Sessions, Turns(s, "polluted") \/ Turns(s, "expired")
         PROVE  TypeOK'
    BY <1>a, <1>11, TurnsFacts DEF TypeOK
  <1> QED
    BY <1>0, <1>1, <1>2, <1>3, <1>4, <1>5, <1>6, <1>7, <1>8, <1>9, <1>10, <1>11, Steps

\* that verdicts are about what was seen,
LEMMA ProbesStep ==
  ASSUME TypeOK, ProbesAreReal, RunsAreSeen, [Next]_vars
  PROVE  ProbesAreReal'
  <1> DEFINE Known(r, n, o, v) == (r.status # "absent" \/ n # "none" \/ o # "none") => v # "none"
             Real(j, h, v) == h.step # "none" =>
                              /\ h.sid \in Sessions /\ v[h.sid] # "none"
                              /\ h.verdict \in {"expired", "polluted"} =>
                                    v[h.sid] \in {"polluted", "expired"}
                              /\ j = "user" => h.verdict # "marked"
  <1>a. /\ \A s \in Sessions : Known(row[s], run.todo[s], round[s], vendor[s])
        /\ \A j \in Judges : Real(j, hand[j], vendor)
    BY DEF ProbesAreReal
  <1>b. (/\ \A s \in Sessions : Known(row'[s], run'.todo[s], round'[s], vendor'[s])
         /\ \A j \in Judges : Real(j, hand'[j], vendor')) => ProbesAreReal'
    BY DEF ProbesAreReal
  <1>c. \A j, v : Real(j, Free, v)
    BY FreeFacts
  <1>0. CASE UNCHANGED vars
    BY <1>0, <1>a, <1>b DEF vars
  <1>1. CASE RunOnly
    BY <1>1, <1>a, <1>b, RunOnlyFacts
  <1>2. CASE GiveUp
    <2>1. /\ \A s \in Sessions : /\ run'.todo[s] # "none" => run.todo[s] # "none"
                                 /\ row'[s].status # "absent" => row[s].status # "absent"
          /\ UNCHANGED <<vendor, hand, round>>
      BY <1>2, GiveUpFacts
    <2> QED
      BY <2>1, <1>a, <1>b
  <1>3. CASE StartRound
    BY <1>3, <1>a, <1>b, RoundFacts
  <1>4. ASSUME NEW s \in Sessions, Probes(s)
        PROVE  ProbesAreReal'
    <2>1. PICK j \in Judges, v \in Verdicts :
            /\ hand'[j].step = "status" /\ hand'[j].sid = s /\ hand'[j].verdict = v
            /\ \A k \in Judges \ {j} : hand'[k] = hand[k]
            /\ vendor[s] # "none"
            /\ v \in {"expired", "polluted"} => vendor[s] \in {"polluted", "expired"}
            /\ j = "user" => v # "marked"
            /\ \A x \in Sessions : round'[x] # "none" => round[x] # "none"
            /\ UNCHANGED <<vendor, row, run, told, cause, mixed>>
      BY <1>4, ProbeFacts
    <2>2. Real(j, hand'[j], vendor')
      BY <2>1
    <2>3. \A k \in Judges : Real(k, hand'[k], vendor')
      BY <2>1, <2>2, <1>a
    <2>4. \A x \in Sessions : Known(row'[x], run'.todo[x], round'[x], vendor'[x])
      BY <2>1, <1>a
    <2> QED
      BY <2>3, <2>4, <1>b
  <1>5. ASSUME NEW j \in Judges, WriteStatus(j)
        PROVE  ProbesAreReal'
    <2>1. /\ hand[j].step = "status" /\ hand[j].sid \in Sessions
          /\ hand'[j].sid = hand[j].sid /\ hand'[j].verdict = hand[j].verdict
          /\ \A k \in Judges \ {j} : hand'[k] = hand[k]
          /\ \A x \in Sessions : row'[x].status # "absent" => row[x].status # "absent"
          /\ UNCHANGED <<vendor, round, run, upsets>>
      BY <1>5, WriteStatusFacts
    <2>2. Real(j, hand'[j], vendor')
      BY <2>1, <1>a
    <2>3. \A k \in Judges : Real(k, hand'[k], vendor')
      BY <2>1, <2>2, <1>a
    <2> QED
      BY <2>1, <2>3, <1>a, <1>b
  <1>6. ASSUME NEW j \in Judges, NEW sent \in BOOLEAN, WriteBeat(j, sent)
        PROVE  ProbesAreReal'
    <2>1. /\ hand[j].sid \in Sessions /\ Notice(j, hand[j].sid, sent)
          /\ \A x \in Sessions : row'[x].status = row[x].status
          /\ UNCHANGED <<vendor, round, cause>>
      BY <1>6, WriteBeatFacts
    <2>2. /\ hand'[j] = Free /\ \A k \in Judges \ {j} : hand'[k] = hand[k]
          /\ \A x \in Sessions : run'.todo[x] # "none" => run.todo[x] # "none"
      BY <2>1, NoticeFacts
    <2>3. \A k \in Judges : Real(k, hand'[k], vendor')
      BY <2>1, <2>2, <1>a, <1>c
    <2> QED
      BY <2>1, <2>2, <2>3, <1>a, <1>b
  <1>7. ASSUME NEW j \in Judges, WriteFails(j)
        PROVE  ProbesAreReal'
    <2>1. /\ hand'[j] = Free /\ \A k \in Judges \ {j} : hand'[k] = hand[k]
          /\ \A x \in Sessions : run'.todo[x] # "none" => run.todo[x] # "none"
          /\ UNCHANGED <<vendor, row, round, cause>>
      BY <1>7, WriteFailsFacts
    <2>2. \A k \in Judges : Real(k, hand'[k], vendor')
      BY <2>1, <1>a, <1>c
    <2> QED
      BY <2>1, <2>2, <1>a, <1>b
  <1>8. CASE Breaks
    <2>1. PICK J \in SUBSET Judges : Drops(J)
      BY <1>8, BreaksFacts
    <2>2. UNCHANGED <<vendor, row, cause>>
      BY <1>8, BreaksFacts
    <2>3. /\ \A j \in Judges : hand'[j] = IF j \in J THEN Free ELSE hand[j]
          /\ \A x \in Sessions : run'.todo[x] # "none" => run.todo[x] # "none"
          /\ \A x \in Sessions : round'[x] # "none" => round[x] # "none"
      BY <2>1, DropsFacts
    <2>4. \A k \in Judges : Real(k, hand'[k], vendor')
      BY <2>2, <2>3, <1>a, <1>c
    <2> QED
      BY <2>2, <2>3, <2>4, <1>a, <1>b
  <1>9. ASSUME NEW s \in Sessions, NEW p \in Purposes, NEW m \in ToSet(Modes), Create(s, p, m)
        PROVE  ProbesAreReal'
    <2>1. /\ vendor[s] = "none" /\ vendor'[s] = "good"
          /\ \A x \in Sessions \ {s} : vendor'[x] = vendor[x] /\ row'[x] = row[x]
          /\ hand'["user"].sid = s /\ hand'["user"].verdict = "ok"
          /\ \A k \in Judges \ {"user"} : hand'[k] = hand[k]
          /\ UNCHANGED <<round, run>>
      BY <1>9, CreateFacts
    <2>2. Real("user", hand'["user"], vendor')
      BY <2>1
    <2>3. ASSUME NEW k \in Judges \ {"user"}
          PROVE  Real(k, hand'[k], vendor')
      <3>1. hand[k].step # "none" => hand[k].sid # s
        BY <2>1, <1>a
      <3> QED
        BY <3>1, <2>1, <1>a
    <2> QED
      BY <2>1, <2>2, <2>3, <1>a, <1>b
  <1>10. ASSUME NEW s \in Sessions,
                Delete(s) \/ \E p \in Purposes, m \in ToSet(Modes) : Repurpose(s, p, m)
         PROVE  ProbesAreReal'
    <2>1. /\ \A x \in Sessions : row'[x].status # "absent" => row[x].status # "absent"
          /\ UNCHANGED <<vendor, hand, round, run>>
      BY <1>10, EditFacts
    <2> QED
      BY <2>1, <1>a, <1>b
  <1>11. ASSUME NEW s \in Sessions, Turns(s, "polluted") \/ Turns(s, "expired")
         PROVE  ProbesAreReal'
    BY <1>11, <1>a, <1>b, TurnsFacts
  <1> QED
    BY <1>0, <1>1, <1>2, <1>3, <1>4, <1>5, <1>6, <1>7, <1>8, <1>9, <1>10, <1>11, Steps

\* and that runs choose what they saw.
LEMMA SeenStep ==
  ASSUME TypeOK, ProbesAreReal, RunsAreSeen, [Next]_vars
  PROVE  RunsAreSeen'
  <1>0. ASSUME run' = run
        PROVE  RunsAreSeen'
    BY <1>0 DEF RunsAreSeen
  <1>1. CASE RunOnly
    BY <1>1, RunOnlyFacts
  <1>2. CASE GiveUp
    BY <1>2, GiveUpFacts
  <1>3. ASSUME NEW j \in Judges, WriteStatus(j)
        PROVE  RunsAreSeen'
    BY <1>3, <1>0 DEF WriteStatus
  <1>4. ASSUME NEW j \in Judges, NEW sent \in BOOLEAN, WriteBeat(j, sent)
        PROVE  RunsAreSeen'
    BY <1>4, WriteBeatFacts, NoticeFacts
  <1>5. ASSUME NEW j \in Judges, WriteFails(j)
        PROVE  RunsAreSeen'
    BY <1>5, WriteFailsFacts
  <1>6. CASE Breaks
    BY <1>6, BreaksFacts, DropsFacts
  <1>7. CASE UNCHANGED vars \/ StartRound
    BY <1>0, <1>7 DEF vars, StartRound
  <1>8. ASSUME NEW s \in Sessions, Probes(s)
        PROVE  RunsAreSeen'
    BY <1>0, <1>8 DEF Probes, Heartbeat, Preflight, Validate
  <1>9. ASSUME NEW s \in Sessions, NEW p \in Purposes, NEW m \in ToSet(Modes),
               Create(s, p, m) \/ Repurpose(s, p, m) \/ Delete(s)
        PROVE  RunsAreSeen'
    BY <1>0, <1>9 DEF Create, Repurpose, Delete
  <1>10. ASSUME NEW s \in Sessions, Delete(s) \/ Turns(s, "polluted") \/ Turns(s, "expired")
         PROVE  RunsAreSeen'
    BY <1>0, <1>10 DEF Delete, Turns
  <1> QED
    BY <1>1, <1>2, <1>3, <1>4, <1>5, <1>6, <1>7, <1>8, <1>9, <1>10, Steps

-----------------------------------------------------------------------------
(* What runs may turn to *)

\* A run may still turn to a session.
Uses(s, r) ==
    /\ r.phase # "idle"
    /\ \/ r.todo[s] = "collect" \/ s \in ToSet(r.pool) \/ s = r.chosen
       \/ r.phase = "collect" /\ s = r.jar

\* Nobody is used by no run.
LEMMA NoRunUses == \A s : ~ Uses(s, NoRun)
  BY NoRunFacts DEF Uses

\* A verdict of the pre-flight makes nobody new.
LEMMA TurnedUses ==
  ASSUME TypeOK, NEW j \in Judges, NEW s \in Sessions, NEW x \in Sessions, Uses(x, Turned(j, s))
  PROVE  Uses(x, run)
  <1>0. run \in Runs
    BY DEF TypeOK
  <1>1. CASE j # "preflight"
    BY <1>1 DEF Turned
  <1>2. CASE j = "preflight"
    <2> DEFINE todo == [run.todo EXCEPT ![s] = "none"]
               seen == IF hand[j].verdict = "ok" /\ run.todo[s] = "collect"
                       THEN run.seen \cup {s} ELSE run.seen
               chosen == IF hand[j].verdict = "ok" /\ Picks(s) THEN s ELSE run.chosen
               n == [run EXCEPT !.todo = todo, !.seen = seen, !.chosen = chosen]
    <2>0. run.todo \in [Sessions -> Purposes \cup {"none"}]
      BY <1>0 DEF Runs
    <2>1. Turned(j, s) = n
      BY <1>0, <1>2 DEF Turned, Runs
    <2>2. todo[x] = "collect" => run.todo[x] = "collect"
      BY <2>0
    <2>3. chosen = run.chosen \/ (chosen = s /\ run.todo[s] = "collect")
      BY DEF Picks
    <2> HIDE DEF todo, seen, chosen
    <2>4. /\ n.phase = run.phase /\ n.pool = run.pool /\ n.jar = run.jar
          /\ n.todo = todo /\ n.chosen = chosen
      BY <1>0 DEF Runs
    <2> HIDE DEF n
    <2>5. Uses(x, n)
      BY <2>1
    <2> QED
      BY <2>2, <2>3, <2>4, <2>5 DEF Uses
  <1> QED
    BY <1>1, <1>2

\* A run turns to sessions of its list and pool only.
LEMMA UsesKept ==
  ASSUME TypeOK, ProbesAreReal, RunsAreSeen, [Next]_vars,
         ~ StartSingle, \A kind \in {"quick", "full"} : ~ StartRun(kind),
         NEW x \in Sessions, Uses(x, run')
  PROVE  Uses(x, run)
  <1>0. run \in Runs
    BY DEF TypeOK
  <1>a. ASSUME run' = run PROVE Uses(x, run)
    BY <1>a
  <1>b. run' # NoRun
    BY NoRunUses
  <1>1. CASE BeginCollecting
    <2> DEFINE n == [run EXCEPT !.phase = "collect", !.jar = run.chosen,
                                !.seen = @ \cap {run.chosen}]
    <2>1. run' = n /\ run.phase = "preflight"
      BY <1>1, <1>b DEF BeginCollecting
    <2>2. /\ n.phase = "collect" /\ n.jar = run.chosen /\ n.chosen = run.chosen
          /\ n.pool = run.pool /\ n.todo = run.todo
      BY <1>0 DEF Runs
    <2> HIDE DEF n
    <2> QED
      BY <2>1, <2>2 DEF Uses
  <1>2. CASE NextProduct \/ GiveUp
    <2>1. run' = [run EXCEPT !.at = 1]
      BY <1>2, <1>b DEF NextProduct, GiveUp
    <2>2. /\ run'.phase = run.phase /\ run'.chosen = run.chosen /\ run'.jar = run.jar
          /\ run'.pool = run.pool /\ run'.todo = run.todo
      BY <1>0, <2>1, FirstAgain
    <2> QED
      BY <2>2 DEF Uses
  <1>3. CASE FallBack
    <2>1. /\ run.at < Len(run.pool) /\ run.phase = "collect"
          /\ run' = [run EXCEPT !.at = @ + 1, !.jar = run.pool[run.at + 1]]
      BY <1>3 DEF FallBack, Stale
    <2>2. run.at + 1 \in DOMAIN run.pool
      BY <1>0, <2>1, PoolOfRun
    <2>3. run.pool[run.at + 1] \in ToSet(run.pool)
      BY <2>2 DEF ToSet
    <2>4. /\ run'.phase = run.phase /\ run'.chosen = run.chosen
          /\ run'.jar = run.pool[run.at + 1] /\ run'.pool = run.pool /\ run'.todo = run.todo
      BY <1>0, <2>1 DEF Runs
    <2> QED
      BY <2>1, <2>3, <2>4 DEF Uses
  <1>4. ASSUME NEW j \in Judges, NEW sent \in BOOLEAN, WriteBeat(j, sent)
        PROVE  Uses(x, run)
    <2>1. hand[j].sid \in Sessions /\ Notice(j, hand[j].sid, sent)
      BY <1>4, WriteBeatFacts
    <2>2. run' = Turned(j, hand[j].sid)
      BY <2>1 DEF Notice
    <2> QED
      BY <2>1, <2>2, TurnedUses
  <1>5. ASSUME NEW j \in Judges, WriteFails(j)
        PROVE  Uses(x, run)
    <2>1. hand[j].sid \in Sessions /\ run' = Turned(j, hand[j].sid)
      BY <1>5, WriteFailsFacts DEF WriteFails
    <2> QED
      BY <2>1, TurnedUses
  <1>6. CASE Breaks
    <2>1. PICK J \in SUBSET Judges : Drops(J)
      BY <1>6, BreaksFacts
    <2>2. run' = NoRun \/ run' = run
      BY <2>1 DEF Drops
    <2> QED
      BY <1>a, <1>b, <2>2
  <1>7. CASE UNCHANGED vars \/ StartRound
    BY <1>7, <1>a DEF vars, StartRound
  <1>8. ASSUME NEW s \in Sessions, Probes(s) \/ Turns(s, "polluted") \/ Turns(s, "expired")
        PROVE  run' = run
    BY <1>8 DEF Probes, Heartbeat, Preflight, Validate, Turns
  <1>9. ASSUME NEW j \in Judges, WriteStatus(j)
        PROVE  run' = run
    BY <1>9 DEF WriteStatus
  <1>10. ASSUME NEW s \in Sessions, NEW p \in Purposes, NEW m \in ToSet(Modes), Create(s, p, m)
         PROVE  run' = run
    BY <1>10 DEF Create
  <1>11. ASSUME NEW s \in Sessions,
                Delete(s) \/ \E p \in Purposes, m \in ToSet(Modes) : Repurpose(s, p, m)
         PROVE  run' = run
    BY <1>11 DEF Delete, Repurpose
  <1> QED
    BY <1>a, <1>1, <1>2, <1>3, <1>4, <1>5, <1>6, <1>7, <1>8, <1>9, <1>10, <1>11, Steps
       DEF RunOnly

\* What a session is meant for changes by the user's hand.
LEMMA PurposeKept ==
  ASSUME TypeOK, ProbesAreReal, RunsAreSeen, [Next]_vars, NEW x \in Sessions,
         vendor[x] # "none", run.phase # "idle"
  PROVE  \/ row'[x].purpose = row[x].purpose
         \/ edited' = edited \cup {x}
  <1>0. row \in [Sessions -> Row] /\ row[x] \in Row
    BY DEF TypeOK
  <1>a. ASSUME row' = row PROVE row'[x].purpose = row[x].purpose
    BY <1>a
  <1>b. ASSUME NEW s \in Sessions, NEW v, SetStatus(s, v) \/ SetBeat(s, v)
        PROVE  row'[x].purpose = row[x].purpose
    <2>1. CASE row' = row
      BY <2>1
    <2>2. CASE row' = [row EXCEPT ![s].status = v]
      BY <1>0, <2>2 DEF Row
    <2>3. CASE row' = [row EXCEPT ![s].beat = v]
      BY <1>0, <2>3 DEF Row
    <2> QED
      BY <1>b, <2>1, <2>2, <2>3 DEF SetStatus, SetBeat
  <1>1. CASE UNCHANGED vars \/ StartRound \/ RunOnly \/ Breaks
    BY <1>1, <1>a, BreaksFacts, RunOnlyFacts DEF vars, StartRound
  <1>2. CASE GiveUp
    <2>1. CASE run.pool = <<>>
      BY <1>2, <1>a, <2>1 DEF GiveUp
    <2>2. CASE run.pool # <<>>
      <3>1. run.pool[1] \in Sessions
        BY <2>2, PoolOfRun DEF TypeOK
      <3>2. SetStatus(run.pool[1], "expired")
        BY <1>2, <2>2 DEF GiveUp
      <3> QED
        BY <1>b, <3>1, <3>2
    <2> QED
      BY <2>1, <2>2
  <1>3. ASSUME NEW s \in Sessions, Probes(s) \/ Turns(s, "polluted") \/ Turns(s, "expired")
        PROVE  row' = row
    BY <1>3 DEF Probes, Heartbeat, Preflight, Validate, Turns
  <1>4. ASSUME NEW j \in Judges, WriteStatus(j)
        PROVE  row'[x].purpose = row[x].purpose
    <2>1. hand[j].sid \in Sessions
      BY <1>4, WriteStatusFacts
    <2>2. row' = row \/ SetStatus(hand[j].sid, StatusFor(j, hand[j].verdict))
      BY <1>4 DEF WriteStatus
    <2> QED
      BY <1>a, <1>b, <2>1, <2>2
  <1>5. ASSUME NEW j \in Judges, NEW sent \in BOOLEAN, WriteBeat(j, sent)
        PROVE  row'[x].purpose = row[x].purpose
    <2>1. hand[j].sid \in Sessions
      BY <1>5, WriteBeatFacts
    <2>2. SetBeat(hand[j].sid, BeatFor(j, hand[j].verdict))
      BY <1>5 DEF WriteBeat
    <2> QED
      BY <1>b, <2>1, <2>2
  <1>6. ASSUME NEW j \in Judges, WriteFails(j)
        PROVE  row' = row
    BY <1>6 DEF WriteFails
  <1>7. ASSUME NEW s \in Sessions, NEW p \in Purposes, NEW m \in ToSet(Modes), Create(s, p, m)
        PROVE  row'[x] = row[x]
    BY <1>7, CreateFacts
  <1>8. ASSUME NEW s \in Sessions,
               Delete(s) \/ \E p \in Purposes, m \in ToSet(Modes) : Repurpose(s, p, m)
        PROVE  row'[x] = row[x] \/ edited' = edited \cup {x}
    <2>1. edited' = edited \cup {s}
      BY <1>8 DEF Delete, Repurpose
    <2>2. \A y \in Sessions \ {s} : row'[y] = row[y]
      BY <1>8, EditFacts
    <2> QED
      BY <2>1, <2>2
  <1> QED
    BY <1>a, <1>1, <1>2, <1>3, <1>4, <1>5, <1>6, <1>7, <1>8, Steps

\* The vendor forgets nobody.
LEMMA KnownKept ==
  ASSUME TypeOK, ProbesAreReal, RunsAreSeen, [Next]_vars, NEW x \in Sessions, vendor[x] # "none"
  PROVE  vendor'[x] # "none"
  <1>1. ASSUME NEW s \in Sessions, NEW p \in Purposes, NEW m \in ToSet(Modes), Create(s, p, m)
        PROVE  vendor'[x] # "none"
    BY <1>1, CreateFacts
  <1>2. ASSUME NEW s \in Sessions, Turns(s, "polluted") \/ Turns(s, "expired")
        PROVE  vendor'[x] # "none"
    BY <1>2, TurnsFacts
  <1>3. CASE UNCHANGED vars \/ StartRound \/ RunOnly \/ GiveUp \/ Breaks
    BY <1>3, RunOnlyFacts, GiveUpFacts, BreaksFacts DEF vars, StartRound
  <1>4. ASSUME NEW s \in Sessions,
               Probes(s) \/ Delete(s) \/ \E p \in Purposes, m \in ToSet(Modes) : Repurpose(s, p, m)
        PROVE  vendor' = vendor
    BY <1>4 DEF Probes, Heartbeat, Preflight, Validate, Delete, Repurpose
  <1>5. ASSUME NEW j \in Judges,
               WriteStatus(j) \/ WriteFails(j) \/ \E sent \in BOOLEAN : WriteBeat(j, sent)
        PROVE  vendor' = vendor
    BY <1>5 DEF WriteStatus, WriteFails, WriteBeat
  <1> QED
    BY <1>1, <1>2, <1>3, <1>4, <1>5, Steps

\* A run begins with what is in use and meant for collecting.
LEMMA StartUses ==
  ASSUME TypeOK, ProbesAreReal, NEW x \in Sessions, Uses(x, run'),
         StartSingle \/ \E kind \in {"quick", "full"} : StartRun(kind)
  PROVE  vendor[x] # "none" /\ row[x].purpose = "collect" /\ row' = row /\ vendor' = vendor
  <1>0. row' = row /\ vendor' = vendor
    BY DEF StartSingle, StartRun
  <1>a. ASSUME Active(x), row[x].purpose = "collect"
        PROVE  vendor[x] # "none" /\ row[x].purpose = "collect"
    BY <1>a DEF ProbesAreReal, Active
  <1>1. ASSUME NEW kind \in {"quick", "full"}, StartRun(kind)
        PROVE  Active(x) /\ row[x].purpose = "collect"
    <2>1. PICK list \in CollectPools :
            run' = [NoRun EXCEPT !.phase = "preflight", !.kind = kind, !.todo = ActiveSessions,
                                 !.pool = IF kind = "full" THEN list ELSE <<>>]
      BY <1>1 DEF StartRun
    <2>2. /\ run'.phase = "preflight" /\ run'.chosen = None /\ run'.todo = ActiveSessions
          /\ run'.pool = list \/ run'.pool = <<>>
      BY <2>1 DEF NoRun
    <2>3. ActiveSessions[x] = "collect" \/ x \in ToSet(list) \/ x \in ToSet(<<>>)
      BY <2>2, PoolAssumption DEF Uses
    <2>4. CASE ActiveSessions[x] = "collect"
      BY <2>4 DEF ActiveSessions
    <2>5. CASE x \in ToSet(list)
      BY <2>5, PoolFacts DEF ToSet
    <2>6. x \notin ToSet(<<>>)
      BY DEF ToSet
    <2> QED
      BY <2>3, <2>4, <2>5, <2>6
  <1>2. CASE StartSingle
    <2>1. PICK list \in CollectPools :
            /\ list # <<>>
            /\ run' = [NoRun EXCEPT !.phase = "collect", !.kind = "single", !.jar = list[1]]
      BY <1>2 DEF StartSingle
    <2>2. /\ run'.jar = list[1] /\ run'.chosen = None /\ run'.todo = NoRun.todo
          /\ run'.pool = <<>>
      BY <2>1 DEF NoRun
    <2>3. x \notin ToSet(<<>>)
      BY DEF ToSet
    <2>4. x = list[1]
      BY <2>2, <2>3, NoRunFacts, PoolAssumption DEF Uses
    <2>5. 1 \in DOMAIN list
      <3>1. list \in Seq(Sessions)
        BY PoolFacts
      <3> QED
        BY <2>1, <3>1
    <2>6. Active(x) /\ row[x].purpose = "collect"
      BY <2>4, <2>5, PoolFacts
    <2> QED
      BY <1>0, <1>a, <2>6
  <1> QED
    BY <1>0, <1>a, <1>1, <1>2

\* What a run works with is a session.
JarIsSession == run.phase = "collect" => run.jar \in Sessions

\* Sessions that a run may turn to, one by one.
LEMMA MeantFacts ==
  /\ RunsAreMeant <=>
        /\ \A x \in Sessions : Uses(x, run) =>
              vendor[x] # "none" /\ (x \in edited \/ row[x].purpose = "collect")
        /\ JarIsSession
  /\ RunsAreMeant' <=>
        /\ \A x \in Sessions : Uses(x, run') =>
              vendor'[x] # "none" /\ (x \in edited' \/ row'[x].purpose = "collect")
        /\ JarIsSession'
  BY DEF RunsAreMeant, Uses, Meant, JarIsSession

\* Every step keeps the runs with what was meant for collecting.
LEMMA MeantStep ==
  ASSUME TypeOK, ProbesAreReal, RunsAreSeen, RunsAreMeant, [Next]_vars
  PROVE  RunsAreMeant'
  <1>0. run \in Runs
    BY DEF TypeOK
  <1>1. ASSUME NEW x \in Sessions, Uses(x, run')
        PROVE  vendor'[x] # "none" /\ (x \in edited' \/ row'[x].purpose = "collect")
    <2>1. CASE StartSingle \/ \E kind \in {"quick", "full"} : StartRun(kind)
      BY <1>1, <2>1, StartUses
    <2>2. CASE ~ StartSingle /\ \A kind \in {"quick", "full"} : ~ StartRun(kind)
      <3>1. Uses(x, run)
        BY <1>1, <2>2, UsesKept
      <3>2. vendor[x] # "none" /\ (x \in edited \/ row[x].purpose = "collect")
        BY <3>1, MeantFacts
      <3>3. run.phase # "idle"
        BY <3>1 DEF Uses
      <3>4. edited \subseteq edited'
        BY <2>2, EditedFacts
      <3> QED
        BY <3>2, <3>3, <3>4, PurposeKept, KnownKept
    <2> QED
      BY <2>1, <2>2
  <1>2. JarIsSession'
    <2>a. JarIsSession
      BY MeantFacts
    <2>b. ASSUME run' = NoRun \/ run' = run PROVE JarIsSession'
      BY <2>a, <2>b, NoRunFacts DEF JarIsSession
    <2>c. ASSUME run'.phase = run.phase, run'.jar = run.jar PROVE JarIsSession'
      BY <2>a, <2>c DEF JarIsSession
    <2>1. CASE UNCHANGED vars \/ StartRound
      BY <2>1, <2>b DEF vars, StartRound
    <2>2. ASSUME NEW kind \in {"quick", "full"}, StartRun(kind)
          PROVE  JarIsSession'
      <3>1. run'.phase = "preflight"
        BY <2>2 DEF StartRun, NoRun
      <3> QED
        BY <3>1 DEF JarIsSession
    <2>3. CASE StartSingle
      <3>1. PICK list \in CollectPools :
              /\ list # <<>>
              /\ run' = [NoRun EXCEPT !.phase = "collect", !.kind = "single", !.jar = list[1]]
        BY <2>3 DEF StartSingle
      <3>2. list[1] \in Sessions
        BY <3>1, PoolFacts
      <3>3. run'.jar = list[1]
        BY <3>1 DEF NoRun
      <3> QED
        BY <3>2, <3>3 DEF JarIsSession
    <2>4. CASE BeginCollecting
      <3>1. CASE run.chosen = None
        BY <2>4, <2>b, <3>1 DEF BeginCollecting
      <3>2. CASE run.chosen # None
        <4>1. run'.jar = run.chosen
          BY <1>0, <2>4, <3>2 DEF BeginCollecting, Runs
        <4>2. run.chosen \in Sessions
          BY <1>0, <3>2 DEF Runs
        <4> QED
          BY <4>1, <4>2 DEF JarIsSession
      <3> QED
        BY <3>1, <3>2
    <2>5. CASE NextProduct \/ GiveUp
      <3>1. run' = NoRun \/ run' = [run EXCEPT !.at = 1]
        BY <2>5 DEF NextProduct, GiveUp
      <3> QED
        BY <1>0, <2>b, <2>c, <3>1, FirstAgain
    <2>6. CASE FallBack
      <3>1. /\ run.at < Len(run.pool)
            /\ run' = [run EXCEPT !.at = @ + 1, !.jar = run.pool[run.at + 1]]
        BY <2>6 DEF FallBack
      <3>2. run.pool[run.at + 1] \in Sessions
        BY <1>0, <3>1, PoolOfRun
      <3>3. run'.jar = run.pool[run.at + 1]
        BY <1>0, <3>1 DEF Runs
      <3> QED
        BY <3>2, <3>3 DEF JarIsSession
    <2>7. ASSUME NEW j \in Judges, NEW s \in Sessions, run' = Turned(j, s)
          PROVE  JarIsSession'
      BY <2>7, <2>c, TurnedFacts
    <2>8. ASSUME NEW j \in Judges, NEW sent \in BOOLEAN, WriteBeat(j, sent)
          PROVE  JarIsSession'
      BY <2>7, <2>8, WriteBeatFacts DEF Notice
    <2>9. ASSUME NEW j \in Judges, WriteFails(j)
          PROVE  JarIsSession'
      BY <2>7, <2>9, WriteFailsFacts DEF WriteFails
    <2>10. CASE Breaks
      <3>1. PICK J \in SUBSET Judges : Drops(J)
        BY <2>10, BreaksFacts
      <3> QED
        BY <2>b, <3>1 DEF Drops
    <2>11. ASSUME NEW s \in Sessions, Probes(s) \/ Turns(s, "polluted") \/ Turns(s, "expired")
           PROVE  run' = run
      BY <2>11 DEF Probes, Heartbeat, Preflight, Validate, Turns
    <2>12. ASSUME NEW j \in Judges, WriteStatus(j)
           PROVE  run' = run
      BY <2>12 DEF WriteStatus
    <2>13. ASSUME NEW s \in Sessions, NEW p \in Purposes, NEW m \in ToSet(Modes), Create(s, p, m)
           PROVE  run' = run
      BY <2>13 DEF Create
    <2>14. ASSUME NEW s \in Sessions,
                  Delete(s) \/ \E p \in Purposes, m \in ToSet(Modes) : Repurpose(s, p, m)
           PROVE  run' = run
      BY <2>14 DEF Delete, Repurpose
    <2> QED
      BY <2>b, <2>1, <2>2, <2>3, <2>4, <2>5, <2>6, <2>8, <2>9, <2>10, <2>11, <2>12, <2>13,
         <2>14, Steps DEF RunOnly
  <1> QED
    BY <1>1, <1>2, MeantFacts

-----------------------------------------------------------------------------
(* What the marks say *)

\* A session that is out for a reason of its own.
Gone(s) == row[s].status \in {"expired", "polluted"} /\ cause[s] \notin {"marker", "network", "blamed"}

\* A verdict that takes a session out is a bad one.
LEMMA CauseFacts ==
  ASSUME NEW j \in Judges, NEW v \in Verdicts, StatusFor(j, v) \in {"expired", "polluted"},
         j = "user" => v # "marked"
  PROVE  /\ v # "ok"
         /\ CauseFor(j, v) \notin {"marker", "network", "blamed"} => v \in {"expired", "polluted"}
         /\ CauseFor(j, v) \in {"seen", "marker", "network"} => j # "user"
         /\ CauseFor(j, v) # "blamed"
  <1>1. v = "ok" \/ v = "expired" \/ v = "polluted" \/ v = "error" \/ v = "marked"
    BY DEF Verdicts, Beats
  <1>2. CASE v = "ok"
    BY <1>2 DEF StatusFor
  <1>3. CASE v = "error"
    <2>1. CauseFor(j, v) = "network" /\ j = "preflight"
      BY <1>3 DEF CauseFor, StatusFor
    <2> QED
      BY <1>3, <2>1
  <1>4. CASE v \in {"expired", "polluted"}
    <2>1. CauseFor(j, v) = IF j = "user" THEN "validated" ELSE "seen"
      BY <1>4 DEF CauseFor
    <2> QED
      BY <1>4, <2>1
  <1>5. CASE v = "marked"
    <2>1. CauseFor(j, v) = "marker" /\ j # "user"
      BY <1>5 DEF CauseFor
    <2> QED
      BY <1>5, <2>1
  <1> QED
    BY <1>1, <1>2, <1>3, <1>4, <1>5

\* What the steps that are not WriteStatus do to the status and its cause.
LEMMA StatusKept ==
  ASSUME TypeOK, ProbesAreReal, RunsAreSeen, [Next]_vars,
         \A j \in Judges : ~ WriteStatus(j),
         NEW s \in Sessions, row'[s].status \in {"active", "expired", "polluted"}
  PROVE  \/ cause'[s] = "blamed" /\ row'[s].status # "active"
         \/ row'[s].status = row[s].status /\ cause'[s] = cause[s]
  <1>0. CASE UNCHANGED vars \/ StartRound
    BY <1>0 DEF vars, StartRound
  <1>1. CASE RunOnly
    BY <1>1, RunOnlyFacts
  <1>2. CASE GiveUp
    BY <1>2, GiveUpFacts
  <1>3. ASSUME NEW x \in Sessions, Probes(x)
        PROVE  row' = row /\ cause' = cause
    BY <1>3, ProbeFacts
  <1>4. ASSUME NEW j \in Judges, NEW sent \in BOOLEAN, WriteBeat(j, sent)
        PROVE  row'[s].status = row[s].status /\ cause' = cause
    BY <1>4, WriteBeatFacts
  <1>5. ASSUME NEW j \in Judges, WriteFails(j)
        PROVE  row' = row /\ cause' = cause
    BY <1>5, WriteFailsFacts
  <1>6. CASE Breaks
    BY <1>6, BreaksFacts
  <1>7. ASSUME NEW x \in Sessions, NEW p \in Purposes, NEW m \in ToSet(Modes), Create(x, p, m)
        PROVE  row'[s].status = row[s].status /\ cause' = cause
    BY <1>7, CreateFacts
  <1>8. ASSUME NEW x \in Sessions,
               Delete(x) \/ \E p \in Purposes, m \in ToSet(Modes) : Repurpose(x, p, m)
        PROVE  row'[s].status = row[s].status /\ cause' = cause
    BY <1>8, EditFacts
  <1>9. ASSUME NEW x \in Sessions, Turns(x, "polluted") \/ Turns(x, "expired")
        PROVE  row' = row /\ cause' = cause
    BY <1>9, TurnsFacts
  <1> QED
    BY <1>0, <1>1, <1>2, <1>3, <1>4, <1>5, <1>6, <1>7, <1>8, <1>9, Steps

\* What the vendor thinks only gets worse, apart from a new session.
LEMMA VendorFacts ==
  ASSUME TypeOK, ProbesAreReal, RunsAreSeen, [Next]_vars, NEW s \in Sessions, vendor'[s] = "good"
  PROVE  vendor[s] = "good" \/ row'[s].status = "unknown"
  <1>0. CASE UNCHANGED <<vendor>>
    BY <1>0
  <1>1. ASSUME NEW x \in Sessions, NEW p \in Purposes, NEW m \in ToSet(Modes), Create(x, p, m)
        PROVE  vendor[s] = "good" \/ row'[s].status = "unknown"
    BY <1>1, CreateFacts
  <1>2. ASSUME NEW x \in Sessions, Turns(x, "polluted") \/ Turns(x, "expired")
        PROVE  vendor[s] = "good"
    BY <1>2, TurnsFacts
  <1>3. CASE UNCHANGED vars \/ StartRound \/ RunOnly \/ GiveUp \/ Breaks
    BY <1>3, <1>0, RunOnlyFacts, GiveUpFacts, BreaksFacts DEF vars, StartRound
  <1>4. ASSUME NEW x \in Sessions,
               Probes(x) \/ Delete(x) \/ \E p \in Purposes, m \in ToSet(Modes) : Repurpose(x, p, m)
        PROVE  vendor' = vendor
    BY <1>4 DEF Probes, Heartbeat, Preflight, Validate, Delete, Repurpose
  <1>5. ASSUME NEW j \in Judges,
               WriteStatus(j) \/ WriteFails(j) \/ \E sent \in BOOLEAN : WriteBeat(j, sent)
        PROVE  vendor' = vendor
    BY <1>5 DEF WriteStatus, WriteFails, WriteBeat
  <1> QED
    BY <1>0, <1>1, <1>2, <1>3, <1>4, <1>5, Steps

\* Every step keeps the marks true.
LEMMA MarksStep ==
  ASSUME TypeOK, ProbesAreReal, RunsAreSeen, MarksAreTrue, [Next]_vars
  PROVE  MarksAreTrue'
  <1> SUFFICES ASSUME NEW s \in Sessions, row'[s].status \in {"expired", "polluted"},
                      vendor'[s] = "good"
               PROVE  cause'[s] \in {"marker", "network", "blamed"}
    BY DEF MarksAreTrue, Out
  <1>1. vendor[s] = "good"
    BY VendorFacts
  <1>2. row[s].status \in {"expired", "polluted"} => cause[s] \in {"marker", "network", "blamed"}
    BY <1>1 DEF MarksAreTrue, Out
  <1>3. CASE \A j \in Judges : ~ WriteStatus(j)
    BY <1>2, <1>3, StatusKept
  <1>4. ASSUME NEW j \in Judges, WriteStatus(j)
        PROVE  cause'[s] \in {"marker", "network", "blamed"}
    <2> DEFINE v == hand[j].verdict
    <2>1. CASE s # hand[j].sid
      <3>1. \A x \in Sessions \ {hand[j].sid} : row'[x] = row[x] /\ cause'[x] = cause[x]
        BY <1>4, WriteStatusFacts, Zenon
      <3>2. row'[s] = row[s] /\ cause'[s] = cause[s]
        BY <2>1, <3>1
      <3> QED
        BY <1>2, <3>2
    <2>2. CASE s = hand[j].sid /\ row' = row /\ cause' = cause
      BY <1>2, <2>2
    <2>3. CASE /\ s = hand[j].sid /\ v \in Verdicts /\ hand[j].step = "status"
               /\ row'[s].status = IF row[s].status = "absent" THEN "absent" ELSE StatusFor(j, v)
               /\ cause'[s] = CauseFor(j, v)
      <3>1. StatusFor(j, v) \in {"expired", "polluted"}
        BY <2>3
      <3>2. v \notin {"expired", "polluted"}
        BY <1>1, <2>3, HandFacts
      <3>3. j = "user" => v # "marked"
        BY <2>3, HandFacts
      <3> QED
        BY <2>3, <3>1, <3>2, <3>3, CauseFacts
    <2>4. \/ row' = row /\ cause' = cause
          \/ LET t == hand[j].sid
             IN  /\ v \in Verdicts /\ hand[j].step = "status"
                 /\ row'[t].status = IF row[t].status = "absent" THEN "absent" ELSE StatusFor(j, v)
                 /\ cause'[t] = CauseFor(j, v)
      BY <1>4, WriteStatusFacts
    <2> QED
      BY <2>1, <2>2, <2>3, <2>4
  <1> QED
    BY <1>3, <1>4

-----------------------------------------------------------------------------
(* The second writes *)

\* A judge at its second write stays there, unless it writes or is dropped.
LEMMA HandKept ==
  ASSUME TypeOK, ProbesAreReal, RunsAreSeen, [Next]_vars,
         \A j \in Judges : ~ WriteStatus(j), NEW k \in Judges
  PROVE  /\ hand'[k].step = "beat" => hand'[k] = hand[k]
         /\ hand[k].step = "beat" =>
               \/ hand'[k] = hand[k]
               \/ hand[k].sid \in mixed'
               \/ \E sent \in BOOLEAN : WriteBeat(k, sent)
         /\ mixed \subseteq mixed'
  <1> DEFINE Kept == /\ hand'[k].step = "beat" => hand'[k] = hand[k]
                     /\ hand[k].step = "beat" =>
                           \/ hand'[k] = hand[k]
                           \/ hand[k].sid \in mixed'
                           \/ \E sent \in BOOLEAN : WriteBeat(k, sent)
                     /\ mixed \subseteq mixed'
  <1>0. ASSUME hand' = hand /\ mixed' = mixed
        PROVE  Kept
    BY <1>0
  <1>1. CASE UNCHANGED vars \/ StartRound \/ RunOnly \/ GiveUp
    BY <1>0, <1>1, RunOnlyFacts, GiveUpFacts DEF vars, StartRound
  <1>2. ASSUME NEW s \in Sessions, Probes(s)
        PROVE  Kept
    <2>1. PICK j \in Judges : /\ hand[j] = Free /\ hand'[j].step = "status"
                              /\ \A i \in Judges \ {j} : hand'[i] = hand[i]
                              /\ mixed' = mixed
      BY <1>2, ProbeFacts
    <2> QED
      BY <2>1, FreeFacts
  <1>3. ASSUME NEW j \in Judges, NEW sent \in BOOLEAN, WriteBeat(j, sent)
        PROVE  Kept
    <2>1. /\ hand'[j] = Free /\ \A i \in Judges \ {j} : hand'[i] = hand[i]
      BY <1>3, WriteBeatFacts, NoticeFacts
    <2>2. mixed \subseteq mixed'
      BY <1>3, WriteBeatFacts, MixesFacts
    <2>3. CASE k = j
      BY <1>3, <2>1, <2>2, <2>3, FreeFacts
    <2>4. CASE k # j
      BY <2>1, <2>2, <2>4
    <2> QED
      BY <2>3, <2>4
  <1>4. ASSUME NEW j \in Judges, WriteFails(j)
        PROVE  Kept
    <2>1. /\ hand'[j] = Free /\ \A i \in Judges \ {j} : hand'[i] = hand[i]
          /\ mixed' = mixed \cup {hand[j].sid}
      BY <1>4, WriteFailsFacts
    <2> QED
      BY <2>1, FreeFacts
  <1>5. CASE Breaks
    <2>1. PICK J \in SUBSET Judges : Drops(J)
      BY <1>5, BreaksFacts
    <2>2. /\ \A j \in Judges : hand'[j] = IF j \in J THEN Free ELSE hand[j]
          /\ mixed \subseteq mixed'
          /\ \A j \in J : hand[j].step = "beat" => hand[j].sid \in mixed'
      BY <2>1, DropsFacts
    <2> QED
      BY <2>2, FreeFacts
  <1>6. ASSUME NEW s \in Sessions, NEW p \in Purposes, NEW m \in ToSet(Modes), Create(s, p, m)
        PROVE  Kept
    <2>1. /\ hand["user"] = Free /\ hand'["user"].step = "status" /\ mixed' = mixed
          /\ \A i \in Judges \ {"user"} : hand'[i] = hand[i]
      BY <1>6, CreateFacts
    <2> QED
      BY <2>1, FreeFacts
  <1>7. ASSUME NEW s \in Sessions,
               Delete(s) \/ \E p \in Purposes, m \in ToSet(Modes) : Repurpose(s, p, m)
        PROVE  Kept
    BY <1>0, <1>7, EditFacts
  <1>8. ASSUME NEW s \in Sessions, Turns(s, "polluted") \/ Turns(s, "expired")
        PROVE  Kept
    BY <1>0, <1>8, TurnsFacts
  <1> QED
    BY <1>1, <1>2, <1>3, <1>4, <1>5, <1>6, <1>7, <1>8, Steps

\* A result that fits a status and its cause.
Suits(status, why, beat) ==
    /\ status = "active" => beat \notin {"expired", "polluted"}
    /\ (status \in {"expired", "polluted"} /\ why # "blamed") => beat # "ok"

\* Which second write suits a status.
LEMMA SuitsFacts ==
  /\ WritesWillFit <=> \A s \in Sessions \ mixed, j \in Judges :
        (hand[j].sid = s /\ hand[j].step = "beat") =>
            Suits(row[s].status, cause[s], BeatFor(j, hand[j].verdict))
  /\ WritesWillFit' <=> \A s \in Sessions \ mixed', j \in Judges :
        (hand'[j].sid = s /\ hand'[j].step = "beat") =>
            Suits(row'[s].status, cause'[s], BeatFor(j, hand'[j].verdict))
  /\ ResultAgrees <=> \A s \in Sessions \ mixed :
        (\A j \in Judges : hand[j].sid = s => hand[j].step # "beat") =>
            Suits(row[s].status, cause[s], row[s].beat)
  /\ ResultAgrees' <=> \A s \in Sessions \ mixed' :
        (\A j \in Judges : hand'[j].sid = s => hand'[j].step # "beat") =>
            Suits(row'[s].status, cause'[s], row'[s].beat)
  BY DEF WritesWillFit, ResultAgrees, Counted, Fits, Suits, Active, Out

\* What is written fits whatever a judge of the same opinion writes next.
LEMMA SameOpinion ==
  ASSUME NEW j \in Judges, NEW k \in Judges, NEW v \in Verdicts, NEW status, NEW why,
         StatusFor(j, v) # "none",
         status = StatusFor(j, v) \/ status = "absent"
  PROVE  Suits(status, why, BeatFor(k, v))
  <1>1. v = "ok" \/ v # "ok"
    OBVIOUS
  <1>2. CASE v = "ok"
    <2>1. status # "expired" /\ status # "polluted"
      BY <1>2 DEF StatusFor
    <2>2. BeatFor(k, v) = "ok"
      BY <1>2 DEF BeatFor
    <2> QED
      BY <2>1, <2>2 DEF Suits
  <1>3. CASE v # "ok"
    <2>1. status # "active"
      BY <1>3 DEF StatusFor
    <2>2. BeatFor(k, v) # "ok"
      BY <1>3 DEF BeatFor
    <2> QED
      BY <2>1, <2>2 DEF Suits
  <1> QED
    BY <1>2, <1>3

\* Every step keeps the second writes fitting.
LEMMA FitStep ==
  ASSUME TypeOK, ProbesAreReal, RunsAreSeen, WritesWillFit, [Next]_vars
  PROVE  WritesWillFit'
  <1> SUFFICES ASSUME NEW s \in Sessions \ mixed', NEW k \in Judges,
                      hand'[k].sid = s, hand'[k].step = "beat"
               PROVE  Suits(row'[s].status, cause'[s], BeatFor(k, hand'[k].verdict))
    BY SuitsFacts
  <1>1. CASE \A j \in Judges : ~ WriteStatus(j)
    <2>1. hand'[k] = hand[k] /\ s \notin mixed
      BY <1>1, HandKept
    <2>2. Suits(row[s].status, cause[s], BeatFor(k, hand[k].verdict))
      BY <2>1, SuitsFacts
    <2>3. row'[s].status \in {"active", "expired", "polluted"} =>
             \/ cause'[s] = "blamed" /\ row'[s].status # "active"
             \/ row'[s].status = row[s].status /\ cause'[s] = cause[s]
      BY <1>1, StatusKept
    <2> QED
      BY <2>1, <2>2, <2>3 DEF Suits
  <1>2. ASSUME NEW j \in Judges, WriteStatus(j)
        PROVE  Suits(row'[s].status, cause'[s], BeatFor(k, hand'[k].verdict))
    <2> DEFINE x == hand[j].sid
               v == hand[j].verdict
    <2>1. /\ x \in Sessions /\ hand[j].step = "status" /\ v \in Verdicts /\ Mixes(j, x)
          /\ hand'[j].sid = x /\ hand'[j].verdict = v
          /\ \A i \in Judges \ {j} : hand'[i] = hand[i]
          /\ \A y \in Sessions \ {x} : row'[y] = row[y] /\ cause'[y] = cause[y]
      BY <1>2, WriteStatusFacts
    <2>2. mixed \subseteq mixed' /\ (x \notin mixed' => ~ Crossed(j, x) /\ ~ (j = "heartbeat" /\ Out(x)))
      BY <2>1, MixesFacts
    <2>3. CASE s # x
      <3>1. k # j
        BY <2>1, <2>3
      <3>2. hand'[k] = hand[k] /\ row'[s] = row[s] /\ cause'[s] = cause[s] /\ s \notin mixed
        BY <2>1, <2>2, <2>3, <3>1
      <3> QED
        BY <3>2, SuitsFacts
    <2>4. CASE s = x
      <3>1. ~ Crossed(j, x) /\ ~ (j = "heartbeat" /\ Out(x))
        BY <2>2, <2>4
      <3>2. hand'[k].verdict = v
        BY <2>1, <2>4, <3>1 DEF Crossed
      <3>3. CASE StatusFor(j, v) = "none" /\ row' = row /\ cause' = cause
        <4>1. CASE k # j
          BY <2>1, <2>2, <3>3, <4>1, SuitsFacts
        <4>2. CASE k = j
          <5>1. \/ v = "ok" /\ j = "heartbeat"
                \/ v = "error" /\ j # "preflight"
            BY <2>1, <3>3, StatusFacts
          <5>2. CASE v = "ok" /\ j = "heartbeat"
            <6>1. BeatFor(k, v) = "ok" /\ ~ Out(s)
              BY <2>4, <3>1, <5>2 DEF BeatFor
            <6> QED
              BY <3>2, <3>3, <6>1 DEF Suits, Out
          <5>3. CASE v = "error" /\ j # "preflight"
            <6>1. BeatFor(k, v) = "error"
              BY <4>2, <5>3 DEF BeatFor
            <6> QED
              BY <3>2, <6>1 DEF Suits
          <5> QED
            BY <5>1, <5>2, <5>3
        <4> QED
          BY <4>1, <4>2
      <3>4. CASE /\ StatusFor(j, v) # "none"
                 /\ row'[x].status = IF row[x].status = "absent" THEN "absent" ELSE StatusFor(j, v)
        <4>1. row'[s].status = StatusFor(j, v) \/ row'[s].status = "absent"
          BY <2>4, <3>4
        <4>2. Suits(row'[s].status, cause'[s], BeatFor(k, v))
          BY <2>1, <3>4, <4>1, SameOpinion
        <4> QED
          BY <3>2, <4>2
      <3> QED
        BY <1>2, <3>3, <3>4, WriteStatusFacts
    <2> QED
      BY <2>3, <2>4
  <1> QED
    BY <1>1, <1>2

\* The result of a session that is in use changes with a second write only.
LEMMA BeatKept ==
  ASSUME TypeOK, ProbesAreReal, RunsAreSeen, [Next]_vars,
         \A j \in Judges, sent \in BOOLEAN : ~ WriteBeat(j, sent),
         NEW s \in Sessions, row'[s].status \in {"active", "expired", "polluted"}
  PROVE  row'[s].beat = row[s].beat \/ (cause'[s] = "blamed" /\ row'[s].status # "active")
  <1>1. CASE UNCHANGED vars \/ StartRound \/ RunOnly
    BY <1>1, RunOnlyFacts DEF vars, StartRound
  <1>2. CASE GiveUp
    BY <1>2, GiveUpFacts
  <1>3. CASE Breaks
    BY <1>3, BreaksFacts
  <1>4. ASSUME NEW x \in Sessions, Probes(x)
        PROVE  row' = row
    BY <1>4, ProbeFacts
  <1>5. ASSUME NEW j \in Judges, WriteStatus(j)
        PROVE  row'[s].beat = row[s].beat
    BY <1>5, WriteStatusFacts
  <1>6. ASSUME NEW j \in Judges, WriteFails(j)
        PROVE  row' = row
    BY <1>6, WriteFailsFacts
  <1>7. ASSUME NEW x \in Sessions, NEW p \in Purposes, NEW m \in ToSet(Modes), Create(x, p, m)
        PROVE  row'[s].beat = row[s].beat
    BY <1>7, CreateFacts
  <1>8. ASSUME NEW x \in Sessions,
               Delete(x) \/ \E p \in Purposes, m \in ToSet(Modes) : Repurpose(x, p, m)
        PROVE  row'[s].beat = row[s].beat
    BY <1>8, EditFacts
  <1>9. ASSUME NEW x \in Sessions, Turns(x, "polluted") \/ Turns(x, "expired")
        PROVE  row' = row
    BY <1>9, TurnsFacts
  <1> QED
    BY <1>1, <1>2, <1>3, <1>4, <1>5, <1>6, <1>7, <1>8, <1>9, Steps

\* Where they fit, results agree with the status.
LEMMA AgreesStep ==
  ASSUME TypeOK, ProbesAreReal, RunsAreSeen, WritesWillFit, ResultAgrees, [Next]_vars
  PROVE  ResultAgrees'
  <1> SUFFICES ASSUME NEW s \in Sessions \ mixed',
                      \A j \in Judges : hand'[j].sid = s => hand'[j].step # "beat"
               PROVE  Suits(row'[s].status, cause'[s], row'[s].beat)
    BY SuitsFacts
  <1>1. ASSUME NEW j \in Judges, WriteStatus(j)
        PROVE  Suits(row'[s].status, cause'[s], row'[s].beat)
    <2>1. /\ hand[j].step = "status" /\ hand[j].sid \in Sessions /\ Mixes(j, hand[j].sid)
          /\ hand'[j].step = "beat" /\ hand'[j].sid = hand[j].sid
          /\ \A i \in Judges \ {j} : hand'[i] = hand[i]
          /\ \A y \in Sessions \ {hand[j].sid} : row'[y] = row[y] /\ cause'[y] = cause[y]
      BY <1>1, WriteStatusFacts
    <2>2. mixed \subseteq mixed'
      BY <2>1, MixesFacts
    <2>3. s # hand[j].sid /\ s \notin mixed
      BY <2>1, <2>2
    <2>4. \A i \in Judges : hand[i].sid = s => hand[i].step # "beat"
      BY <2>1, <2>3
    <2> QED
      BY <2>1, <2>3, <2>4, SuitsFacts
  <1>2. ASSUME NEW j \in Judges, NEW sent \in BOOLEAN, WriteBeat(j, sent)
        PROVE  Suits(row'[s].status, cause'[s], row'[s].beat)
    <2>1. /\ hand[j].sid \in Sessions /\ hand[j].step = "beat" /\ Mixes(j, hand[j].sid)
          /\ Notice(j, hand[j].sid, sent)
          /\ \A x \in Sessions \ {hand[j].sid} : row'[x] = row[x]
          /\ row'[hand[j].sid].status = row[hand[j].sid].status
          /\ \/ row[hand[j].sid].status = "absent"
             \/ row'[hand[j].sid].beat = BeatFor(j, hand[j].verdict)
          /\ cause' = cause
      BY <1>2, WriteBeatFacts
    <2>2. s \notin mixed
      BY <2>1, MixesFacts
    <2>3. CASE s = hand[j].sid
      <3>1. Suits(row[s].status, cause[s], BeatFor(j, hand[j].verdict))
        BY <2>1, <2>2, <2>3, SuitsFacts
      <3> QED
        BY <2>1, <2>3, <3>1 DEF Suits
    <2>4. CASE s # hand[j].sid
      <3>1. \A i \in Judges \ {j} : hand'[i] = hand[i]
        BY <2>1, NoticeFacts
      <3>2. \A i \in Judges : hand[i].sid = s => hand[i].step # "beat"
        BY <2>4, <3>1
      <3>3. row'[s] = row[s]
        BY <2>1, <2>4
      <3> QED
        BY <2>1, <2>2, <3>2, <3>3, SuitsFacts
    <2> QED
      BY <2>3, <2>4
  <1>3. CASE /\ \A j \in Judges : ~ WriteStatus(j)
             /\ \A j \in Judges, sent \in BOOLEAN : ~ WriteBeat(j, sent)
    <2>1. /\ s \notin mixed
          /\ \A i \in Judges : hand[i].sid = s => hand[i].step # "beat"
      <3>1. s \notin mixed
        BY <1>3, HandKept DEF Judges
      <3>2. ASSUME NEW i \in Judges, hand[i].sid = s, hand[i].step = "beat"
            PROVE  FALSE
        <4>1. hand'[i] = hand[i]
          BY <1>3, <3>2, HandKept
        <4> QED
          BY <3>2, <4>1
      <3> QED
        BY <3>1, <3>2
    <2>2. Suits(row[s].status, cause[s], row[s].beat)
      BY <2>1, SuitsFacts
    <2>3. row'[s].status \in {"active", "expired", "polluted"} =>
             \/ cause'[s] = "blamed" /\ row'[s].status # "active"
             \/ /\ row'[s].status = row[s].status /\ cause'[s] = cause[s]
                /\ row'[s].beat = row[s].beat
      BY <1>3, StatusKept, BeatKept
    <2> QED
      BY <2>2, <2>3 DEF Suits
  <1> QED
    BY <1>1, <1>2, <1>3

-----------------------------------------------------------------------------
(* Notices *)

\* A judge of the program who has written a loss down, and has not told it.
Owes(h, j, s) == h.step = "beat" /\ h.sid = s /\ j # "user" /\ h.verdict # "ok"

\* Who still has to tell of a session.
LEMMA UntoldFacts ==
  ASSUME NEW J \in SUBSET Judges, NEW s
  PROVE  s \in Untold(J) <=> \E j \in J : Owes(hand[j], j, s)
  BY DEF Untold, Owes, Tells

\* The loss of a session, one by one.
LEMMA LossFacts ==
  /\ LossIsPassedOn <=> \A s \in Sessions :
        (row[s].status \in {"expired", "polluted"} /\ cause[s] \in {"seen", "marker", "network"}) =>
            told[s] # "" \/ \E k \in Judges : Owes(hand[k], k, s)
  /\ LossIsPassedOn' <=> \A s \in Sessions :
        (row'[s].status \in {"expired", "polluted"} /\ cause'[s] \in {"seen", "marker", "network"}) =>
            told'[s] # "" \/ \E k \in Judges : Owes(hand'[k], k, s)
  <1>1. \A s : s \in Untold(Judges) <=> \E k \in Judges : Owes(hand[k], k, s)
    BY UntoldFacts
  <1>2. Untold(Judges)' = {hand'[j].sid : j \in {k \in Judges :
                              hand'[k].step = "beat" /\ k # "user" /\ hand'[k].verdict # "ok"}}
    BY DEF Untold, Tells
  <1>3. \A s : s \in Untold(Judges)' <=> \E k \in Judges : Owes(hand'[k], k, s)
    BY <1>2 DEF Owes
  <1>4. LossIsPassedOn <=> \A s \in Sessions :
          (row[s].status \in {"expired", "polluted"} /\ cause[s] \in {"seen", "marker", "network"}) =>
              told[s] # "" \/ s \in Untold(Judges)
    BY DEF LossIsPassedOn, Out
  <1>5. LossIsPassedOn' <=> \A s \in Sessions :
          (row'[s].status \in {"expired", "polluted"} /\ cause'[s] \in {"seen", "marker", "network"}) =>
              told'[s] # "" \/ s \in Untold(Judges)'
    BY DEF LossIsPassedOn, Out
  <1>6. LossIsPassedOn <=> \A s \in Sessions :
          (row[s].status \in {"expired", "polluted"} /\ cause[s] \in {"seen", "marker", "network"}) =>
              told[s] # "" \/ \E k \in Judges : Owes(hand[k], k, s)
    BY <1>1, <1>4
  <1>7. LossIsPassedOn' <=> \A s \in Sessions :
          (row'[s].status \in {"expired", "polluted"} /\ cause'[s] \in {"seen", "marker", "network"}) =>
              told'[s] # "" \/ \E k \in Judges : Owes(hand'[k], k, s)
    BY <1>3, <1>5
  <1> QED
    BY <1>6, <1>7

\* Whoever owes a notice goes on owing it, unless it is told or lost.
LEMMA DebtKept ==
  ASSUME TypeOK, ProbesAreReal, RunsAreSeen, [Next]_vars,
         \A j \in Judges : ~ WriteStatus(j),
         NEW s \in Sessions, cause'[s] # "blamed",
         told[s] # "" \/ \E k \in Judges : Owes(hand[k], k, s)
  PROVE  told'[s] # "" \/ \E k \in Judges : Owes(hand'[k], k, s)
  <1> DEFINE Told == told'[s] # "" \/ \E k \in Judges : Owes(hand'[k], k, s)
  <1>a. ASSUME told'[s] = told[s],
               \A k \in Judges : Owes(hand[k], k, s) => Owes(hand'[k], k, s)
        PROVE  Told
    BY <1>a
  <1>b. \A k \in Judges : Owes(hand[k], k, s) => hand[k] # Free
    BY FreeFacts DEF Owes
  <1>0. ASSUME told'[s] = told[s], hand' = hand
        PROVE  Told
    BY <1>0
  <1>1. CASE UNCHANGED vars \/ StartRound \/ RunOnly \/ GiveUp
    BY <1>0, <1>1, RunOnlyFacts, GiveUpFacts DEF vars, StartRound
  <1>2. ASSUME NEW x \in Sessions, Probes(x)
        PROVE  Told
    <2>1. PICK j \in Judges : /\ hand[j] = Free
                              /\ \A i \in Judges \ {j} : hand'[i] = hand[i]
                              /\ told' = told
      BY <1>2, ProbeFacts
    <2> QED
      BY <1>a, <1>b, <2>1
  <1>3. ASSUME NEW j \in Judges, hand[j].sid \in Sessions,
               Tells(j) => told'[hand[j].sid] # "",
               \A x \in Sessions \ {hand[j].sid} : told'[x] = told[x],
               told'[hand[j].sid] = told[hand[j].sid] \/ told'[hand[j].sid] # "",
               \A k \in Judges \ {j} : hand'[k] = hand[k]
        PROVE  Told
    <2>1. CASE told[s] # ""
      BY <1>3, <2>1
    <2>2. ASSUME NEW k \in Judges, Owes(hand[k], k, s)
          PROVE  Told
      <3>1. CASE k = j
        BY <1>3, <2>2, <3>1 DEF Owes, Tells
      <3>2. CASE k # j
        BY <1>3, <2>2, <3>2
      <3> QED
        BY <3>1, <3>2
    <2> QED
      BY <2>1, <2>2
  <1>4. ASSUME NEW j \in Judges, NEW sent \in BOOLEAN, WriteBeat(j, sent)
        PROVE  Told
    <2>1. hand[j].sid \in Sessions /\ Notice(j, hand[j].sid, sent)
      BY <1>4, WriteBeatFacts
    <2>2. /\ \A x \in Sessions \ {hand[j].sid} : told'[x] = told[x]
          /\ told'[hand[j].sid] = told[hand[j].sid] \/ told'[hand[j].sid] # ""
          /\ Tells(j) => told'[hand[j].sid] # ""
          /\ \A k \in Judges \ {j} : hand'[k] = hand[k]
      BY <2>1, NoticeFacts
    <2> QED
      BY <1>3, <2>1, <2>2
  <1>5. ASSUME NEW j \in Judges, WriteFails(j)
        PROVE  Told
    BY <1>3, <1>5, WriteFailsFacts
  <1>6. CASE Breaks
    <2>1. PICK J \in SUBSET Judges : Drops(J)
      BY <1>6, BreaksFacts
    <2>2. /\ \A j \in Judges : hand'[j] = IF j \in J THEN Free ELSE hand[j]
          /\ told'[s] = IF s \in Untold(J) THEN "lost" ELSE told[s]
      BY <2>1, DropsFacts
    <2>3. CASE s \in Untold(J)
      BY <2>2, <2>3
    <2>4. CASE s \notin Untold(J)
      <3>1. \A k \in Judges : Owes(hand[k], k, s) => hand'[k] = hand[k]
        BY <2>2, <2>4, UntoldFacts
      <3> QED
        BY <1>a, <2>2, <2>4, <3>1
    <2> QED
      BY <2>3, <2>4
  <1>7. ASSUME NEW x \in Sessions, NEW p \in Purposes, NEW m \in ToSet(Modes), Create(x, p, m)
        PROVE  Told
    <2>1. /\ hand["user"] = Free /\ told' = told
          /\ \A i \in Judges \ {"user"} : hand'[i] = hand[i]
      BY <1>7, CreateFacts
    <2> QED
      BY <1>a, <1>b, <2>1
  <1>8. ASSUME NEW x \in Sessions,
               \/ Delete(x) \/ \E p \in Purposes, m \in ToSet(Modes) : Repurpose(x, p, m)
               \/ Turns(x, "polluted") \/ Turns(x, "expired")
        PROVE  Told
    BY <1>0, <1>8, EditFacts, TurnsFacts
  <1> QED
    BY <1>1, <1>2, <1>4, <1>5, <1>6, <1>7, <1>8, Steps

\* Every step keeps losses told or in a hand.
LEMMA ToldStep ==
  ASSUME TypeOK, ProbesAreReal, RunsAreSeen, LossIsPassedOn, [Next]_vars
  PROVE  LossIsPassedOn'
  <1> SUFFICES ASSUME NEW s \in Sessions, row'[s].status \in {"expired", "polluted"},
                      cause'[s] \in {"seen", "marker", "network"}
               PROVE  told'[s] # "" \/ \E k \in Judges : Owes(hand'[k], k, s)
    BY LossFacts
  <1>1. CASE \A j \in Judges : ~ WriteStatus(j)
    <2>1. row'[s].status = row[s].status /\ cause'[s] = cause[s] /\ cause'[s] # "blamed"
      BY <1>1, StatusKept
    <2>2. told[s] # "" \/ \E k \in Judges : Owes(hand[k], k, s)
      BY <2>1, LossFacts
    <2> QED
      BY <1>1, <2>1, <2>2, DebtKept
  <1>2. ASSUME NEW j \in Judges, WriteStatus(j)
        PROVE  told'[s] # "" \/ \E k \in Judges : Owes(hand'[k], k, s)
    <2> DEFINE x == hand[j].sid
               v == hand[j].verdict
    <2>1. /\ x \in Sessions /\ hand[j].step = "status" /\ v \in Verdicts
          /\ hand'[j].step = "beat" /\ hand'[j].sid = x /\ hand'[j].verdict = v
          /\ \A i \in Judges \ {j} : hand'[i] = hand[i]
          /\ \A y \in Sessions \ {x} :
                row'[y] = row[y] /\ told'[y] = told[y] /\ cause'[y] = cause[y]
      BY <1>2, WriteStatusFacts
    <2>2. \A k \in Judges : Owes(hand[k], k, s) => Owes(hand'[k], k, s)
      BY <2>1 DEF Owes
    <2>3. CASE row'[s] = row[s] /\ told'[s] = told[s] /\ cause'[s] = cause[s]
      BY <2>2, <2>3, LossFacts
    <2>4. CASE /\ s = x
               /\ row'[s].status = IF row[s].status = "absent" THEN "absent" ELSE StatusFor(j, v)
               /\ cause'[s] = CauseFor(j, v)
      <3>1. StatusFor(j, v) \in {"expired", "polluted"}
        BY <2>4
      <3>2. v # "ok" /\ j # "user"
        BY <2>1, <2>4, <3>1, CauseFacts, HandFacts
      <3>3. Owes(hand'[j], j, s)
        BY <2>1, <2>4, <3>2 DEF Owes
      <3> QED
        BY <3>3
    <2>5. CASE s # x
      BY <2>1, <2>3, <2>5
    <2> QED
      BY <1>2, <2>3, <2>4, <2>5, WriteStatusFacts
  <1> QED
    BY <1>1, <1>2

\* Two more sessions are two more at most.
LEMMA AtMostTwo ==
  ASSUME NEW S \in SUBSET Sessions, NEW T, NEW a, NEW b, T \subseteq S \cup {a, b}
  PROVE  Cardinality(S) \in Nat /\ Cardinality(T) \in Nat
         /\ Cardinality(T) <= Cardinality(S) + 2
  <1>1. IsFiniteSet(S)
    BY PoolAssumption, FS_Subset
  <1>2. /\ IsFiniteSet(S \cup {a})
        /\ Cardinality(S \cup {a}) = IF a \in S THEN Cardinality(S) ELSE Cardinality(S) + 1
    BY <1>1, FS_AddElement
  <1> DEFINE A == S \cup {a}
  <1>3. IsFiniteSet(A) /\ (Cardinality(A) = Cardinality(S) \/ Cardinality(A) = Cardinality(S) + 1)
    BY <1>2
  <1>4. S \cup {a, b} = A \cup {b}
    OBVIOUS
  <1> HIDE DEF A
  <1>5. /\ IsFiniteSet(A \cup {b})
        /\ Cardinality(A \cup {b}) = IF b \in A THEN Cardinality(A) ELSE Cardinality(A) + 1
    BY <1>3, FS_AddElement
  <1> DEFINE B == A \cup {b}
  <1>6. IsFiniteSet(B) /\ T \in SUBSET B
    BY <1>4, <1>5
  <1>7. Cardinality(B) = Cardinality(A) \/ Cardinality(B) = Cardinality(A) + 1
    BY <1>5
  <1> HIDE DEF B
  <1>8. IsFiniteSet(T) /\ Cardinality(T) <= Cardinality(B)
    BY <1>6, FS_Subset
  <1>9. Cardinality(S) \in Nat /\ Cardinality(T) \in Nat /\ Cardinality(B) \in Nat
    BY <1>1, <1>6, <1>8, FS_CardinalityType
  <1> QED
    BY <1>3, <1>7, <1>8, <1>9

\* What a step adds to the lost notices costs an upset, and is of two hands at most.
LEMMA LostGrows ==
  ASSUME TypeOK, ProbesAreReal, RunsAreSeen, [Next]_vars
  PROVE  \/ upsets' = upsets /\ Lost' \subseteq Lost
         \/ upsets' = upsets + 1 /\ \E a, b : Lost' \subseteq Lost \cup {a, b}
  <1> DEFINE More == \E a, b : Lost' \subseteq Lost \cup {a, b}
  <1>0. ASSUME \A s \in Sessions : told'[s] = "lost" => told[s] = "lost"
        PROVE  Lost' \subseteq Lost /\ More
    BY <1>0 DEF Lost
  <1>1. CASE UNCHANGED vars \/ StartRound \/ RunOnly
    <2>1. upsets' = upsets /\ told' = told
      BY <1>1, RunOnlyFacts DEF vars, StartRound
    <2> QED
      BY <1>0, <2>1
  <1>2. CASE GiveUp
    <2>1. upsets' = upsets /\ told \in [Sessions -> {"", "told", "lost"}]
      BY <1>2 DEF GiveUp, TypeOK
    <2>2. told' = told \/ \E x : told' = [told EXCEPT ![x] = ""]
      BY <1>2 DEF GiveUp
    <2>3. \A s \in Sessions : told'[s] = told[s] \/ told'[s] = ""
      BY <2>1, <2>2
    <2> QED
      BY <1>0, <2>1, <2>3
  <1>3. ASSUME NEW x \in Sessions, Probes(x)
        PROVE  \/ upsets' = upsets /\ Lost' \subseteq Lost
               \/ upsets' = upsets + 1 /\ More
    <2>1. told' = told
      BY <1>3, ProbeFacts
    <2>2. upsets' = upsets \/ upsets' = upsets + 1
      BY <1>3 DEF Probes, Heartbeat, Preflight, Validate, Probe, Upset
    <2>3. \A s \in Sessions : told'[s] = told[s]
      BY <2>1
    <2> QED
      BY <1>0, <2>2, <2>3
  <1>4. ASSUME NEW j \in Judges, WriteStatus(j)
        PROVE  upsets' = upsets /\ Lost' \subseteq Lost
    <2>1. upsets' = upsets /\ told \in [Sessions -> {"", "told", "lost"}]
      BY <1>4 DEF WriteStatus, TypeOK
    <2>2. told' = told \/ told' = [told EXCEPT ![hand[j].sid] = ""]
      BY <1>4 DEF WriteStatus
    <2>3. \A s \in Sessions : told'[s] = told[s] \/ told'[s] = ""
      BY <2>1, <2>2
    <2> QED
      BY <1>0, <2>1, <2>3
  <1>5. ASSUME NEW j \in Judges, NEW sent \in BOOLEAN, WriteBeat(j, sent)
        PROVE  \/ upsets' = upsets /\ Lost' \subseteq Lost
               \/ upsets' = upsets + 1 /\ More
    <2> DEFINE x == hand[j].sid
    <2>1. Notice(j, x, sent) /\ told \in [Sessions -> {"", "told", "lost"}] /\ x \in Sessions
      BY <1>5, WriteBeatFacts DEF TypeOK
    <2>2. told' = [told EXCEPT ![x] = IF ~ Tells(j) THEN @ ELSE IF sent THEN "told" ELSE "lost"]
      BY <2>1 DEF Notice
    <2> HIDE DEF x
    <2>3. CASE Tells(j) /\ ~ sent
      <3>1. upsets' = upsets + 1
        BY <2>1, <2>3 DEF Notice, Upset
      <3>2. \A s \in Sessions \ {x} : told'[s] = told[s]
        BY <2>1, <2>2
      <3>3. Lost' \subseteq Lost \cup {x, x}
        BY <3>2 DEF Lost
      <3> QED
        BY <3>1, <3>3
    <2>4. CASE ~ (Tells(j) /\ ~ sent)
      <3>1. upsets' = upsets
        BY <2>1, <2>4 DEF Notice
      <3>2. told' = [told EXCEPT ![x] = told[x]] \/ told' = [told EXCEPT ![x] = "told"]
        BY <2>1, <2>2, <2>4
      <3>3. \A s \in Sessions : told'[s] = told[s] \/ told'[s] = "told"
        BY <2>1, <3>2
      <3> QED
        BY <1>0, <3>1, <3>3
    <2> QED
      BY <2>3, <2>4
  <1>6. ASSUME NEW j \in Judges, WriteFails(j)
        PROVE  upsets' = upsets + 1 /\ More
    <2>1. upsets' = upsets + 1 /\ told \in [Sessions -> {"", "told", "lost"}]
      BY <1>6 DEF WriteFails, Upset, TypeOK
    <2>2. told' = [told EXCEPT ![hand[j].sid] = IF Tells(j) THEN "told" ELSE @]
      BY <1>6 DEF WriteFails
    <2>3. \A s \in Sessions : told'[s] = told[s] \/ told'[s] = "told"
      BY <2>1, <2>2
    <2> QED
      BY <1>0, <2>1, <2>3
  <1>7. CASE Breaks
    <2>1. PICK J \in SUBSET Judges : Drops(J)
      BY <1>7, BreaksFacts
    <2>2. \A s \in Sessions : told'[s] = IF s \in Untold(J) THEN "lost" ELSE told[s]
      BY <2>1, DropsFacts
    <2>3. \A s \in Untold(J) : s \in {hand["preflight"].sid, hand["heartbeat"].sid}
      BY DEF Untold, Tells, Judges
    <2>4. Lost' \subseteq Lost \cup {hand["preflight"].sid, hand["heartbeat"].sid}
      BY <2>2, <2>3 DEF Lost
    <2>5. upsets' = upsets + 1
      BY <1>7 DEF Breaks, Crash, ThrownOut, Upset
    <2> QED
      BY <2>4, <2>5
  <1>8. ASSUME NEW x \in Sessions,
               \/ \E p \in Purposes, m \in ToSet(Modes) : Create(x, p, m) \/ Repurpose(x, p, m)
               \/ Delete(x)
        PROVE  upsets' = upsets + 1 /\ More
    <2>1. upsets' = upsets + 1 /\ told' = told
      BY <1>8 DEF Create, Repurpose, Delete, Upset
    <2> QED
      BY <1>0, <2>1
  <1>9. ASSUME NEW x \in Sessions, Turns(x, "polluted") \/ Turns(x, "expired")
        PROVE  upsets' = upsets /\ Lost' \subseteq Lost
    <2>1. upsets' = upsets /\ told' = told
      BY <1>9 DEF Turns
    <2> QED
      BY <1>0, <2>1
  <1> QED
    BY <1>1, <1>2, <1>3, <1>4, <1>5, <1>6, <1>7, <1>8, <1>9, Steps

\* Every step keeps the lost notices few.
LEMMA LostStep ==
  ASSUME TypeOK, ProbesAreReal, RunsAreSeen, FewAreLost, [Next]_vars
  PROVE  FewAreLost'
  <1>1. upsets \in Nat /\ Lost \in SUBSET Sessions /\ Cardinality(Lost) <= 2 * upsets
    <2>1. upsets \in 0..MaxUpsets
      BY DEF TypeOK
    <2> QED
      BY <2>1, PoolAssumption DEF FewAreLost, Lost
  <1> DEFINE L == Lost
             M == Lost'
  <1>2. L \in SUBSET Sessions /\ Cardinality(L) <= 2 * upsets
    BY <1>1
  <1>3. FewAreLost' <=> Cardinality(M) <= 2 * upsets'
    BY DEF FewAreLost
  <1>4. \/ upsets' = upsets /\ M \subseteq L
        \/ upsets' = upsets + 1 /\ \E a, b : M \subseteq L \cup {a, b}
    BY LostGrows
  <1> HIDE DEF L, M
  <1>5. CASE upsets' = upsets /\ M \subseteq L
    <2>1. IsFiniteSet(L) /\ M \in SUBSET L
      BY <1>2, <1>5, PoolAssumption, FS_Subset
    <2>2. Cardinality(M) <= Cardinality(L) /\ IsFiniteSet(M)
      BY <2>1, FS_Subset
    <2>3. Cardinality(M) \in Nat /\ Cardinality(L) \in Nat
      BY <2>1, <2>2, FS_CardinalityType
    <2> QED
      BY <1>1, <1>2, <1>3, <1>5, <2>2, <2>3
  <1>6. ASSUME upsets' = upsets + 1, NEW a, NEW b, M \subseteq L \cup {a, b}
        PROVE  FewAreLost'
    <2>1. /\ Cardinality(L) \in Nat /\ Cardinality(M) \in Nat
          /\ Cardinality(M) <= Cardinality(L) + 2
      BY <1>2, <1>6, AtMostTwo
    <2> QED
      BY <1>1, <1>2, <1>3, <1>6, <2>1
  <1> QED
    BY <1>4, <1>5, <1>6

-----------------------------------------------------------------------------
(* The inductive invariant *)

\* The first state satisfies the invariant,
LEMMA Initially ==
  ASSUME Init
  PROVE  PInv
  <1>0. /\ row \in Starts /\ vendor = [s \in Sessions |-> IF Active(s) THEN "good" ELSE "none"]
        /\ hand = [j \in Judges |-> Free] /\ round = Unread /\ run = NoRun
        /\ told = [s \in Sessions |-> ""] /\ cause = [s \in Sessions |-> ""]
        /\ mixed = {} /\ edited = {} /\ upsets = 0
    BY DEF Init
  <1>1. /\ row \in [Sessions -> Row]
        /\ \A s \in Sessions : /\ row[s].status \in {"absent", "active"}
                               /\ row[s].beat \notin {"expired", "polluted"}
    BY <1>0, PoolAssumption
  <1>2. /\ Unread \in [Sessions -> Purposes \cup {"none"}]
        /\ \A s \in Sessions : Unread[s] = "none"
    BY DEF Unread
  <1>3. \A s \in Sessions : ~ Out(s)
    BY <1>1 DEF Out
  <1>4. \A s \in Sessions : row[s].status # "absent" => vendor[s] = "good"
    BY <1>0, <1>1 DEF Active
  <1>5. \A j \in Judges : hand[j].step = "none"
    BY <1>0, FreeFacts
  <1>6. TypeOK
    <2>1. vendor \in [Sessions -> {"none", "good", "polluted", "expired"}]
      BY <1>0
    <2>2. hand \in [Judges -> Hands]
      BY <1>0, FreeFacts
    <2>3. /\ told \in [Sessions -> {"", "told", "lost"}] /\ mixed \subseteq Sessions
          /\ cause \in [Sessions -> {"", "seen", "marker", "network", "blamed", "validated"}]
          /\ edited \subseteq Sessions
      BY <1>0
    <2>4. upsets \in 0..MaxUpsets
      <3>1. upsets = 0 /\ MaxUpsets \in Nat
        BY <1>0, PoolAssumption
      <3> QED
        BY <3>1
    <2>5. round \in [Sessions -> Purposes \cup {"none"}] /\ run \in Runs
      BY <1>0, <1>2, NoRunFacts
    <2> QED
      BY <1>1, <2>1, <2>2, <2>3, <2>4, <2>5 DEF TypeOK
  <1>7. ProbesAreReal
    <2>1. \A s \in Sessions : run.todo[s] = "none" /\ round[s] = "none"
      BY <1>0, <1>2, NoRunFacts
    <2> QED
      BY <1>4, <1>5, <2>1 DEF ProbesAreReal
  <1>8. RunsAreSeen /\ RunsAreMeant
    BY <1>0, NoRunFacts DEF RunsAreSeen, RunsAreMeant
  <1>9. WritesWillFit
    BY <1>5 DEF WritesWillFit
  <1>10. MarksAreTrue /\ LossIsTold
    <2>1. MarksAreTrue /\ LossIsPassedOn
      BY <1>3 DEF MarksAreTrue, LossIsPassedOn
    <2>2. Lost = {}
      BY <1>0 DEF Lost
    <2>3. Cardinality(Lost) = 0
      BY <2>2, FS_EmptySet
    <2>4. FewAreLost
      <3>1. upsets = 0
        BY <1>0
      <3> QED
        BY <2>3, <3>1 DEF FewAreLost
    <2> QED
      BY <2>1, <2>4 DEF LossIsTold
  <1>11. ResultAgrees
    BY <1>1, <1>3 DEF ResultAgrees, Counted
  <1> QED
    BY <1>6, <1>7, <1>8, <1>9, <1>10, <1>11 DEF PInv

\* and every step keeps it.
LEMMA Inductive ==
  ASSUME PInv, [Next]_vars
  PROVE  PInv'
  <1>1. /\ TypeOK /\ ProbesAreReal /\ RunsAreSeen /\ RunsAreMeant /\ WritesWillFit
        /\ MarksAreTrue /\ LossIsPassedOn /\ FewAreLost /\ ResultAgrees
    BY DEF PInv, LossIsTold
  <1>2. TypeOK'
    BY <1>1, TypeStep
  <1>3. ProbesAreReal'
    BY <1>1, ProbesStep
  <1>4. RunsAreSeen' /\ RunsAreMeant'
    BY <1>1, SeenStep, MeantStep
  <1>5. WritesWillFit'
    BY <1>1, FitStep
  <1>6. MarksAreTrue'
    BY <1>1, MarksStep
  <1>7. LossIsTold'
    <2>1. LossIsPassedOn'
      BY <1>1, ToldStep
    <2>2. FewAreLost'
      BY <1>1, LostStep
    <2> QED
      BY <2>1, <2>2 DEF LossIsTold
  <1>8. ResultAgrees'
    BY <1>1, AgreesStep
  <1> QED
    BY <1>2, <1>3, <1>4, <1>5, <1>6, <1>7, <1>8 DEF PInv

\* Three judges, the runs and the user, in any order, keep the inductive invariant.
THEOREM Invariance == Spec => []PInv
  <1>1. Init => PInv
    BY Initially
  <1>2. PInv /\ [Next]_vars => PInv'
    BY Inductive
  <1> QED
    BY <1>1, <1>2, PTL DEF Spec

\* The table, the hands of the judges and the run keep their types.
THEOREM Typing == Spec => []TypeOK
  <1>1. PInv => TypeOK
    BY DEF PInv
  <1> QED
    BY <1>1, Invariance, PTL

\* A session at work is meant for collecting, unless the user edited it during the
\* run; quick and full runs collect with the one that their own pre-flight saw
\* working, and only a full run leaves it, for one of its pool.
THEOREM CollectsSeen == Spec => []CollectsWithSeen
  <1>1. PInv => CollectsWithSeen
    BY DEF PInv, RunsAreSeen, RunsAreMeant, CollectsWithSeen
  <1> QED
    BY <1>1, Invariance, PTL

\* A good session is out of the pool for trouble on the way, for a full run's blame,
\* or for a marker on a page that is good only, however late a verdict is written.
THEOREM MarksHold == Spec => []MarksAreTrue
  <1>1. PInv => MarksAreTrue
    BY DEF PInv
  <1> QED
    BY <1>1, Invariance, PTL

\* No loss that the pre-flight or a heartbeat wrote down is forgotten, except with
\* the notice itself, and of those no failure takes more than two.
THEOREM LossTold == Spec => []LossIsTold
  <1>1. PInv => LossIsTold
    BY DEF PInv
  <1> QED
    BY <1>1, Invariance, PTL

\* The two columns that a verdict writes one after the other agree, unless verdicts
\* crossed or a write was lost: what is active and counted as failing only got no
\* proper answer, and what is out has no good result.
THEOREM ResultsAgree == Spec => []ResultAgrees
  <1>1. PInv => ResultAgrees
    BY DEF PInv
  <1> QED
    BY <1>1, Invariance, PTL

==============================================================================
