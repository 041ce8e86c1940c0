--------------------------- MODULE PushLimitsProofs ---------------------------
(***************************************************************************)
(* Proofs about PushLimits, for every set of threads, keys, channels,      *)
(* customers and requests, and all limits, windows and bans.               *)
(***************************************************************************)
EXTENDS PushLimits, FiniteSetTheorems, TLAPS

\* Three layers.
LEMMA LayerFacts ==
  /\ Len(Layers) = 3
  /\ Layers[1] = "channel" /\ Layers[2] = "customer" /\ Layers[3] = "global"
  BY DEF Layers

\* What an idle thread looks like.
LEMMA IdleFacts ==
  /\ Idle \in Jobs /\ Idle.phase = "idle" /\ Idle.todo = {} /\ Idle.layer = 1
  BY LayerFacts DEF Idle, Fresh, Jobs, Phases

\* The scopes of a request.
LEMMA ScopeType ==
  ASSUME NEW r \in Requests, NEW i \in 1..3
  PROVE  ScopeOf(r, Layers[i]) \in Scopes
  BY RequestAssumption, LayerFacts DEF ScopeOf, Scopes

\* The counters of a mail.
LEMMA UpsertsType ==
  ASSUME NEW r \in Requests
  PROVE  Upserts(r) \subseteq Nat \X Scopes \X Units
  BY ScopeType, LayerFacts DEF Upserts

\* A request is one, and leads past the limits or straight to the sending.
LEMMA EntersFacts ==
  ASSUME TypeOK, NEW t \in Threads, NEW r \in Requests, NEW phase \in Phases, Enters(t, r, phase)
  PROVE  /\ thread' \in [Threads -> Jobs]
         /\ thread'[t].phase = phase /\ thread'[t].req = r /\ thread'[t].todo = {}
         /\ thread'[t].layer = 1 /\ thread'[t].stale = FALSE
         /\ \A u \in Threads \ {t} : thread'[u] = thread[u]
  <1> DEFINE j == Fresh(phase, r)
  <1>1. j \in Jobs /\ j.phase = phase /\ j.req = r /\ j.todo = {} /\ j.layer = 1 /\ j.stale = FALSE
    BY LayerFacts DEF Fresh, Jobs
  <1>2. thread \in [Threads -> Jobs] /\ thread' = [thread EXCEPT ![t] = j]
    BY DEF TypeOK, Enters
  <1> HIDE DEF j
  <1> QED
    BY <1>1, <1>2

\* A thread goes to another phase.
LEMMA ToFacts ==
  ASSUME TypeOK, NEW t \in Threads, NEW phase \in Phases, To(t, phase)
  PROVE  /\ thread' \in [Threads -> Jobs]
         /\ thread'[t].phase = phase /\ thread'[t].req = thread[t].req
         /\ thread'[t].todo = thread[t].todo /\ thread'[t].layer = thread[t].layer
         /\ thread'[t].stale = thread[t].stale
         /\ \A u \in Threads \ {t} : thread'[u] = thread[u]
  BY DEF TypeOK, To, Jobs

\* A thread ends.
LEMMA EndsFacts ==
  ASSUME TypeOK, NEW t \in Threads, Ends(t)
  PROVE  /\ thread' \in [Threads -> Jobs]
         /\ thread'[t] = Idle
         /\ \A u \in Threads \ {t} : thread'[u] = thread[u]
  BY IdleFacts DEF TypeOK, Ends

\* The other threads go on from where they are, at most marked as stale.
LEMMA PlaceBanFacts ==
  ASSUME TypeOK, NEW t \in Threads, PlaceBan(t)
  PROVE  /\ thread' \in [Threads -> Jobs]
         /\ thread'[t] = Idle
         /\ \A u \in Threads \ {t} :
               /\ thread'[u].phase = thread[u].phase /\ thread'[u].req = thread[u].req
               /\ thread'[u].todo = thread[u].todo /\ thread'[u].layer = thread[u].layer
               /\ thread'[u].stale = IF u \in InFlight(KeyOf(t)) THEN TRUE ELSE thread[u].stale
  <1>1. thread \in [Threads -> Jobs]
    BY DEF TypeOK
  <1>2. thread' = [u \in Threads |-> IF u = t THEN Idle
                                     ELSE IF u \in InFlight(KeyOf(t)) THEN [thread[u] EXCEPT !.stale = TRUE]
                                     ELSE thread[u]]
    BY DEF PlaceBan, Overtaken
  <1>3. \A u \in Threads : [thread[u] EXCEPT !.stale = TRUE] \in Jobs
    BY <1>1 DEF Jobs
  <1>4. thread' \in [Threads -> Jobs] /\ thread'[t] = Idle
    BY <1>1, <1>2, <1>3, IdleFacts
  <1>5. ASSUME NEW u \in Threads \ {t}
        PROVE  /\ thread'[u].phase = thread[u].phase /\ thread'[u].req = thread[u].req
               /\ thread'[u].todo = thread[u].todo /\ thread'[u].layer = thread[u].layer
               /\ thread'[u].stale = IF u \in InFlight(KeyOf(t)) THEN TRUE ELSE thread[u].stale
    BY <1>1, <1>2 DEF Jobs
  <1> QED
    BY <1>4, <1>5

\* The clock turns the buckets.
LEMMA TickFacts ==
  ASSUME TypeOK, Tick
  PROVE  /\ thread' \in [Threads -> Jobs]
         /\ \A u \in Threads :
               /\ thread'[u].phase = thread[u].phase /\ thread'[u].req = thread[u].req
               /\ thread'[u].todo = StillCurrent(thread[u].todo) /\ thread'[u].layer = thread[u].layer
               /\ thread'[u].stale = thread[u].stale
  <1>1. thread \in [Threads -> Jobs]
    BY DEF TypeOK
  <1>2. thread' = [u \in Threads |-> [thread[u] EXCEPT !.todo = StillCurrent(@)]]
    BY DEF Tick
  <1>3. \A u \in Threads : StillCurrent(thread[u].todo) \subseteq Nat \X Scopes \X Units
    BY <1>1 DEF StillCurrent, Jobs
  <1>4. \A u \in Threads : [thread[u] EXCEPT !.todo = StillCurrent(@)] \in Jobs
    BY <1>1, <1>3 DEF Jobs
  <1> QED
    BY <1>1, <1>2, <1>4 DEF Jobs

-----------------------------------------------------------------------------
(* The steps of a thread between its check and its record *)

Walks(t) ==
    \/ PassLayer(t) \/ RefuseMail(t) \/ Accepted(t) \/ Rejected(t) \/ CountMail(t)
    \/ CountingDone(t) \/ CountingFails(t) \/ Log(t) \/ LogFails(t) \/ ReadRow(t)

\* A thread that is not idle serves a request.
LEMMA RequestFacts ==
  ASSUME TypeOK, CountsAreOwn, NEW t \in Threads, thread[t].phase # "idle"
  PROVE  /\ Asks(t) \in Requests /\ KeyOf(t) \in Keys
         /\ Asks(t).mail \in BOOLEAN /\ Asks(t).kind \in Kinds
         /\ thread[t] \in Jobs /\ row[KeyOf(t)] \in Row
  <1>1. Asks(t) \in Requests
    BY DEF CountsAreOwn, At
  <1> QED
    BY <1>1, RequestAssumption DEF TypeOK, KeyOf

\* PassLayer: one layer further, or to the conversation.
LEMMA PassFacts ==
  ASSUME TypeOK, NEW t \in Threads, PassLayer(t)
  PROVE  /\ thread' \in [Threads -> Jobs]
         /\ \A u \in Threads \ {t} : thread'[u] = thread[u]
         /\ thread'[t].req = thread[t].req /\ thread'[t].stale = thread[t].stale
         /\ thread'[t].todo = thread[t].todo
         /\ \/ thread[t].layer = 3 /\ thread'[t].phase = "posting" /\ thread'[t].layer = 3
            \/ /\ thread[t].layer \in 1..2 /\ thread'[t].phase = "limits"
               /\ thread'[t].layer = thread[t].layer + 1
  <1> DEFINE j == thread[t]
             next == [j EXCEPT !.layer = j.layer + 1]
  <1>1. j \in Jobs /\ j.layer \in 1..3 /\ thread \in [Threads -> Jobs]
    BY LayerFacts DEF TypeOK, Jobs
  <1>2. j.phase = "limits"
    BY DEF PassLayer, At
  <1>3. CASE j.layer = 3
    <2>1. To(t, "posting")
      BY <1>3, LayerFacts DEF PassLayer
    <2> QED
      BY <1>3, <2>1, ToFacts DEF Phases
  <1>4. CASE j.layer # 3
    <2>1. thread' = [thread EXCEPT ![t] = next]
      BY <1>1, <1>4, LayerFacts DEF PassLayer
    <2>2. next \in Jobs /\ next.phase = "limits" /\ next.req = j.req /\ next.stale = j.stale
          /\ next.todo = j.todo /\ next.layer = j.layer + 1
      BY <1>1, <1>2, <1>4, LayerFacts DEF Jobs
    <2>3. j.layer \in 1..2
      BY <1>1, <1>4
    <2> HIDE DEF next
    <2> QED
      BY <1>1, <2>1, <2>2, <2>3
  <1> QED
    BY <1>3, <1>4

\* The two steps that change the list of statements.
LEMMA AcceptedFacts ==
  ASSUME TypeOK, CountsAreOwn, NEW t \in Threads, Accepted(t)
  PROVE  /\ thread' \in [Threads -> Jobs]
         /\ \A u \in Threads \ {t} : thread'[u] = thread[u]
         /\ thread'[t].req = thread[t].req /\ thread'[t].stale = thread[t].stale
         /\ \/ thread'[t].phase = "logging" /\ thread'[t].todo = thread[t].todo
            \/ /\ thread'[t].phase = "counting" /\ thread'[t].todo = Upserts(Asks(t))
               /\ Asks(t).mail /\ Counted(Asks(t))
  <1> DEFINE j == [thread[t] EXCEPT !.phase = "counting", !.todo = Upserts(Asks(t))]
  <1>1. thread[t] \in Jobs /\ thread \in [Threads -> Jobs] /\ thread[t].phase = "posting"
    BY DEF TypeOK, Accepted, At
  <1>2. Upserts(Asks(t)) \subseteq Nat \X Scopes \X Units
    BY <1>1, RequestFacts, UpsertsType
  <1>3. CASE Asks(t).mail /\ Counted(Asks(t))
    <2>1. thread' = [thread EXCEPT ![t].phase = "counting", ![t].todo = Upserts(Asks(t))]
      BY <1>3 DEF Accepted
    <2>2. thread' = [thread EXCEPT ![t] = j]
      BY <1>1, <2>1
    <2>3. /\ j \in Jobs /\ j.phase = "counting" /\ j.todo = Upserts(Asks(t))
          /\ j.req = thread[t].req /\ j.stale = thread[t].stale
      BY <1>1, <1>2 DEF Jobs, Phases
    <2> HIDE DEF j
    <2> QED
      BY <1>1, <1>3, <2>2, <2>3
  <1>4. CASE ~ (Asks(t).mail /\ Counted(Asks(t)))
    <2>1. To(t, "logging")
      BY <1>4 DEF Accepted
    <2> QED
      BY <2>1, ToFacts DEF Phases
  <1> QED
    BY <1>3, <1>4

\* One counter of a mail is raised.
LEMMA CountMailFacts ==
  ASSUME TypeOK, NEW t \in Threads, CountMail(t)
  PROVE  /\ thread' \in [Threads -> Jobs]
         /\ \A u \in Threads \ {t} : thread'[u] = thread[u]
         /\ thread'[t].req = thread[t].req /\ thread'[t].stale = thread[t].stale
         /\ thread[t].phase = "counting" /\ thread'[t].phase = "counting"
         /\ \E w \in thread[t].todo :
               /\ w \in Nat \X Scopes \X Units /\ \A v \in thread[t].todo : w[1] <= v[1]
               /\ thread'[t].todo = thread[t].todo \ {w}
               /\ counter' = [counter EXCEPT ![w[2]][w[3]] = @ + 1]
  <1>1. thread[t] \in Jobs /\ thread \in [Threads -> Jobs] /\ thread[t].phase = "counting"
    BY DEF TypeOK, CountMail, At
  <1>2. PICK w \in thread[t].todo : /\ \A v \in thread[t].todo : w[1] <= v[1]
                                    /\ counter' = [counter EXCEPT ![w[2]][w[3]] = @ + 1]
                                    /\ thread' = [thread EXCEPT ![t].todo = @ \ {w}]
    BY DEF CountMail
  <1>3. w \in Nat \X Scopes \X Units
    BY <1>1 DEF Jobs
  <1> DEFINE j == [thread[t] EXCEPT !.todo = @ \ {w}]
  <1>4. thread' = [thread EXCEPT ![t] = j]
    BY <1>1, <1>2
  <1>5. /\ j \in Jobs /\ j.phase = "counting" /\ j.todo = thread[t].todo \ {w}
        /\ j.req = thread[t].req /\ j.stale = thread[t].stale
    BY <1>1 DEF Jobs
  <1> HIDE DEF j
  <1> QED
    BY <1>1, <1>2, <1>3, <1>4, <1>5

\* The counting of a mail breaks off.
LEMMA CountingFailsFacts ==
  ASSUME TypeOK, NEW t \in Threads, CountingFails(t)
  PROVE  /\ thread' \in [Threads -> Jobs]
         /\ \A u \in Threads \ {t} : thread'[u] = thread[u]
         /\ thread'[t].req = thread[t].req /\ thread'[t].stale = thread[t].stale
         /\ thread[t].phase = "counting" /\ thread'[t].phase = "logging"
         /\ thread'[t].todo = {}
  <1> DEFINE j == [thread[t] EXCEPT !.phase = "logging", !.todo = {}]
  <1>1. thread[t] \in Jobs /\ thread \in [Threads -> Jobs] /\ thread[t].phase = "counting"
    BY DEF TypeOK, CountingFails, At
  <1>2. thread' = [thread EXCEPT ![t] = j]
    BY <1>1 DEF CountingFails
  <1>3. /\ j \in Jobs /\ j.phase = "logging" /\ j.todo = {}
        /\ j.req = thread[t].req /\ j.stale = thread[t].stale
    BY <1>1 DEF Jobs, Phases
  <1> HIDE DEF j
  <1> QED
    BY <1>1, <1>2, <1>3

Recording == {"reading", "insert", "reset", "increment"}

\* What all these steps have in common.
LEMMA WalkFacts ==
  ASSUME TypeOK, RowsMakeSense, CountsAreOwn, NEW t \in Threads, Walks(t)
  PROVE  /\ thread' \in [Threads -> Jobs] /\ row' = row
         /\ \A u \in Threads \ {t} : thread'[u] = thread[u]
         /\ thread[t].phase \notin {"idle", "banning"}
         /\ \/ thread'[t] = Idle
            \/ /\ thread'[t].req = thread[t].req /\ thread'[t].stale = thread[t].stale
               /\ thread'[t].phase \notin {"idle", "banning"}
               /\ thread'[t].phase \in Recording => Asks(t).kind = "push"
               /\ thread'[t].phase \in {"reset", "increment"} => row[KeyOf(t)].present
               /\ thread'[t].phase = "increment" => InWindow(KeyOf(t))
         /\ thread'[t].todo # {} =>
               thread'[t].phase = "counting" /\ thread'[t].todo \subseteq Upserts(Asks(t))
         /\ clock' = clock /\ faults' \in 0 .. MaxFaults
  <1> USE DEF At
  <1>0. /\ row' = row /\ clock' = clock /\ faults' \in 0 .. MaxFaults
        /\ thread[t].phase \notin {"idle", "banning"}
    BY LimitAssumption DEF TypeOK, Walks, PassLayer, RefuseMail, Accepted, Rejected, CountMail,
       CountingDone, CountingFails, Log, LogFails, ReadRow
  <1>a. thread[t].todo # {} => thread[t].phase = "counting" /\ thread[t].todo \subseteq Upserts(Asks(t))
    BY DEF CountsAreOwn
  <1>b. "idle" \in Phases /\ "logging" \in Phases /\ "posting" \in Phases /\ "reading" \in Phases
        /\ "insert" \in Phases /\ "reset" \in Phases /\ "increment" \in Phases
    BY DEF Phases
  <1>1. CASE PassLayer(t)
    BY <1>1, <1>0, <1>a, PassFacts DEF Recording, PassLayer
  <1>2. CASE RefuseMail(t)
    BY <1>2, <1>0, <1>a, <1>b, ToFacts DEF Recording, RefuseMail
  <1>3. CASE Accepted(t)
    <2>1. thread[t].phase = "posting"
      BY <1>3 DEF Accepted
    <2> QED
      BY <2>1, <1>3, <1>0, <1>a, AcceptedFacts DEF Recording
  <1>4. CASE Rejected(t)
    BY <1>4, <1>0, <1>a, <1>b, ToFacts DEF Recording, Rejected
  <1>5. CASE CountMail(t)
    BY <1>5, <1>0, <1>a, CountMailFacts DEF Recording
  <1>6. CASE CountingDone(t)
    BY <1>6, <1>0, <1>a, <1>b, ToFacts DEF Recording, CountingDone
  <1>7. CASE CountingFails(t)
    BY <1>7, <1>0, <1>a, CountingFailsFacts DEF Recording
  <1>8. CASE Log(t)
    <2>1. CASE Asks(t).kind = "push"
      <3>1. To(t, "reading") /\ thread[t].phase = "logging"
        BY <1>8, <2>1 DEF Log
      <3> QED
        BY <2>1, <3>1, <1>0, <1>a, <1>b, ToFacts DEF Recording
    <2>2. CASE Asks(t).kind # "push"
      <3>1. Ends(t)
        BY <1>8, <2>2 DEF Log
      <3> QED
        BY <3>1, <1>0, EndsFacts, IdleFacts
    <2> QED
      BY <2>1, <2>2
  <1>9. CASE LogFails(t)
    BY <1>9, <1>0, EndsFacts, IdleFacts DEF LogFails
  <1>10. CASE ReadRow(t)
    <2> DEFINE k == KeyOf(t)
               next == IF ~ row[k].present THEN "insert"
                       ELSE IF InWindow(k) THEN "increment" ELSE "reset"
    <2>1. To(t, next) /\ thread[t].phase = "reading"
      BY <1>10 DEF ReadRow
    <2>2. Asks(t).kind = "push"
      BY <2>1 DEF RowsMakeSense
    <2>3. next \in Phases /\ next \in Recording
          /\ (next \in {"reset", "increment"} => row[k].present)
          /\ (next = "increment" => InWindow(k))
      BY DEF Phases, Recording
    <2> HIDE DEF next
    <2>4. /\ thread' \in [Threads -> Jobs]
          /\ \A u \in Threads \ {t} : thread'[u] = thread[u]
          /\ thread'[t].req = thread[t].req /\ thread'[t].stale = thread[t].stale
          /\ thread'[t].phase = next /\ thread'[t].todo = thread[t].todo
      BY <2>1, <2>3, ToFacts
    <2>5. next \notin {"idle", "banning"} /\ thread[t].todo = {}
      BY <2>1, <2>3, <1>a DEF Recording
    <2> QED
      BY <1>0, <2>2, <2>3, <2>4, <2>5
  <1> QED
    BY <1>1, <1>2, <1>3, <1>4, <1>5, <1>6, <1>7, <1>8, <1>9, <1>10 DEF Walks

\* WriteRow: what becomes of the row.
LEMMA WriteFacts ==
  ASSUME TypeOK, RowsMakeSense, CountsAreOwn, NEW t \in Threads, WriteRow(t)
  PROVE  /\ thread' \in [Threads -> Jobs] /\ thread'[t] = Idle
         /\ \A u \in Threads \ {t} : thread'[u] = thread[u]
         /\ thread[t].phase \in {"insert", "reset", "increment"} /\ Asks(t).kind = "push"
         /\ row' \in [Keys -> Row]
         /\ \A k \in Keys \ {KeyOf(t)} : row'[k] = row[k]
         /\ LET k == KeyOf(t)
            IN  /\ row'[k].present
                /\ \/ row'[k] = row[k]
                   \/ /\ (thread[t].phase = "insert" /\ ~ row[k].present) \/ thread[t].phase = "reset"
                      /\ row'[k].count = 1 /\ row'[k].age = 0 /\ row'[k].ban = 0
                   \/ /\ thread[t].phase = "increment"
                      /\ row'[k].count = row[k].count + 1
                      /\ row'[k].age = row[k].age /\ row'[k].ban = row[k].ban
         /\ clock' = clock /\ faults' = faults
  <1> USE DEF At
  <1> DEFINE k == KeyOf(t)
             fresh == [present |-> TRUE, count |-> 1, age |-> 0, ban |-> 0]
             more == [row[k] EXCEPT !.count = @ + 1]
  <1>1. /\ thread' \in [Threads -> Jobs] /\ thread'[t] = Idle
        /\ \A u \in Threads \ {t} : thread'[u] = thread[u]
        /\ clock' = clock /\ faults' = faults
    BY EndsFacts DEF WriteRow
  <1>2. thread[t].phase \in {"insert", "reset", "increment"}
    BY DEF WriteRow
  <1>3. k \in Keys /\ row[k] \in Row /\ row \in [Keys -> Row] /\ Asks(t).kind = "push"
    BY <1>2, RequestFacts DEF TypeOK, RowsMakeSense
  <1>4. /\ fresh \in Row /\ fresh.count = 1 /\ fresh.age = 0 /\ fresh.ban = 0 /\ fresh.present
    BY LimitAssumption DEF Row
  <1>5. /\ more \in Row /\ more.count = row[k].count + 1 /\ more.age = row[k].age
        /\ more.ban = row[k].ban /\ more.present = row[k].present
    BY <1>3 DEF Row
  <1>6. CASE thread[t].phase = "insert"
    <2>1. row' = IF row[k].present THEN row ELSE [row EXCEPT ![k] = fresh]
      BY <1>6 DEF WriteRow
    <2> HIDE DEF fresh, k
    <2> QED
      BY <1>1, <1>2, <1>3, <1>4, <1>6, <2>1 DEF k
  <1>7. CASE thread[t].phase = "reset"
    <2>1. row' = [row EXCEPT ![k] = fresh]
      BY <1>7 DEF WriteRow
    <2> HIDE DEF fresh, k
    <2> QED
      BY <1>1, <1>2, <1>3, <1>4, <1>7, <2>1 DEF k
  <1>8. CASE thread[t].phase = "increment"
    <2>1. row' = [row EXCEPT ![k] = more]
      BY <1>3, <1>8 DEF WriteRow
    <2>2. row[k].present
      BY <1>8 DEF RowsMakeSense
    <2> HIDE DEF more, k
    <2> QED
      BY <1>1, <1>2, <1>3, <1>5, <1>8, <2>1, <2>2 DEF k
  <1> QED
    BY <1>2, <1>6, <1>7, <1>8

\* The other steps that write rows.
LEMMA BanRowFacts ==
  ASSUME TypeOK, CountsAreOwn, NEW t \in Threads, PlaceBan(t)
  PROVE  /\ row' \in [Keys -> Row] /\ KeyOf(t) \in Keys /\ thread[t].phase = "banning"
         /\ \A k \in Keys \ {KeyOf(t)} : row'[k] = row[k]
         /\ row'[KeyOf(t)].ban = Ban /\ row'[KeyOf(t)].count = row[KeyOf(t)].count
         /\ row'[KeyOf(t)].age = row[KeyOf(t)].age /\ row'[KeyOf(t)].present = row[KeyOf(t)].present
  <1> DEFINE k == KeyOf(t)
             banned == [row[k] EXCEPT !.ban = Ban]
  <1>1. thread[t].phase = "banning"
    BY DEF PlaceBan, At
  <1>2. k \in Keys /\ row[k] \in Row /\ row \in [Keys -> Row]
    BY <1>1, RequestFacts DEF TypeOK
  <1>3. row' = [row EXCEPT ![k] = banned]
    BY <1>2 DEF PlaceBan
  <1>4. /\ banned \in Row /\ banned.ban = Ban /\ banned.count = row[k].count
        /\ banned.age = row[k].age /\ banned.present = row[k].present
    BY <1>2, LimitAssumption DEF Row
  <1> HIDE DEF banned, k
  <1> QED
    BY <1>1, <1>2, <1>3, <1>4 DEF k

\* A ban is cleared.
LEMMA ClearFacts ==
  ASSUME TypeOK, NEW ks, ClearBan(ks)
  PROVE  /\ row' \in [Keys -> Row]
         /\ \A k \in Keys :
               \/ row'[k] = row[k]
               \/ /\ row[k].present /\ row'[k].present
                  /\ row'[k].count = 0 /\ row'[k].age = Window /\ row'[k].ban = 0
  <1> DEFINE blank == [NoRow EXCEPT !.present = TRUE]
  <1>1. row' = [k \in Keys |-> IF k \in ks /\ row[k].present THEN blank ELSE row[k]]
    BY DEF ClearBan
  <1>2. blank \in Row /\ blank.present /\ blank.count = 0 /\ blank.age = Window /\ blank.ban = 0
    <2>1. NoRow \in Row /\ NoRow.count = 0 /\ NoRow.age = Window /\ NoRow.ban = 0
      BY LimitAssumption DEF NoRow, Row
    <2> QED
      BY <2>1 DEF Row
  <1>3. row \in [Keys -> Row]
    BY DEF TypeOK
  <1> HIDE DEF blank
  <1> QED
    BY <1>1, <1>2, <1>3

\* The clock moves every window.
LEMMA TickRow ==
  ASSUME TypeOK, Tick
  PROVE  /\ row' \in [Keys -> Row]
         /\ \A k \in Keys :
               /\ row'[k].present = row[k].present /\ row'[k].count = row[k].count
               /\ row'[k].ban = Earlier(row[k].ban)
               /\ row'[k].age = IF row[k].age < Window THEN row[k].age + 1 ELSE row[k].age
               /\ row'[k] = [row[k] EXCEPT !.ban = Earlier(@), !.age = row'[k].age]
  <1> DEFINE later(k) == [row[k] EXCEPT !.ban = Earlier(@),
                                       !.age = IF @ < Window THEN @ + 1 ELSE @]
  <1>1. row' = [k \in Keys |-> later(k)]
    BY DEF Tick
  <1>2. ASSUME NEW k \in Keys
        PROVE  /\ later(k) \in Row
               /\ later(k).present = row[k].present /\ later(k).count = row[k].count
               /\ later(k).ban = Earlier(row[k].ban)
               /\ later(k).age = IF row[k].age < Window THEN row[k].age + 1 ELSE row[k].age
               /\ later(k) = [row[k] EXCEPT !.ban = Earlier(@), !.age = later(k).age]
    <2>1. row[k] \in Row
      BY DEF TypeOK
    <2>2. Earlier(row[k].ban) \in 0 .. Ban
      BY <2>1, LimitAssumption DEF Row, Earlier
    <2>3. (IF row[k].age < Window THEN row[k].age + 1 ELSE row[k].age) \in 0 .. Window
      BY <2>1, LimitAssumption DEF Row
    <2> DEFINE age == IF row[k].age < Window THEN row[k].age + 1 ELSE row[k].age
               ban == Earlier(row[k].ban)
    <2>4. later(k) = [row[k] EXCEPT !.ban = ban, !.age = age]
      BY <2>1 DEF Row
    <2> HIDE DEF age, ban
    <2>5. /\ later(k) \in Row
          /\ later(k).present = row[k].present /\ later(k).count = row[k].count
          /\ later(k).ban = ban /\ later(k).age = age
      BY <2>1, <2>2, <2>3, <2>4 DEF Row, age, ban
    <2>6. later(k) = [row[k] EXCEPT !.ban = ban, !.age = later(k).age]
      BY <2>4, <2>5
    <2> QED
      BY <2>5, <2>6 DEF age, ban
  <1> HIDE DEF later
  <1> QED
    BY <1>1, <1>2

\* What the clock does to the rows.
LEMMA TickRowFacts ==
  ASSUME TypeOK, Tick
  PROVE  /\ row' \in [Keys -> Row]
         /\ \A k \in Keys :
               /\ row'[k].present = row[k].present /\ row'[k].count = row[k].count
               /\ row'[k].ban = Earlier(row[k].ban)
               /\ row'[k].age = IF row[k].age < Window THEN row[k].age + 1 ELSE row[k].age
  BY TickRow

\* Who begins.
Begins(t, r) == Admit(t, r) \/ Exceed(t, r) \/ Bypass(t, r)

\* A request begins.
LEMMA BeginFacts ==
  ASSUME TypeOK, NEW t \in Threads, NEW r \in Requests, Begins(t, r)
  PROVE  /\ thread' \in [Threads -> Jobs] /\ UNCHANGED <<row, counter, clock, faults>>
         /\ \A u \in Threads \ {t} : thread'[u] = thread[u]
         /\ thread[t].phase = "idle" /\ thread'[t].req = r /\ thread'[t].todo = {}
         /\ thread'[t].layer = 1
         /\ \/ r.kind = "push" /\ ~ Banned(r.key) /\ Exhausted(r.key) /\ thread'[t].phase = "banning"
            \/ /\ r.kind = "push" => ~ Banned(r.key) /\ ~ Exhausted(r.key)
               /\ \/ thread'[t].phase = "limits"
                  \/ thread'[t].phase = "posting" /\ ~ r.mail
  <1> USE DEF At
  <1>1. UNCHANGED <<row, counter, clock, faults>> /\ thread[t].phase = "idle"
    BY DEF Begins, Admit, Exceed, Bypass
  <1>2. r.mail \in BOOLEAN /\ "limits" \in Phases /\ "posting" \in Phases /\ "banning" \in Phases
    BY RequestAssumption DEF Phases
  <1>3. CASE Exceed(t, r)
    BY <1>1, <1>2, <1>3, EntersFacts DEF Exceed
  <1>4. CASE Admit(t, r) \/ Bypass(t, r)
    <2>1. Enters(t, r, AfterCheck(r)) /\ AfterCheck(r) \in {"limits", "posting"}
          /\ (r.kind = "push" => ~ Banned(r.key) /\ ~ Exhausted(r.key))
      BY <1>4 DEF Admit, Bypass, AfterCheck
    <2>2. AfterCheck(r) = "posting" => ~ r.mail
      BY DEF AfterCheck
    <2>3. AfterCheck(r) \in Phases
      BY <1>2, <2>1
    <2>4. /\ thread' \in [Threads -> Jobs]
          /\ \A u \in Threads \ {t} : thread'[u] = thread[u]
          /\ thread'[t].req = r /\ thread'[t].todo = {} /\ thread'[t].layer = 1
          /\ thread'[t].phase = AfterCheck(r)
      BY <2>1, <2>3, EntersFacts
    <2> QED
      BY <1>1, <2>1, <2>2, <2>4
  <1> QED
    BY <1>3, <1>4 DEF Begins

-----------------------------------------------------------------------------
(* Types *)

\* The clock is a time of day.
LEMMA ClockType ==
  ASSUME TypeOK
  PROVE  NextClock \in 0 .. DayLength - 1
  BY LimitAssumption DEF TypeOK, NextClock

\* Counters stay numbers.
LEMMA CounterType ==
  ASSUME TypeOK, NEW t \in Threads, Walks(t)
  PROVE  counter' \in [Scopes -> [Units -> Nat]]
  <1>1. counter \in [Scopes -> [Units -> Nat]]
    BY DEF TypeOK
  <1>2. CASE CountMail(t)
    <2>1. PICK w \in Nat \X Scopes \X Units : counter' = [counter EXCEPT ![w[2]][w[3]] = @ + 1]
      BY <1>2, CountMailFacts
    <2>2. w[2] \in Scopes /\ w[3] \in Units
      BY <2>1
    <2> QED
      BY <1>1, <2>1, <2>2
  <1>3. CASE ~ CountMail(t)
    BY <1>1, <1>3 DEF Walks, PassLayer, RefuseMail, Accepted, Rejected, CountingDone,
       CountingFails, Log, LogFails, ReadRow
  <1> QED
    BY <1>2, <1>3

\* One step of the system.
LEMMA Steps ==
  ASSUME Next
  PROVE  \/ \E t \in Threads, r \in Requests : Begins(t, r)
         \/ \E t \in Threads : PlaceBan(t)
         \/ \E t \in Threads : Walks(t)
         \/ \E t \in Threads : WriteRow(t)
         \/ \E ks \in SUBSET Keys : ClearBan(ks)
         \/ Tick
  BY DEF Next, Begins, Step, Walks

\* Every step keeps the types,
LEMMA TypeStep ==
  ASSUME TypeOK, RowsMakeSense, CountsAreOwn, [Next]_vars
  PROVE  TypeOK'
  <1>0. CASE UNCHANGED vars
    BY <1>0 DEF TypeOK, vars
  <1>1. ASSUME NEW t \in Threads, NEW r \in Requests, Begins(t, r)
        PROVE  TypeOK'
    BY <1>1, BeginFacts DEF TypeOK
  <1>2. ASSUME NEW t \in Threads, PlaceBan(t)
        PROVE  TypeOK'
    BY <1>2, PlaceBanFacts, BanRowFacts DEF TypeOK, PlaceBan
  <1>3. ASSUME NEW t \in Threads, Walks(t)
        PROVE  TypeOK'
    BY <1>3, WalkFacts, CounterType DEF TypeOK
  <1>4. ASSUME NEW t \in Threads, WriteRow(t)
        PROVE  TypeOK'
    BY <1>4, WriteFacts DEF TypeOK, WriteRow
  <1>5. ASSUME NEW ks \in SUBSET Keys, ClearBan(ks)
        PROVE  TypeOK'
    BY <1>5, ClearFacts DEF TypeOK, ClearBan
  <1>6. CASE Tick
    <2>1. counter' \in [Scopes -> [Units -> Nat]]
      BY <1>6 DEF Tick, TypeOK
    <2> QED
      BY <1>6, <2>1, TickFacts, TickRowFacts, ClockType DEF TypeOK, Tick
  <1> QED
    BY <1>0, <1>1, <1>2, <1>3, <1>4, <1>5, <1>6, Steps

-----------------------------------------------------------------------------
(* Rows, bans and lists *)

\* the sense of the rows,
LEMMA RowsStep ==
  ASSUME TypeOK, RowsMakeSense, CountsAreOwn, [Next]_vars
  PROVE  RowsMakeSense'
  <1> USE DEF At, Recording
  <1> SUFFICES /\ \A k \in Keys : ~ row'[k].present => row'[k] = NoRow
               /\ \A t \in Threads :
                     /\ thread'[t].phase \in {"banning", "reset", "increment"} =>
                           row'[thread'[t].req.key].present
                     /\ thread'[t].phase \in Recording => thread'[t].req.kind = "push"
    BY DEF RowsMakeSense, KeyOf, Asks
  <1>a. /\ \A k \in Keys : ~ row[k].present => row[k] = NoRow
        /\ \A t \in Threads :
              /\ thread[t].phase \in {"banning", "reset", "increment"} =>
                    row[thread[t].req.key].present
              /\ thread[t].phase \in Recording => thread[t].req.kind = "push"
    BY DEF RowsMakeSense, KeyOf, Asks
  <1>b. \A t \in Threads : thread[t].phase # "idle" => thread[t].req.key \in Keys
    BY RequestFacts DEF KeyOf, Asks
  <1>0. CASE UNCHANGED vars
    BY <1>0, <1>a DEF vars
  <1>1. ASSUME NEW t \in Threads, NEW r \in Requests, Begins(t, r)
        PROVE  RowsMakeSense'
    <2>1. Exhausted(r.key) => row[r.key].present
      <3>1. r.key \in Keys
        BY RequestAssumption
      <3>2. NoRow.age = Window
        BY DEF NoRow
      <3> QED
        BY <3>1, <3>2, <1>a, LimitAssumption DEF Exhausted, InWindow
    <2>2. /\ row' = row /\ \A u \in Threads \ {t} : thread'[u] = thread[u]
          /\ thread'[t].req = r /\ thread'[t].phase \in {"banning", "limits", "posting"}
          /\ thread'[t].phase = "banning" => Exhausted(r.key)
      BY <1>1, BeginFacts
    <2> QED
      BY <2>1, <2>2, <1>a DEF RowsMakeSense, KeyOf, Asks
  <1>2. ASSUME NEW t \in Threads, PlaceBan(t)
        PROVE  RowsMakeSense'
    <2>1. row[KeyOf(t)].present
      BY <1>2, BanRowFacts, <1>a DEF KeyOf, Asks
    <2>2. \A k \in Keys : row'[k].present = row[k].present
                          /\ (k # KeyOf(t) => row'[k] = row[k])
      BY <1>2, BanRowFacts
    <2>3. \A u \in Threads : thread'[u].phase # "idle" =>
             thread'[u].phase = thread[u].phase /\ thread'[u].req = thread[u].req
      BY <1>2, PlaceBanFacts, IdleFacts
    <2> QED
      BY <2>1, <2>2, <2>3, <1>a, <1>b DEF RowsMakeSense, KeyOf, Asks
  <1>3. ASSUME NEW t \in Threads, Walks(t)
        PROVE  RowsMakeSense'
    BY <1>3, <1>a, WalkFacts, IdleFacts DEF RowsMakeSense, KeyOf, Asks
  <1>4. ASSUME NEW t \in Threads, WriteRow(t)
        PROVE  RowsMakeSense'
    <2>1. \A k \in Keys : (row[k].present => row'[k].present) /\ (~ row'[k].present => row'[k] = row[k])
      BY <1>4, WriteFacts
    <2>2. \A u \in Threads : thread'[u].phase # "idle" => thread'[u] = thread[u]
      BY <1>4, WriteFacts, IdleFacts
    <2> QED
      BY <2>1, <2>2, <1>a, <1>b DEF RowsMakeSense, KeyOf, Asks
  <1>5. ASSUME NEW ks \in SUBSET Keys, ClearBan(ks)
        PROVE  RowsMakeSense'
    <2>1. \A k \in Keys : (row[k].present => row'[k].present) /\ (~ row'[k].present => row'[k] = row[k])
      BY <1>5, ClearFacts
    <2>2. thread' = thread
      BY <1>5 DEF ClearBan
    <2> QED
      BY <2>1, <2>2, <1>a, <1>b DEF RowsMakeSense, KeyOf, Asks
  <1>6. CASE Tick
    <2>1. \A k \in Keys : row'[k].present = row[k].present
      BY <1>6, TickRowFacts
    <2>2. ASSUME NEW k \in Keys, ~ row[k].present
          PROVE  row'[k] = NoRow
      <3>1. row[k] = NoRow
        BY <1>a, <2>2
      <3>2. row[k].ban = 0 /\ row[k].age = Window /\ row[k].count = 0
        BY <3>1 DEF NoRow
      <3>3. row'[k].ban = 0 /\ row'[k].age = Window /\ row'[k].count = 0 /\ ~ row'[k].present
        BY <1>6, <2>2, <3>2, TickRowFacts, LimitAssumption DEF Earlier
      <3>4. row'[k] \in Row
        BY <1>6, TickRowFacts
      <3> QED
        BY <3>3, <3>4 DEF Row, NoRow
    <2>3. \A u \in Threads : thread'[u].phase = thread[u].phase /\ thread'[u].req = thread[u].req
      BY <1>6, TickFacts
    <2> QED
      BY <2>1, <2>2, <2>3, <1>a, <1>b DEF RowsMakeSense, KeyOf, Asks
  <1> QED
    BY <1>0, <1>1, <1>2, <1>3, <1>4, <1>5, <1>6, Steps DEF RowsMakeSense, KeyOf, Asks

\* that a thread counts its own mail,
LEMMA OwnStep ==
  ASSUME TypeOK, RowsMakeSense, CountsAreOwn, [Next]_vars
  PROVE  CountsAreOwn'
  <1> USE DEF At
  <1> DEFINE Own(j) == /\ j.phase # "idle" => j.req \in Requests
                       /\ j.todo # {} => j.phase = "counting" /\ j.todo \subseteq Upserts(j.req)
  <1>a. \A t \in Threads : Own(thread[t])
    BY DEF CountsAreOwn, Asks
  <1>b. (\A t \in Threads : Own(thread'[t])) => CountsAreOwn'
    BY DEF CountsAreOwn, Asks, Upserts, ScopeOf
  <1>c. Own(Idle)
    BY IdleFacts
  <1>0. CASE UNCHANGED vars
    BY <1>0, <1>a, <1>b DEF vars
  <1>1. ASSUME NEW t \in Threads, NEW r \in Requests, Begins(t, r)
        PROVE  CountsAreOwn'
    BY <1>1, <1>a, <1>b, BeginFacts
  <1>2. ASSUME NEW t \in Threads, PlaceBan(t)
        PROVE  CountsAreOwn'
    BY <1>2, <1>a, <1>b, <1>c, PlaceBanFacts
  <1>3. ASSUME NEW t \in Threads, Walks(t)
        PROVE  CountsAreOwn'
    <2>1. Own(thread'[t])
      BY <1>3, <1>a, <1>c, WalkFacts DEF Asks
    <2> QED
      BY <2>1, <1>3, <1>a, <1>b, WalkFacts
  <1>4. ASSUME NEW t \in Threads, WriteRow(t)
        PROVE  CountsAreOwn'
    BY <1>4, <1>a, <1>b, <1>c, WriteFacts
  <1>5. ASSUME NEW ks \in SUBSET Keys, ClearBan(ks)
        PROVE  CountsAreOwn'
    BY <1>5, <1>a, <1>b DEF ClearBan
  <1>6. CASE Tick
    <2>1. \A t \in Threads : StillCurrent(thread[t].todo) \subseteq thread[t].todo
      BY DEF StillCurrent
    <2>2. \A t \in Threads : Own(thread'[t])
      BY <1>6, <2>1, <1>a, TickFacts
    <2> QED
      BY <2>2, <1>b
  <1> QED
    BY <1>0, <1>1, <1>2, <1>3, <1>4, <1>5, <1>6, Steps

\* Who is in flight, and stays so.
LEMMA FlightFacts ==
  ASSUME NEW t \in Threads,
         \A u \in Threads \ {t} : thread'[u].phase = thread[u].phase /\ thread'[u].req = thread[u].req,
         \/ thread'[t].phase \in {"idle", "banning"}
         \/ thread'[t].req = thread[t].req /\ thread[t].phase \notin {"idle", "banning"},
         NEW k \in Keys
  PROVE  InFlight(k)' \subseteq InFlight(k)
  BY DEF InFlight, At, KeyOf, Asks

\* and that a ban marks whom it overtakes.
LEMMA StaleStep ==
  ASSUME TypeOK, RowsMakeSense, CountsAreOwn, OvertakenAreStale, [Next]_vars
  PROVE  OvertakenAreStale'
  <1> SUFFICES ASSUME NEW k \in Keys, row'[k].ban > 0, NEW u \in Threads, u \in InFlight(k)'
               PROVE  thread'[u].stale
    BY DEF OvertakenAreStale, Banned, InFlight
  <1>a. row[k].ban > 0 /\ u \in InFlight(k) => thread[u].stale
    BY DEF OvertakenAreStale, Banned
  <1>b. thread'[u].phase \notin {"idle", "banning"} /\ thread'[u].req.kind = "push" /\ thread'[u].req.key = k
    BY DEF InFlight, At, KeyOf, Asks
  <1>0. CASE UNCHANGED vars
    BY <1>0, <1>a DEF vars, InFlight, At, KeyOf, Asks
  <1>1. ASSUME NEW t \in Threads, NEW r \in Requests, Begins(t, r)
        PROVE  thread'[u].stale
    <2>1. row' = row
      BY <1>1, BeginFacts
    <2>2. u # t
      BY <1>1, <1>b, <2>1, BeginFacts DEF Banned
    <2>3. thread'[u] = thread[u]
      BY <1>1, <2>2, BeginFacts
    <2> QED
      BY <2>1, <2>3, <1>a, <1>b DEF InFlight, At, KeyOf, Asks
  <1>2. ASSUME NEW t \in Threads, PlaceBan(t)
        PROVE  thread'[u].stale
    <2>1. u # t
      BY <1>2, <1>b, PlaceBanFacts, IdleFacts
    <2>2. thread'[u].phase = thread[u].phase /\ thread'[u].req = thread[u].req
          /\ thread'[u].stale = IF u \in InFlight(KeyOf(t)) THEN TRUE ELSE thread[u].stale
      BY <1>2, <2>1, PlaceBanFacts
    <2>3. u \in InFlight(k)
      BY <2>2, <1>b DEF InFlight, At, KeyOf, Asks
    <2>4. CASE k = KeyOf(t)
      BY <2>2, <2>3, <2>4
    <2>5. CASE k # KeyOf(t)
      <3>1. row'[k] = row[k]
        BY <1>2, <2>5, BanRowFacts
      <3>2. thread[u].stale
        BY <3>1, <2>3, <1>a
      <3> QED
        BY <2>2, <3>2
    <2> QED
      BY <2>4, <2>5
  <1>3. ASSUME NEW t \in Threads, Walks(t)
        PROVE  thread'[u].stale
    <2>1. row' = row
      BY <1>3, WalkFacts
    <2>2. thread'[u].req = thread[u].req /\ thread'[u].stale = thread[u].stale
          /\ thread[u].phase \notin {"idle", "banning"}
      BY <1>3, <1>b, WalkFacts, IdleFacts
    <2> QED
      BY <2>1, <2>2, <1>a, <1>b DEF InFlight, At, KeyOf, Asks
  <1>4. ASSUME NEW t \in Threads, WriteRow(t)
        PROVE  thread'[u].stale
    <2>1. thread'[u] = thread[u]
      BY <1>4, <1>b, WriteFacts, IdleFacts
    <2>2. row'[k].ban = row[k].ban
      BY <1>4, WriteFacts
    <2> QED
      BY <2>1, <2>2, <1>a, <1>b DEF InFlight, At, KeyOf, Asks
  <1>5. ASSUME NEW ks \in SUBSET Keys, ClearBan(ks)
        PROVE  thread'[u].stale
    <2>1. row'[k] = row[k]
      BY <1>5, ClearFacts
    <2>2. thread' = thread
      BY <1>5 DEF ClearBan
    <2> QED
      BY <2>1, <2>2, <1>a, <1>b DEF InFlight, At, KeyOf, Asks
  <1>6. CASE Tick
    <2>1. row[k].ban > 0
      <3>1. row[k].ban \in 0 .. Ban /\ row'[k].ban = Earlier(row[k].ban)
        BY <1>6, TickRowFacts DEF TypeOK, Row
      <3> QED
        BY <3>1, LimitAssumption DEF Earlier
    <2>2. thread'[u].phase = thread[u].phase /\ thread'[u].req = thread[u].req
          /\ thread'[u].stale = thread[u].stale
      BY <1>6, TickFacts
    <2> QED
      BY <2>1, <2>2, <1>a, <1>b DEF InFlight, At, KeyOf, Asks
  <1> QED
    BY <1>0, <1>1, <1>2, <1>3, <1>4, <1>5, <1>6, Steps

-----------------------------------------------------------------------------
(* The pushes of a window *)

\* What a key has counted and what will be counted on top of it.
Load(k) == IF InWindow(k) THEN InFlight(k) ELSE Incrementing(k)
Within(k) == row[k].count + Cardinality(Load(k)) <= Overshoot

\* The bound, key by key.
LEMMA BoundIsLocal == WindowBound <=> \A k \in Keys : Within(k)
  BY DEF WindowBound, Within, Load

\* Sets of threads are finite, and count up to all of them.
LEMMA ThreadSets ==
  ASSUME NEW S \in SUBSET Threads
  PROVE  /\ IsFiniteSet(S) /\ Cardinality(S) \in Nat /\ Cardinality(Threads) \in Nat
         /\ Cardinality(S) <= Cardinality(Threads)
         /\ \A T \in SUBSET S : Cardinality(T) \in Nat /\ Cardinality(T) <= Cardinality(S)
         /\ \A t \in S : Cardinality(S \ {t}) = Cardinality(S) - 1
         /\ \A t \in Threads \ S : Cardinality(S) <= Cardinality(Threads) - 1
  <1>1. IsFiniteSet(Threads)
    BY LimitAssumption
  <1>2. IsFiniteSet(S)
    BY <1>1, FS_Subset
  <1>3. /\ Cardinality(S) \in Nat /\ Cardinality(Threads) \in Nat
        /\ Cardinality(S) <= Cardinality(Threads)
    BY <1>1, <1>2, FS_CardinalityType, FS_Subset
  <1>4. \A T \in SUBSET S : Cardinality(T) \in Nat /\ Cardinality(T) <= Cardinality(S)
    BY <1>2, FS_CardinalityType, FS_Subset
  <1>5. \A t \in S : Cardinality(S \ {t}) = Cardinality(S) - 1
    BY <1>2, FS_RemoveElement
  <1>6. ASSUME NEW t \in Threads \ S
        PROVE  Cardinality(S) <= Cardinality(Threads) - 1
    <2>1. S \subseteq Threads \ {t}
      BY <1>6
    <2>2. IsFiniteSet(Threads \ {t}) /\ Cardinality(Threads \ {t}) = Cardinality(Threads) - 1
      BY <1>1, FS_RemoveElement
    <2> QED
      BY <2>1, <2>2, FS_Subset
  <1> QED
    BY <1>2, <1>3, <1>4, <1>5, <1>6

\* Who is on the way to a counter.
LEMMA LoadFacts ==
  ASSUME NEW k
  PROVE  /\ InFlight(k) \in SUBSET Threads /\ Incrementing(k) \subseteq InFlight(k)
         /\ Load(k) \in SUBSET Threads
  BY DEF InFlight, Incrementing, Load

\* The same after a step.
LEMMA LoadFactsNext ==
  ASSUME NEW k
  PROVE  /\ InFlight(k)' \in SUBSET Threads /\ Incrementing(k)' \subseteq InFlight(k)'
         /\ Load(k)' \in SUBSET Threads
  BY DEF InFlight, Incrementing, Load

\* A step that counts nothing, lets nobody in and leaves windows closed.
LEMMA Lighter ==
  ASSUME TypeOK, NEW k \in Keys, Within(k),
         row'[k].count = row[k].count, InWindow(k)' => InWindow(k),
         InFlight(k)' \subseteq InFlight(k), Incrementing(k)' \subseteq Incrementing(k)
  PROVE  Within(k)'
  <1>1. Load(k)' \subseteq Load(k)
    BY LoadFactsNext, LoadFacts DEF Load
  <1>2. Cardinality(Load(k)') <= Cardinality(Load(k)) /\ Cardinality(Load(k)) \in Nat
        /\ Cardinality(Load(k)') \in Nat
    BY <1>1, LoadFacts, ThreadSets
  <1>3. row[k].count \in Nat /\ Overshoot \in Int
    BY LimitAssumption, ThreadSets DEF TypeOK, Row, Overshoot
  <1>4. Within(k)' <=> row'[k].count + Cardinality(Load(k)') <= Overshoot
    BY DEF Within, Overshoot
  <1> QED
    BY <1>2, <1>3, <1>4 DEF Within

\* A count below the limit leaves room for every thread.
LEMMA Roomy ==
  ASSUME NEW k \in Keys, row'[k].count \in Nat, row'[k].count <= MaxPerWindow - 1
  PROVE  Within(k)'
  <1>1. Cardinality(Load(k)') \in Nat /\ Cardinality(Load(k)') <= Cardinality(Threads)
        /\ Cardinality(Threads) \in Nat
    BY LoadFactsNext, ThreadSets
  <1>2. Within(k)' <=> row'[k].count + Cardinality(Load(k)') <= Overshoot
    BY DEF Within, Overshoot
  <1> QED
    BY <1>1, <1>2, LimitAssumption DEF Overshoot

\* One thread changes, the others count as before.
LEMMA IncrementingFacts ==
  ASSUME NEW t \in Threads, NEW k \in Keys,
         \A u \in Threads \ {t} : thread'[u].phase = thread[u].phase /\ thread'[u].req = thread[u].req,
         thread'[t].phase # "increment" \/ thread'[t].req.key # k
  PROVE  Incrementing(k)' \subseteq Incrementing(k)
  BY DEF Incrementing, InFlight, At, KeyOf, Asks

\* Every step keeps the bound of the window.
LEMMA WindowStep ==
  ASSUME TypeOK, RowsMakeSense, CountsAreOwn, WindowBound, [Next]_vars
  PROVE  WindowBound'
  <1>s. SUFFICES ASSUME NEW k \in Keys PROVE Within(k)'
    BY DEF WindowBound, Within, Load
  <1>a. Within(k) /\ row[k] \in Row
    BY BoundIsLocal DEF TypeOK
  <1>0. CASE UNCHANGED vars
    <2>1. row' = row /\ InFlight(k)' = InFlight(k) /\ Incrementing(k)' = Incrementing(k)
      BY <1>0 DEF vars, InFlight, Incrementing, At, KeyOf, Asks
    <2> QED
      BY <2>1, <1>a, Lighter DEF InWindow
  <1>1. ASSUME NEW t \in Threads, NEW r \in Requests, Begins(t, r)
        PROVE  Within(k)'
    <2>1. /\ row' = row /\ \A u \in Threads \ {t} : thread'[u] = thread[u]
          /\ thread'[t].req = r /\ thread'[t].phase \in {"banning", "limits", "posting"}
      BY <1>1, BeginFacts
    <2>2. Incrementing(k)' \subseteq Incrementing(k)
      BY <2>1, IncrementingFacts
    <2>3. CASE InFlight(k)' \subseteq InFlight(k)
      BY <2>1, <2>2, <2>3, <1>a, Lighter DEF InWindow
    <2>4. CASE ~ (InFlight(k)' \subseteq InFlight(k))
      <3>1. r.key = k /\ r.kind = "push" /\ thread'[t].phase # "banning"
        BY <2>1, <2>4 DEF InFlight, At, KeyOf, Asks
      <3>2. ~ Exhausted(k)
        BY <3>1, <1>1, BeginFacts
      <3>3. CASE InWindow(k)
        <4>1. row'[k].count \in Nat /\ row'[k].count <= MaxPerWindow - 1
          BY <3>2, <3>3, <2>1, <1>a, LimitAssumption DEF Exhausted, Row
        <4> QED
          BY <4>1, Roomy
      <3>4. CASE ~ InWindow(k)
        <4>1. ~ InWindow(k)' /\ row'[k].count = row[k].count
          BY <3>4, <2>1 DEF InWindow
        <4>2. Load(k)' \subseteq Load(k)
          BY <4>1, <3>4, <2>2 DEF Load
        <4>3. /\ Cardinality(Load(k)') \in Nat /\ Cardinality(Load(k)) \in Nat
              /\ Cardinality(Load(k)') <= Cardinality(Load(k))
          BY <4>2, LoadFacts, ThreadSets
        <4>4. Within(k)' <=> row'[k].count + Cardinality(Load(k)') <= Overshoot
          BY DEF Within, Overshoot
        <4>5. row[k].count \in Nat /\ Overshoot \in Int
          BY <1>a, LimitAssumption, ThreadSets DEF Row, Overshoot
        <4> QED
          BY <4>1, <4>3, <4>4, <4>5, <1>a DEF Within
      <3> QED
        BY <3>3, <3>4
    <2> QED
      BY <2>3, <2>4
  <1>2. ASSUME NEW t \in Threads, PlaceBan(t)
        PROVE  Within(k)'
    <2>1. row'[k].count = row[k].count /\ row'[k].age = row[k].age
      BY <1>2, BanRowFacts
    <2>2. /\ thread'[t].phase = "idle"
          /\ \A u \in Threads \ {t} : thread'[u].phase = thread[u].phase /\ thread'[u].req = thread[u].req
      BY <1>2, PlaceBanFacts, IdleFacts
    <2> QED
      BY <2>1, <2>2, <1>a, Lighter, FlightFacts, IncrementingFacts DEF InWindow
  <1>3. ASSUME NEW t \in Threads, Walks(t)
        PROVE  Within(k)'
    <2>1. /\ row' = row /\ \A u \in Threads \ {t} : thread'[u] = thread[u]
          /\ \/ thread'[t].phase = "idle"
             \/ thread'[t].req = thread[t].req /\ thread[t].phase \notin {"idle", "banning"}
      BY <1>3, WalkFacts, IdleFacts
    <2>2. InFlight(k)' \subseteq InFlight(k)
      BY <2>1, FlightFacts
    <2>3. CASE thread'[t].phase = "increment" /\ thread'[t].req.key = k
      <3>1. InWindow(k) /\ InWindow(k)'
        BY <1>3, <2>1, <2>3, WalkFacts, IdleFacts DEF InWindow, KeyOf, Asks
      <3>2. Load(k)' \subseteq Load(k)
        BY <3>1, <2>2 DEF Load
      <3>3. /\ Cardinality(Load(k)') \in Nat /\ Cardinality(Load(k)) \in Nat
            /\ Cardinality(Load(k)') <= Cardinality(Load(k))
        BY <3>2, LoadFacts, ThreadSets
      <3>4. Within(k)' <=> row'[k].count + Cardinality(Load(k)') <= Overshoot
        BY DEF Within, Overshoot
      <3>5. row[k].count \in Nat /\ Overshoot \in Int
        BY <1>a, LimitAssumption, ThreadSets DEF Row, Overshoot
      <3> QED
        BY <2>1, <3>3, <3>4, <3>5, <1>a DEF Within
    <2>4. CASE ~ (thread'[t].phase = "increment" /\ thread'[t].req.key = k)
      BY <2>1, <2>2, <2>4, <1>a, Lighter, IncrementingFacts DEF InWindow
    <2> QED
      BY <2>3, <2>4
  <1>4. ASSUME NEW t \in Threads, WriteRow(t)
        PROVE  Within(k)'
    <2>1. /\ thread'[t].phase = "idle" /\ \A u \in Threads \ {t} : thread'[u] = thread[u]
          /\ Asks(t).kind = "push" /\ thread[t].phase \in {"insert", "reset", "increment"}
          /\ row'[k] \in Row
      BY <1>4, WriteFacts, IdleFacts
    <2>2. InFlight(k)' \subseteq InFlight(k) /\ Incrementing(k)' \subseteq Incrementing(k)
      BY <2>1, FlightFacts, IncrementingFacts
    <2>3. CASE row'[k] = row[k]
      BY <2>2, <2>3, <1>a, Lighter DEF InWindow
    <2>4. CASE row'[k].count = 1 /\ KeyOf(t) = k
      <3>1. t \notin Load(k)'
        BY <2>1 DEF Load, Incrementing, InFlight, At
      <3>2. /\ Cardinality(Load(k)') \in Nat /\ Cardinality(Threads) \in Nat
            /\ Cardinality(Load(k)') <= Cardinality(Threads) - 1
        BY <3>1, LoadFactsNext, ThreadSets
      <3>3. Within(k)' <=> row'[k].count + Cardinality(Load(k)') <= Overshoot
        BY DEF Within, Overshoot
      <3> QED
        BY <2>4, <3>2, <3>3, LimitAssumption DEF Overshoot
    <2>5. CASE /\ KeyOf(t) = k /\ thread[t].phase = "increment"
               /\ row'[k].count = row[k].count + 1 /\ row'[k].age = row[k].age
      <3>1. t \in InFlight(k) /\ t \in Incrementing(k)
        BY <2>1, <2>5 DEF Incrementing, InFlight, At
      <3>2. t \notin InFlight(k)' /\ t \notin Incrementing(k)'
        BY <2>1 DEF Incrementing, InFlight, At
      <3>3. t \in Load(k) /\ Load(k)' \subseteq Load(k) \ {t}
        BY <2>2, <2>5, <3>1, <3>2 DEF Load, InWindow
      <3>4. /\ Cardinality(Load(k)') \in Nat /\ Cardinality(Load(k)) \in Nat
            /\ Cardinality(Load(k)') <= Cardinality(Load(k)) - 1
        <4>1. Load(k) \in SUBSET Threads /\ Load(k) \ {t} \in SUBSET Threads
          BY LoadFacts
        <4>2. Cardinality(Load(k) \ {t}) = Cardinality(Load(k)) - 1 /\ Cardinality(Load(k)) \in Nat
          BY <3>3, <4>1, ThreadSets
        <4>3. Cardinality(Load(k)') \in Nat /\ Cardinality(Load(k)') <= Cardinality(Load(k) \ {t})
          BY <3>3, <4>1, ThreadSets
        <4> QED
          BY <4>2, <4>3
      <3>5. Within(k)' <=> row'[k].count + Cardinality(Load(k)') <= Overshoot
        BY DEF Within, Overshoot
      <3>6. row[k].count \in Nat /\ Overshoot \in Int
        BY <1>a, LimitAssumption, ThreadSets DEF Row, Overshoot
      <3> QED
        BY <2>5, <3>4, <3>5, <3>6, <1>a DEF Within
    <2> QED
      BY <2>3, <2>4, <2>5, <1>4, WriteFacts
  <1>5. ASSUME NEW ks \in SUBSET Keys, ClearBan(ks)
        PROVE  Within(k)'
    <2>1. thread' = thread
      BY <1>5 DEF ClearBan
    <2>2. InFlight(k)' = InFlight(k) /\ Incrementing(k)' = Incrementing(k)
      BY <2>1 DEF Incrementing, InFlight, At, KeyOf, Asks
    <2>3. CASE row'[k] = row[k]
      BY <2>2, <2>3, <1>a, Lighter DEF InWindow
    <2>4. CASE row'[k].count = 0
      BY <2>4, Roomy, LimitAssumption
    <2> QED
      BY <2>3, <2>4, <1>5, ClearFacts
  <1>6. CASE Tick
    <2>1. \A u \in Threads : thread'[u].phase = thread[u].phase /\ thread'[u].req = thread[u].req
      BY <1>6, TickFacts
    <2>2. InFlight(k)' = InFlight(k) /\ Incrementing(k)' = Incrementing(k)
      BY <2>1 DEF Incrementing, InFlight, At, KeyOf, Asks
    <2>3. row'[k].count = row[k].count
      BY <1>6, TickRowFacts
    <2>4. InWindow(k)' => InWindow(k)
      <3>1. /\ row[k].age \in 0 .. Window
            /\ row'[k].age = IF row[k].age < Window THEN row[k].age + 1 ELSE row[k].age
        BY <1>a, <1>6, TickRowFacts DEF Row
      <3> QED
        BY <3>1, LimitAssumption DEF InWindow
    <2> QED
      BY <2>2, <2>3, <2>4, <1>a, Lighter
  <1> QED
    BY <1>0, <1>1, <1>2, <1>3, <1>4, <1>5, <1>6, Steps

-----------------------------------------------------------------------------
(* The mails of a bucket *)

\* What a thread has reserved, as a matter of its job alone.
Meant(r, s) == r.mail /\ Counted(r) /\ ScopeOf(r, s[1]) = s
Holds(j, s, u) ==
    \/ j.phase = "limits" /\ Meant(j.req, s) /\ s[1] = "customer" /\ j.layer = 3
    \/ j.phase = "posting" /\ Meant(j.req, s)
    \/ \E w \in j.todo : w[2] = s /\ w[3] = u

\* Who holds a place in a counter of mails.
LEMMA ReservedIs ==
  ASSUME NEW s, NEW u
  PROVE  /\ Reserved(s, u) = {t \in Threads : Holds(thread[t], s, u)}
         /\ Reserved(s, u)' = {t \in Threads : Holds(thread'[t], s, u)}
  BY DEF Reserved, Holds, Meant, Concerns, Counted, At, Asks, ScopeOf

\* A scope with a limit is a scope.
LEMMA ScopeFacts ==
  ASSUME NEW s \in LimitedScopes
  PROVE  /\ s \in Scopes
         /\ \/ s[1] = "customer" /\ s[2] \in Customers /\ s = <<"customer", s[2]>>
            \/ s[1] = "global" /\ s = <<"global", Nobody>>
  BY DEF LimitedScopes, Scopes

\* A limit is positive.
LEMMA BoundFacts ==
  ASSUME NEW s \in LimitedScopes, NEW u \in Units
  PROVE  BoundOf(s)[u] \in Nat \ {0}
  <1>1. /\ CustomerSetting \in [Units -> Nat] /\ CustomerDefault \in [Units -> Nat \ {0}]
        /\ GlobalSetting \in [Units -> Nat] /\ GlobalDefault \in [Units -> Nat \ {0}]
    BY SettingAssumption
  <1>2. /\ Or(CustomerSetting, CustomerDefault)[u] \in Nat \ {0}
        /\ Or(GlobalSetting, GlobalDefault)[u] \in Nat \ {0}
    BY <1>1 DEF Or
  <1> QED
    BY <1>2 DEF BoundOf

\* A statement of record() tells its layer, and there is one for each scope and unit.
LEMMA UpsertFacts ==
  ASSUME NEW r \in Requests, NEW w \in Upserts(r)
  PROVE  \E i \in 1..3 : /\ w[2] = ScopeOf(r, Layers[i]) /\ w[2][1] = Layers[i]
                         /\ w[3] \in Units
                         /\ w = <<2 * i + (IF w[3] = "day" THEN 1 ELSE 0), w[2], w[3]>>
  <1>1. PICK i \in 1..3, u \in Units :
           w = <<2 * i + (IF u = "day" THEN 1 ELSE 0), ScopeOf(r, Layers[i]), u>>
    BY LayerFacts DEF Upserts
  <1>2. ScopeOf(r, Layers[i])[1] = Layers[i]
    <2>1. i = 1 \/ i = 2 \/ i = 3
      OBVIOUS
    <2> QED
      BY <2>1, LayerFacts DEF ScopeOf
  <1>3. w[2] = ScopeOf(r, Layers[i]) /\ w[3] = u
    BY <1>1
  <1> QED
    BY <1>1, <1>2, <1>3

\* A counter of a mail belongs to the scope of its request,
LEMMA UpsertScope ==
  ASSUME NEW r \in Requests, NEW w \in Upserts(r)
  PROVE  ScopeOf(r, w[2][1]) = w[2]
  BY UpsertFacts

\* and is raised once.
LEMMA UpsertOnce ==
  ASSUME NEW r \in Requests, NEW w \in Upserts(r), NEW v \in Upserts(r), w[2] = v[2], w[3] = v[3]
  PROVE  w = v
  <1>1. PICK i \in 1..3 : /\ w[2][1] = Layers[i]
                          /\ w = <<2 * i + (IF w[3] = "day" THEN 1 ELSE 0), w[2], w[3]>>
    BY UpsertFacts
  <1>2. PICK k \in 1..3 : /\ v[2][1] = Layers[k]
                          /\ v = <<2 * k + (IF v[3] = "day" THEN 1 ELSE 0), v[2], v[3]>>
    BY UpsertFacts
  <1>3. Layers[i] = Layers[k]
    BY <1>1, <1>2
  <1>4. i = k
    BY <1>3, LayerFacts
  <1> QED
    BY <1>1, <1>2, <1>4

Kept(s, u) ==
    counter[s][u] + Cardinality(Reserved(s, u)) <= BoundOf(s)[u] + Cardinality(Threads) - 1

\* A counter keeps its bound after a step.
LEMMA KeptNext ==
  ASSUME NEW s, NEW u
  PROVE  Kept(s, u)' <=>
            counter'[s][u] + Cardinality(Reserved(s, u)') <= BoundOf(s)[u] + Cardinality(Threads) - 1
  BY DEF Kept, BoundOf, Or

\* Those who hold a place are threads.
LEMMA ReservedSets ==
  ASSUME NEW s, NEW u
  PROVE  Reserved(s, u) \in SUBSET Threads /\ Reserved(s, u)' \in SUBSET Threads
  BY ReservedIs

\* A step after which no more is counted and reserved.
LEMMA NotMore ==
  ASSUME TypeOK, NEW s \in LimitedScopes, NEW u \in Units, Kept(s, u),
         counter'[s][u] = counter[s][u], Reserved(s, u)' \subseteq Reserved(s, u)
  PROVE  Kept(s, u)'
  <1>1. /\ Cardinality(Reserved(s, u)') \in Nat /\ Cardinality(Reserved(s, u)) \in Nat
        /\ Cardinality(Reserved(s, u)') <= Cardinality(Reserved(s, u))
        /\ Cardinality(Threads) \in Nat
    BY ReservedSets, ThreadSets
  <1>2. counter[s][u] \in Nat /\ BoundOf(s)[u] \in Nat
    BY ScopeFacts, BoundFacts DEF TypeOK
  <1> QED
    BY <1>1, <1>2, KeptNext DEF Kept

\* A counter below its limit leaves room for every thread.
LEMMA RoomForAll ==
  ASSUME NEW s \in LimitedScopes, NEW u \in Units,
         counter'[s][u] \in Nat, counter'[s][u] <= BoundOf(s)[u] - 1
  PROVE  Kept(s, u)'
  <1>1. /\ Cardinality(Reserved(s, u)') \in Nat /\ Cardinality(Threads) \in Nat
        /\ Cardinality(Reserved(s, u)') <= Cardinality(Threads)
    BY ReservedSets, ThreadSets
  <1>2. BoundOf(s)[u] \in Nat
    BY BoundFacts
  <1> QED
    BY <1>1, <1>2, KeptNext

\* Only the thread that steps can reserve more.
LEMMA OthersHold ==
  ASSUME NEW s, NEW u, NEW t \in Threads, \A v \in Threads \ {t} : thread'[v] = thread[v],
         Holds(thread'[t], s, u) => Holds(thread[t], s, u)
  PROVE  Reserved(s, u)' \subseteq Reserved(s, u)
  BY ReservedIs

\* Who does nothing holds no place.
LEMMA IdleHoldsNothing ==
  ASSUME NEW s, NEW u
  PROVE  ~ Holds(Idle, s, u)
  BY IdleFacts DEF Holds

\* A layer that was passed had room, if it is one that counts.
LEMMA PassedHadRoom ==
  ASSUME TypeOK, CountsAreOwn, NEW t \in Threads, PassLayer(t),
         NEW s \in LimitedScopes, NEW u \in Units,
         Meant(Asks(t), s), s[1] = Layers[thread[t].layer]
  PROVE  counter[s][u] <= BoundOf(s)[u] - 1
  <1> DEFINE r == Asks(t)
  <1>1. thread[t].phase = "limits" /\ ~ Denied(t)
    BY DEF PassLayer, At
  <1>2. r \in Requests
    BY <1>1, RequestFacts
  <1>3. counter[s][u] \in Nat /\ BoundOf(s)[u] \in Nat \ {0}
    BY ScopeFacts, BoundFacts DEF TypeOK
  <1>4. ScopeOf(r, s[1]) = s /\ Counted(r)
    BY DEF Meant
  <1>5. Applies(r, s[1]) /\ LimitOf(r, s[1]) = BoundOf(s)
    <2>1. CASE s[1] = "customer"
      <3>1. r.customer = s[2] /\ s[2] \in Customers
        BY <1>4, <2>1, ScopeFacts DEF ScopeOf
      <3>2. r.customer # Nobody
        BY <3>1, RequestAssumption
      <3> QED
        BY <2>1, <3>2 DEF Applies, LimitOf, BoundOf
    <2>2. CASE s[1] = "global"
      <3>1. r.kind # "alert"
        BY <1>2, <1>4, RequestAssumption DEF Counted
      <3> QED
        BY <2>2, <3>1 DEF Applies, LimitOf, BoundOf
    <2> QED
      BY <2>1, <2>2, ScopeFacts
  <1>6. ~ Full(BoundOf(s), s)
    BY <1>1, <1>4, <1>5 DEF Denied
  <1> QED
    BY <1>3, <1>6 DEF Full

\* Every step keeps the bound of the mails.
LEMMA MailsStep ==
  ASSUME TypeOK, RowsMakeSense, CountsAreOwn, MailsAreReserved, [Next]_vars
  PROVE  MailsAreReserved'
  <1>s. SUFFICES ASSUME NEW s \in LimitedScopes, NEW u \in Units PROVE Kept(s, u)'
    BY DEF MailsAreReserved, Kept, LimitedScopes
  <1>a. /\ Kept(s, u) /\ counter[s][u] \in Nat /\ BoundOf(s)[u] \in Nat \ {0} /\ s \in Scopes
        /\ counter \in [Scopes -> [Units -> Nat]]
    BY ScopeFacts, BoundFacts DEF MailsAreReserved, Kept, TypeOK
  <1>b. \A t \in Threads : thread[t].todo # {} =>
            thread[t].phase = "counting" /\ thread[t].todo \subseteq Upserts(thread[t].req)
    BY DEF CountsAreOwn, At, Asks
  <1>0. CASE UNCHANGED vars
    <2>1. counter' = counter /\ Reserved(s, u)' \subseteq Reserved(s, u)
      BY <1>0, ReservedIs DEF vars
    <2> QED
      BY <2>1, <1>a, NotMore
  <1>1. ASSUME NEW t \in Threads, NEW r \in Requests, Begins(t, r)
        PROVE  Kept(s, u)'
    <2>1. ~ Holds(thread'[t], s, u)
      BY <1>1, BeginFacts DEF Holds, Meant
    <2>2. counter' = counter /\ \A v \in Threads \ {t} : thread'[v] = thread[v]
      BY <1>1, BeginFacts
    <2> QED
      BY <2>1, <2>2, <1>a, OthersHold, NotMore
  <1>2. ASSUME NEW t \in Threads, PlaceBan(t)
        PROVE  Kept(s, u)'
    <2>1. counter' = counter
      BY <1>2 DEF PlaceBan
    <2>2. ~ Holds(thread'[t], s, u)
      BY <1>2, PlaceBanFacts, IdleHoldsNothing
    <2>3. ASSUME NEW v \in Threads \ {t}, Holds(thread'[v], s, u)
          PROVE  Holds(thread[v], s, u)
      BY <1>2, <2>3, PlaceBanFacts DEF Holds
    <2>4. Reserved(s, u)' \subseteq Reserved(s, u)
      BY <2>2, <2>3, ReservedIs
    <2> QED
      BY <2>1, <2>4, <1>a, NotMore
  <1>3. ASSUME NEW t \in Threads, PassLayer(t)
        PROVE  Kept(s, u)'
    <2>1. counter' = counter /\ thread[t].phase = "limits"
      BY <1>3 DEF PassLayer, At
    <2>2. thread[t].todo = {}
      BY <2>1, <1>b
    <2>3. CASE Holds(thread'[t], s, u) => Holds(thread[t], s, u)
      BY <2>1, <2>3, <1>a, <1>3, PassFacts, OthersHold, NotMore
    <2>4. CASE Holds(thread'[t], s, u) /\ ~ Holds(thread[t], s, u)
      <3>1. Meant(Asks(t), s)
        BY <1>3, <2>2, <2>4, PassFacts DEF Holds, Asks
      <3>2. s[1] = Layers[thread[t].layer]
        <4>1. CASE thread[t].layer = 3
          <5>1. s[1] # "customer"
            BY <2>1, <2>4, <3>1, <4>1 DEF Holds, Asks
          <5> QED
            BY <4>1, <5>1, ScopeFacts, LayerFacts
        <4>2. CASE thread[t].layer # 3
          <5>1. /\ thread[t].layer \in 1..2 /\ thread'[t].phase = "limits"
                /\ thread'[t].layer = thread[t].layer + 1 /\ thread'[t].todo = {}
            BY <1>3, <2>2, <4>2, PassFacts
          <5>2. s[1] = "customer" /\ thread'[t].layer = 3
            BY <5>1, <2>4 DEF Holds
          <5>3. thread[t].layer = 2
            BY <5>1, <5>2
          <5> QED
            BY <5>2, <5>3, LayerFacts
        <4> QED
          BY <4>1, <4>2
      <3>3. counter[s][u] <= BoundOf(s)[u] - 1
        BY <1>3, <3>1, <3>2, PassedHadRoom
      <3> QED
        BY <2>1, <3>3, <1>a, RoomForAll
    <2> QED
      BY <2>3, <2>4
  <1>4. ASSUME NEW t \in Threads, CountMail(t)
        PROVE  Kept(s, u)'
    <2>1. PICK w \in thread[t].todo :
             /\ w \in Nat \X Scopes \X Units
             /\ thread'[t].todo = thread[t].todo \ {w}
             /\ counter' = [counter EXCEPT ![w[2]][w[3]] = @ + 1]
      BY <1>4, CountMailFacts
    <2>2. /\ thread'[t].phase = "counting" /\ \A v \in Threads \ {t} : thread'[v] = thread[v]
          /\ thread[t].phase = "counting" /\ w[2] \in Scopes /\ w[3] \in Units
      BY <1>4, <2>1, CountMailFacts
    <2>3. Holds(thread'[t], s, u) => Holds(thread[t], s, u)
      BY <2>1, <2>2 DEF Holds
    <2>4. CASE w[2] = s /\ w[3] = u
      <3>1. Asks(t) \in Requests /\ thread[t].todo \subseteq Upserts(Asks(t))
        BY <2>1, <2>2, <1>b, RequestFacts DEF Asks
      <3>2. t \in Reserved(s, u)
        BY <2>1, <2>4, ReservedIs DEF Holds
      <3>3. ~ Holds(thread'[t], s, u)
        BY <2>1, <2>2, <2>4, <3>1, UpsertOnce DEF Holds
      <3>4. Reserved(s, u)' \subseteq Reserved(s, u) \ {t}
        BY <2>2, <3>3, ReservedIs
      <3>5. /\ Cardinality(Reserved(s, u)') \in Nat /\ Cardinality(Reserved(s, u)) \in Nat
            /\ Cardinality(Reserved(s, u)') <= Cardinality(Reserved(s, u)) - 1
            /\ Cardinality(Threads) \in Nat
        <4>1. Reserved(s, u) \in SUBSET Threads /\ Reserved(s, u) \ {t} \in SUBSET Threads
          BY ReservedSets
        <4>2. Cardinality(Reserved(s, u) \ {t}) = Cardinality(Reserved(s, u)) - 1
              /\ Cardinality(Reserved(s, u)) \in Nat /\ Cardinality(Threads) \in Nat
          BY <3>2, <4>1, ThreadSets
        <4>3. /\ Cardinality(Reserved(s, u)') \in Nat
              /\ Cardinality(Reserved(s, u)') <= Cardinality(Reserved(s, u) \ {t})
          BY <3>4, <4>1, ThreadSets
        <4> QED
          BY <4>2, <4>3
      <3>6. counter'[s][u] = counter[s][u] + 1
        BY <2>1, <2>4, <1>a
      <3> QED
        BY <3>5, <3>6, <1>a, KeptNext DEF Kept
    <2>5. CASE ~ (w[2] = s /\ w[3] = u)
      <3>1. counter'[s][u] = counter[s][u]
        BY <2>1, <2>2, <2>5, <1>a
      <3> QED
        BY <2>2, <2>3, <3>1, <1>a, OthersHold, NotMore
    <2> QED
      BY <2>4, <2>5
  <1>5. ASSUME NEW t \in Threads, Walks(t), ~ PassLayer(t), ~ CountMail(t)
        PROVE  Kept(s, u)'
    <2>1. counter' = counter
      BY <1>5 DEF Walks, RefuseMail, Accepted, Rejected, CountingDone, CountingFails, Log,
         LogFails, ReadRow
    <2>2. ~ Holds(thread'[t], s, u) \/ Accepted(t)
      <3>1. CASE thread'[t] = Idle
        BY <3>1, IdleHoldsNothing
      <3>2. CASE RefuseMail(t) \/ Rejected(t) \/ CountingDone(t)
        <4>1. To(t, "logging") /\ thread[t].todo = {}
          BY <3>2, <1>b DEF RefuseMail, Rejected, CountingDone, At
        <4>2. thread'[t].phase = "logging" /\ thread'[t].todo = {}
          BY <4>1, ToFacts DEF Phases
        <4> QED
          BY <4>2 DEF Holds
      <3>3. CASE CountingFails(t)
        BY <3>3, CountingFailsFacts DEF Holds
      <3>4. CASE Log(t)
        <4>1. CASE Ends(t)
          BY <4>1, EndsFacts, IdleHoldsNothing
        <4>2. CASE To(t, "reading")
          <5>1. thread[t].phase = "logging"
            BY <3>4 DEF Log, At
          <5>2. thread'[t].phase = "reading" /\ thread'[t].todo = {}
            BY <5>1, <4>2, <1>b, ToFacts DEF Phases
          <5> QED
            BY <5>2 DEF Holds
        <4> QED
          BY <3>4, <4>1, <4>2 DEF Log
      <3>5. CASE LogFails(t)
        BY <3>5, EndsFacts, IdleHoldsNothing DEF LogFails
      <3>6. CASE ReadRow(t)
        <4>1. PICK next \in {"insert", "increment", "reset"} : To(t, next)
          BY <3>6 DEF ReadRow
        <4>2. thread[t].todo = {}
          BY <3>6, <1>b DEF ReadRow, At
        <4>3. thread'[t].phase = next /\ thread'[t].todo = {}
          BY <4>1, <4>2, ToFacts DEF Phases
        <4> QED
          BY <4>3 DEF Holds
      <3> QED
        BY <1>5, <3>2, <3>3, <3>4, <3>5, <3>6 DEF Walks
    <2>3. CASE Accepted(t)
      <3>1. thread[t].phase = "posting" /\ thread[t].todo = {} /\ Asks(t) \in Requests
        BY <2>3, <1>b, RequestFacts DEF Accepted, At
      <3>2. Holds(thread'[t], s, u) => Holds(thread[t], s, u)
        <4>1. CASE thread'[t].phase = "logging" /\ thread'[t].todo = {}
          BY <4>1 DEF Holds
        <4>2. CASE /\ thread'[t].phase = "counting" /\ thread'[t].todo = Upserts(Asks(t))
                   /\ Asks(t).mail /\ Counted(Asks(t))
          <5> SUFFICES ASSUME NEW w \in Upserts(Asks(t)), w[2] = s
                       PROVE  Holds(thread[t], s, u)
            BY <4>2 DEF Holds
          <5>1. ScopeOf(Asks(t), s[1]) = s
            BY <3>1, UpsertScope
          <5> QED
            BY <5>1, <4>2, <3>1 DEF Holds, Meant, Asks
        <4> QED
          BY <4>1, <4>2, <3>1, <2>3, AcceptedFacts
      <3> QED
        BY <2>1, <2>3, <3>2, <1>a, AcceptedFacts, OthersHold, NotMore
    <2>4. CASE ~ Holds(thread'[t], s, u)
      BY <2>1, <2>4, <1>5, <1>a, WalkFacts, OthersHold, NotMore
    <2> QED
      BY <2>2, <2>3, <2>4
  <1>6. ASSUME NEW t \in Threads, WriteRow(t)
        PROVE  Kept(s, u)'
    <2>1. counter' = counter
      BY <1>6 DEF WriteRow
    <2>2. thread'[t] = Idle /\ \A v \in Threads \ {t} : thread'[v] = thread[v]
      BY <1>6, <1>a, WriteFacts
    <2>3. Reserved(s, u)' \subseteq Reserved(s, u)
      BY <2>2, IdleHoldsNothing, OthersHold
    <2> QED
      BY <2>1, <2>3, <1>a, NotMore
  <1>7. ASSUME NEW ks \in SUBSET Keys, ClearBan(ks)
        PROVE  Kept(s, u)'
    <2>1. counter' = counter /\ thread' = thread
      BY <1>7 DEF ClearBan
    <2>2. Reserved(s, u)' \subseteq Reserved(s, u)
      BY <2>1, ReservedIs
    <2> QED
      BY <2>1, <2>2, <1>a, NotMore
  <1>8. CASE Tick
    <2>1. counter'[s][u] = IF u \in Turned THEN 0 ELSE counter[s][u]
      BY <1>8, <1>a DEF Tick
    <2>2. CASE u \in Turned
      <3>1. counter'[s][u] = 0
        BY <2>1, <2>2
      <3>2. BoundOf(s)[u] \in Nat \ {0}
        BY <1>a, BoundFacts
      <3> QED
        BY <3>1, <3>2, RoomForAll
    <2>3. CASE u \notin Turned
      <3>1. ASSUME NEW t \in Threads, Holds(thread'[t], s, u)
            PROVE  Holds(thread[t], s, u)
        <4>1. /\ thread'[t].phase = thread[t].phase /\ thread'[t].req = thread[t].req
              /\ thread'[t].todo \subseteq thread[t].todo /\ thread'[t].layer = thread[t].layer
          BY <1>8, TickFacts DEF StillCurrent
        <4> QED
          BY <3>1, <4>1 DEF Holds
      <3>2. Reserved(s, u)' \subseteq Reserved(s, u)
        BY <3>1, ReservedIs
      <3> QED
        BY <2>1, <2>3, <3>2, <1>a, NotMore
    <2> QED
      BY <2>2, <2>3
  <1> QED
    BY <1>0, <1>1, <1>2, <1>3, <1>4, <1>5, <1>6, <1>7, <1>8, Steps

-----------------------------------------------------------------------------
(* The theorems *)

\* The first state satisfies the invariant,
LEMMA Initially ==
  ASSUME Init
  PROVE  LInv
  <1>1. /\ row = [k \in Keys |-> NoRow] /\ thread = [t \in Threads |-> Idle]
        /\ counter = [s \in Scopes |-> [u \in Units |-> 0]] /\ clock = 0 /\ faults = 0
    BY DEF Init
  <1>2. NoRow \in Row /\ NoRow.count = 0 /\ NoRow.age = Window
    BY LimitAssumption DEF NoRow, Row
  <1>3. TypeOK
    BY <1>1, <1>2, IdleFacts, LimitAssumption DEF TypeOK
  <1>4. \A t \in Threads : thread[t].phase = "idle" /\ thread[t].todo = {}
    BY <1>1, IdleFacts
  <1>5. RowsMakeSense /\ OvertakenAreStale /\ CountsAreOwn
    <2>1. RowsMakeSense
      BY <1>1, <1>4 DEF RowsMakeSense
    <2>2. OvertakenAreStale
      BY <1>4 DEF OvertakenAreStale, InFlight, At
    <2>3. CountsAreOwn
      BY <1>4 DEF CountsAreOwn, At
    <2> QED
      BY <2>1, <2>2, <2>3
  <1>6. Cardinality({}) = 0 /\ Cardinality(Threads) \in Nat
    BY FS_EmptySet, ThreadSets
  <1>7. WindowBound
    <2> SUFFICES ASSUME NEW k \in Keys PROVE Within(k)
      BY BoundIsLocal
    <2>1. Load(k) = {}
      BY <1>4 DEF Load, InFlight, Incrementing, At
    <2>2. row[k].count = 0
      BY <1>1, <1>2
    <2> QED
      BY <2>1, <2>2, <1>6, LimitAssumption DEF Within, Overshoot
  <1>8. MailsAreReserved
    <2> SUFFICES ASSUME NEW s \in LimitedScopes, NEW u \in Units PROVE Kept(s, u)
      BY DEF MailsAreReserved, Kept
    <2>1. Reserved(s, u) = {}
      BY <1>1, ReservedIs, IdleHoldsNothing
    <2>2. counter[s][u] = 0
      BY <1>1, ScopeFacts
    <2> QED
      BY <2>1, <2>2, <1>6, BoundFacts DEF Kept
  <1> QED
    BY <1>3, <1>5, <1>7, <1>8 DEF LInv

\* and every step keeps it.
LEMMA Inductive ==
  ASSUME LInv, [Next]_vars
  PROVE  LInv'
  BY TypeStep, RowsStep, OwnStep, StaleStep, WindowStep, MailsStep DEF LInv

\* The inductive invariant of both limiters: what threads have been let through and have
\* not counted is reserved in the counts, and a ban marks those it overtakes.
THEOREM Invariance == Spec => []LInv
  BY Initially, Inductive, PTL DEF Spec

\* The tables of both limiters and the threads keep their types.
THEOREM Typing == Spec => []TypeOK
  BY Invariance, PTL DEF LInv

\* check() and record() of the manual limiter are apart, and the pushes of a window exceed
\* its limit by at most one for every other thread.
THEOREM PushesAreBounded == Spec => []WindowBound
  BY Invariance, PTL DEF LInv

\* With places reserved, mails stay within the bound.
LEMMA ReservedGivesBound ==
  ASSUME LInv
  PROVE  MailBound
  <1> SUFFICES ASSUME NEW u \in Units
               PROVE  /\ \A c \in Customers : counter[<<"customer", c>>][u]
                            <= Or(CustomerSetting, CustomerDefault)[u] + (Cardinality(Threads) - 1)
                      /\ counter[<<"global", Nobody>>][u]
                            <= Or(GlobalSetting, GlobalDefault)[u] + (Cardinality(Threads) - 1)
    BY DEF MailBound
  <1>1. ASSUME NEW s \in LimitedScopes
        PROVE  counter[s][u] <= BoundOf(s)[u] + (Cardinality(Threads) - 1)
    <2>1. counter[s][u] + Cardinality(Reserved(s, u)) <= BoundOf(s)[u] + Cardinality(Threads) - 1
      BY DEF LInv, MailsAreReserved
    <2>2. /\ Cardinality(Reserved(s, u)) \in Nat /\ Cardinality(Threads) \in Nat
          /\ counter[s][u] \in Nat /\ BoundOf(s)[u] \in Nat
      BY ReservedSets, ThreadSets, ScopeFacts, BoundFacts DEF LInv, TypeOK
    <2> QED
      BY <2>1, <2>2
  <1>2. ASSUME NEW c \in Customers
        PROVE  <<"customer", c>> \in LimitedScopes
               /\ BoundOf(<<"customer", c>>) = Or(CustomerSetting, CustomerDefault)
    BY DEF LimitedScopes, BoundOf
  <1>3. <<"global", Nobody>> \in LimitedScopes
        /\ BoundOf(<<"global", Nobody>>) = Or(GlobalSetting, GlobalDefault)
    BY DEF LimitedScopes, BoundOf
  <1> QED
    BY <1>1, <1>2, <1>3

\* The limits of EmailNotifier.send are read before the conversation and raised after it;
\* no customer's and no system's bucket passes its limit by more than one mail for every
\* other thread.
THEOREM MailsAreBounded == Spec => []MailBound
  <1>1. LInv => MailBound
    BY ReservedGivesBound
  <1> QED
    BY <1>1, Invariance, PTL

\* The body of BanStands.
LiftsBan(k) ==
    Banned(k) /\ ~ Banned(k)' =>
        \/ row[k].ban = 1 /\ row'[k] = [row[k] EXCEPT !.ban = 0, !.age = row'[k].age]
        \/ row'[k].count = 0
        \/ \E t \in Threads : /\ At(t, "reset") /\ KeyOf(t) = k /\ thread[t].stale
                              /\ At(t, "idle")'

\* A ban ends by its time, by a count of zero, or by a thread that it overtook.
LEMMA BanStep ==
  ASSUME LInv, [Next]_vars, NEW k \in Keys
  PROVE  LiftsBan(k)
  <1> SUFFICES ASSUME row[k].ban > 0, ~ (row'[k].ban > 0)
               PROVE  \/ /\ row[k].ban = 1
                         /\ row'[k] = [row[k] EXCEPT !.ban = 0, !.age = row'[k].age]
                      \/ row'[k].count = 0
                      \/ \E t \in Threads :
                            /\ thread[t].phase = "reset" /\ KeyOf(t) = k /\ thread[t].stale
                            /\ thread'[t].phase = "idle"
    BY DEF LiftsBan, Banned, At
  <1>a. TypeOK /\ RowsMakeSense /\ CountsAreOwn /\ OvertakenAreStale
    BY DEF LInv
  <1>b. row'[k] # row[k]
    OBVIOUS
  <1>0. CASE UNCHANGED vars
    BY <1>0, <1>b DEF vars
  <1>1. ASSUME NEW t \in Threads, NEW r \in Requests, Begins(t, r)
        PROVE  FALSE
    BY <1>1, <1>a, <1>b, BeginFacts
  <1>2. ASSUME NEW t \in Threads, PlaceBan(t)
        PROVE  FALSE
    BY <1>2, <1>a, <1>b, BanRowFacts, LimitAssumption
  <1>3. ASSUME NEW t \in Threads, Walks(t)
        PROVE  FALSE
    BY <1>3, <1>a, <1>b, WalkFacts
  <1>4. ASSUME NEW t \in Threads, WriteRow(t)
        PROVE  thread[t].phase = "reset" /\ KeyOf(t) = k /\ thread[t].stale
               /\ thread'[t].phase = "idle"
    <2>1. KeyOf(t) = k
      BY <1>4, <1>a, <1>b, WriteFacts
    <2>2. row[k].present
      <3>1. ~ row[k].present => row[k] = NoRow
        BY <1>a DEF RowsMakeSense
      <3>2. NoRow.ban = 0
        BY DEF NoRow
      <3> QED
        BY <3>1, <3>2
    <2>3. thread[t].phase = "reset"
      BY <1>4, <1>a, <1>b, <2>1, <2>2, WriteFacts
    <2>4. t \in InFlight(k)
      BY <1>4, <1>a, <2>1, <2>3, WriteFacts DEF InFlight, At
    <2>5. thread[t].stale
      BY <2>4, <1>a DEF OvertakenAreStale, Banned
    <2>6. thread'[t].phase = "idle"
      BY <1>4, <1>a, WriteFacts, IdleFacts
    <2> QED
      BY <2>1, <2>3, <2>5, <2>6
  <1>5. ASSUME NEW ks \in SUBSET Keys, ClearBan(ks)
        PROVE  row'[k].count = 0
    BY <1>5, <1>a, <1>b, ClearFacts
  <1>6. CASE Tick
    <2>1. row[k].ban \in 0 .. Ban /\ row'[k].ban = Earlier(row[k].ban)
      BY <1>6, <1>a, TickRowFacts DEF TypeOK, Row
    <2>2. row[k].ban = 1 /\ row'[k].ban = 0 /\ Earlier(row[k].ban) = 0
      BY <2>1, LimitAssumption DEF Earlier
    <2>3. row'[k] = [row[k] EXCEPT !.ban = Earlier(@), !.age = row'[k].age]
      BY <1>6, <1>a, TickRow
    <2> QED
      BY <2>2, <2>3
  <1> QED
    BY <1>0, <1>1, <1>2, <1>3, <1>4, <1>5, <1>6, Steps

\* A ban ends when its time is over, when an operator clears it, or by the restart of the
\* window that a push let through before the ban makes; nothing else lifts it.
THEOREM BansStand == Spec => BanStands
  <1> DEFINE Stands == \A k \in Keys : LiftsBan(k)
  <1>1. ASSUME LInv, [Next]_vars
        PROVE  [Stands]_vars
    BY <1>1, BanStep
  <1>2. Stands <=> \A k \in Keys :
            Banned(k) /\ ~ Banned(k)' =>
              \/ row[k].ban = 1 /\ row'[k] = [row[k] EXCEPT !.ban = 0, !.age = row'[k].age]
              \/ row'[k].count = 0
              \/ \E t \in Threads :
                    /\ At(t, "reset") /\ KeyOf(t) = k /\ thread[t].stale
                    /\ At(t, "idle")'
    BY DEF LiftsBan
  <1>3. Spec => [][Stands]_vars
    <2> HIDE DEF Stands
    <2> QED
      BY <1>1, Invariance, PTL DEF Spec
  <1> QED
    BY <1>2, <1>3, PTL DEF BanStands

-----------------------------------------------------------------------------
(* The three layers of a mail *)

LayerNames == {"channel", "customer", "global"}

\* A layer has counted what its keys have.
LEMMA MailsAre ==
  ASSUME NEW layer, NEW u, NEW x
  PROVE  x \in Mails(layer, u)
            <=> \E s \in Scopes : s[1] = layer /\ \E n \in 1 .. counter[s][u] : x = <<s, n>>
  BY DEF Mails

\* The mails of a layer after a step.
LEMMA MailsAreNext ==
  ASSUME NEW layer, NEW u, NEW x
  PROVE  x \in Mails(layer, u)'
            <=> \E s \in Scopes : s[1] = layer /\ \E n \in 1 .. counter'[s][u] : x = <<s, n>>
  BY DEF Mails, Scopes

\* Counters that stay give the same mails.
LEMMA SameMails ==
  ASSUME NEW layer, NEW u, \A s \in Scopes : s[1] = layer => counter'[s][u] = counter[s][u]
  PROVE  Mails(layer, u)' = Mails(layer, u)
  BY MailsAre, MailsAreNext

\* Counters at zero give none.
LEMMA NoMails ==
  ASSUME NEW layer, NEW u, \A s \in Scopes : counter'[s][u] = 0
  PROVE  Mails(layer, u)' = {}
  BY MailsAreNext

\* One more is counted under a key.
LEMMA OneMail ==
  ASSUME TypeOK, NEW s \in Scopes, NEW layer, layer = s[1], NEW u \in Units,
         counter' = [counter EXCEPT ![s][u] = @ + 1], IsFiniteSet(Mails(layer, u))
  PROVE  /\ IsFiniteSet(Mails(layer, u)')
         /\ Cardinality(Mails(layer, u)') = Cardinality(Mails(layer, u)) + 1
  <1> DEFINE x == <<s, counter[s][u] + 1>>
  <1>1. counter \in [Scopes -> [Units -> Nat]]
    BY DEF TypeOK
  <1>2. /\ counter'[s][u] = counter[s][u] + 1 /\ counter[s][u] \in Nat
        /\ \A q \in Scopes : q # s => counter'[q][u] = counter[q][u]
    BY <1>1
  <1>3. x \notin Mails(layer, u)
    BY <1>2, MailsAre
  <1>4. ASSUME NEW y \in Mails(layer, u)
        PROVE  y \in Mails(layer, u)'
    <2>1. PICK q \in Scopes : q[1] = layer /\ \E n \in 1 .. counter[q][u] : y = <<q, n>>
      BY MailsAre
    <2>2. PICK n \in 1 .. counter[q][u] : y = <<q, n>>
      BY <2>1
    <2>3. n \in 1 .. counter'[q][u]
      BY <1>2, <2>2
    <2> QED
      BY <2>1, <2>2, <2>3, MailsAreNext
  <1>5. x \in Mails(layer, u)'
    <2>1. counter[s][u] + 1 \in 1 .. counter'[s][u]
      BY <1>2
    <2> QED
      BY <2>1, MailsAreNext
  <1>6. ASSUME NEW y \in Mails(layer, u)'
        PROVE  y \in Mails(layer, u) \cup {x}
    <2>1. PICK q \in Scopes : q[1] = layer /\ \E n \in 1 .. counter'[q][u] : y = <<q, n>>
      BY MailsAreNext
    <2>2. PICK n \in 1 .. counter'[q][u] : y = <<q, n>>
      BY <2>1
    <2>3. n \in 1 .. counter[q][u] \/ (q = s /\ n = counter[s][u] + 1)
      BY <1>2, <2>2
    <2> QED
      BY <2>1, <2>2, <2>3, MailsAre
  <1>7. Mails(layer, u)' = Mails(layer, u) \cup {x}
    BY <1>4, <1>5, <1>6
  <1> HIDE DEF x
  <1> QED
    BY <1>3, <1>7, FS_AddElement

\* The threads that have yet to count a mail in a layer.
LEMMA DueIs ==
  ASSUME NEW layer, NEW u
  PROVE  /\ Due(layer, u)' = {t \in Threads : \E w \in thread'[t].todo : w[2][1] = layer /\ w[3] = u}
         /\ Due(layer, u) \in SUBSET Threads /\ Due(layer, u)' \in SUBSET Threads
         /\ IsFiniteSet(Due(layer, u)) /\ Cardinality(Due(layer, u)) \in Nat
  <1>1. Due(layer, u) \in SUBSET Threads
    BY DEF Due
  <1> QED
    BY <1>1, ThreadSets DEF Due

\* A list of statements has at most one of a layer and unit, and its number tells which.
LEMMA UpsertLayer ==
  ASSUME NEW r \in Requests, NEW w \in Upserts(r), NEW v \in Upserts(r), w[3] = v[3],
         w[2][1] = v[2][1] \/ w[1] = v[1]
  PROVE  w = v
  <1>1. PICK i \in 1..3 : /\ w[2] = ScopeOf(r, Layers[i]) /\ w[2][1] = Layers[i]
                          /\ w = <<2 * i + (IF w[3] = "day" THEN 1 ELSE 0), w[2], w[3]>>
    BY UpsertFacts
  <1>2. PICK k \in 1..3 : /\ v[2] = ScopeOf(r, Layers[k]) /\ v[2][1] = Layers[k]
                          /\ v = <<2 * k + (IF v[3] = "day" THEN 1 ELSE 0), v[2], v[3]>>
    BY UpsertFacts
  <1>3. CASE w[2][1] = v[2][1]
    <2>1. Layers[i] = Layers[k]
      BY <1>1, <1>2, <1>3
    <2>2. i = k
      BY <2>1, LayerFacts
    <2> QED
      BY <1>1, <1>2, <2>2
  <1>4. CASE w[1] = v[1]
    <2> DEFINE d == IF w[3] = "day" THEN 1 ELSE 0
    <2>1. w[1] = 2 * i + d /\ v[1] = 2 * k + d /\ d \in {0, 1}
      BY <1>1, <1>2
    <2> HIDE DEF d
    <2>2. 2 * i + d = 2 * k + d /\ d \in {0, 1}
      BY <1>4, <2>1
    <2>3. i = k
      BY <2>2
    <2> QED
      BY <1>1, <1>2, <2>3
  <1> QED
    BY <1>3, <1>4

\* There is one for each layer and unit, in the order of the layers.
LEMMA UpsertsOfAll ==
  ASSUME NEW r \in Requests, NEW u \in Units
  PROVE  \E a, b, c \in Upserts(r) :
            /\ a[2][1] = "channel" /\ b[2][1] = "customer" /\ c[2][1] = "global"
            /\ a[3] = u /\ b[3] = u /\ c[3] = u /\ a[1] <= b[1] /\ b[1] <= c[1]
  <1> DEFINE d == IF u = "day" THEN 1 ELSE 0
             up(i) == <<2 * i + d, ScopeOf(r, Layers[i]), u>>
  <1>1. \A i \in 1..3 : up(i) \in Upserts(r)
    BY LayerFacts DEF Upserts
  <1>2. /\ up(1)[2][1] = "channel" /\ up(2)[2][1] = "customer" /\ up(3)[2][1] = "global"
        /\ up(1)[3] = u /\ up(2)[3] = u /\ up(3)[3] = u
        /\ up(1)[1] <= up(2)[1] /\ up(2)[1] <= up(3)[1]
    BY LayerFacts DEF ScopeOf
  <1>3. up(1) \in Upserts(r) /\ up(2) \in Upserts(r) /\ up(3) \in Upserts(r)
    BY <1>1
  <1> HIDE DEF up
  <1> QED
    BY <1>2, <1>3

\* A thread that is to count a mail in one layer is to count it in the next ones.
LEMMA DueInOrder ==
  ASSUME CountsAreOwn, TypeOK, LayersInOrder, NEW u \in Units
  PROVE  Due("channel", u) \subseteq Due("customer", u) /\ Due("customer", u) \subseteq Due("global", u)
  <1> SUFFICES ASSUME NEW t \in Threads, NEW w \in thread[t].todo, w[3] = u
               PROVE  /\ w[2][1] = "channel" => t \in Due("customer", u)
                      /\ w[2][1] = "customer" => t \in Due("global", u)
    BY DEF Due
  <1>1. /\ thread[t].phase = "counting" /\ thread[t].todo \subseteq Upserts(Asks(t))
    BY DEF CountsAreOwn, At
  <1>2. Asks(t) \in Requests
    BY <1>1, RequestFacts
  <1>3. PICK r : r = Asks(t)
    OBVIOUS
  <1>4. PICK a, b, c \in Upserts(r) :
            /\ a[2][1] = "channel" /\ b[2][1] = "customer" /\ c[2][1] = "global"
            /\ a[3] = u /\ b[3] = u /\ c[3] = u /\ a[1] <= b[1] /\ b[1] <= c[1]
    BY <1>2, <1>3, UpsertsOfAll
  <1>5. \A v \in Upserts(r) : v[3] = w[3] /\ w[1] <= v[1] => v \in thread[t].todo
    BY <1>3 DEF LayersInOrder
  <1>6. w \in Upserts(r) /\ r \in Requests
    BY <1>1, <1>2, <1>3
  <1>7. ASSUME w[2][1] = "channel" PROVE t \in Due("customer", u)
    <2>1. w = a
      BY <1>4, <1>6, <1>7, UpsertLayer
    <2> QED
      BY <1>4, <1>5, <2>1 DEF Due
  <1>8. ASSUME w[2][1] = "customer" PROVE t \in Due("global", u)
    <2>1. w = b
      BY <1>4, <1>6, <1>8, UpsertLayer
    <2> QED
      BY <1>4, <1>5, <2>1 DEF Due
  <1> QED
    BY <1>7, <1>8

\* Layers count finitely many mails.
LEMMA NameFacts ==
  ASSUME NEW u \in Units, LayersBalance
  PROVE  \A l \in LayerNames : IsFiniteSet(Mails(l, u)) /\ Cardinality(Mails(l, u)) \in Nat
  <1>1. \A l \in LayerNames : IsFiniteSet(Mails(l, u))
    BY LayerFacts DEF LayersBalance, LayerNames
  <1> QED
    BY <1>1, FS_CardinalityType

\* The balance of one unit.
Even(u) ==
    /\ \A l \in LayerNames : IsFiniteSet(Mails(l, u))
    /\ Expected("global", u) <= Expected("customer", u)
    /\ Expected("customer", u) <= Expected("channel", u)
    /\ faults = 0 => Expected("global", u) = Expected("channel", u)

\* The balance, unit by unit.
LEMMA BalanceIsEven == LayersBalance <=> \A u \in Units : Even(u)
  <1>1. \A u : (\A i \in 1 .. Len(Layers) : IsFiniteSet(Mails(Layers[i], u)))
                 <=> \A l \in LayerNames : IsFiniteSet(Mails(l, u))
    BY LayerFacts DEF LayerNames
  <1> QED
    BY <1>1 DEF LayersBalance, Even

\* The same after a step.
LEMMA EvenNext ==
  ASSUME \A u \in Units : Even(u)'
  PROVE  LayersBalance'
  <1>1. (LayersBalance <=> \A u \in Units : Even(u))'
    BY BalanceIsEven, PTL
  <1> QED
    BY <1>1 DEF Units

\* A step that counts nothing and changes no list.
LEMMA QuietLayers ==
  ASSUME LayersInv, counter' = counter, faults' = 0 => faults = 0,
         \A t \in Threads : /\ thread'[t].todo = thread[t].todo
                            /\ thread[t].todo # {} => thread'[t].req = thread[t].req
  PROVE  LayersInv'
  <1>1. LayersInOrder'
    BY DEF LayersInv, LayersInOrder, Upserts, ScopeOf, Asks
  <1>2. ASSUME NEW u \in Units PROVE Even(u)'
    <2>1. \A l : Mails(l, u)' = Mails(l, u)
      BY SameMails
    <2>2. \A l : Due(l, u)' = Due(l, u)
      BY DueIs DEF Due
    <2>3. \A l : Expected(l, u)' = Expected(l, u)
      BY <2>1, <2>2 DEF Expected
    <2>4. Even(u)
      BY BalanceIsEven DEF LayersInv
    <2> QED
      BY <2>1, <2>3, <2>4 DEF Even
  <1> QED
    BY <1>1, <1>2, EvenNext DEF LayersInv

\* A mail is accepted: all layers are to count it.
LEMMA AcceptedLayers ==
  ASSUME TypeOK, CountsAreOwn, LayersInv, NEW t \in Threads, Accepted(t)
  PROVE  LayersInv'
  <1>1. /\ counter' = counter /\ faults' = faults /\ thread[t].phase = "posting"
        /\ thread[t].todo = {}
    BY DEF Accepted, At, CountsAreOwn
  <1>2. CASE thread'[t].todo = thread[t].todo
    BY <1>1, <1>2, AcceptedFacts, QuietLayers
  <1>3. CASE thread'[t].todo = Upserts(Asks(t))
    <2>0. PICK r \in Requests : r = Asks(t)
      BY <1>1, RequestFacts
    <2>1. /\ thread'[t].todo = Upserts(r)
          /\ \A q \in Threads \ {t} : thread'[q] = thread[q]
          /\ thread'[t].req = r
      BY <1>3, <2>0, AcceptedFacts DEF Asks
    <2>2. LayersInOrder'
      <3>1. ASSUME NEW q \in Threads, NEW w \in thread'[q].todo, NEW v \in Upserts(thread'[q].req),
                   v[3] = w[3], w[1] <= v[1]
            PROVE  v \in thread'[q].todo
        <4>1. CASE q = t
          <5>0. thread'[q] = thread'[t]
            BY <4>1
          <5>1. thread'[q].req = r
            BY <2>1, <5>0
          <5>2. thread'[q].todo = Upserts(r)
            BY <2>1, <5>0
          <5>3. v \in Upserts(r)
            BY <5>1
          <5> QED
            BY <5>2, <5>3
        <4>2. CASE q # t
          BY <2>1, <3>1, <4>2 DEF LayersInv, LayersInOrder, Asks
        <4> QED
          BY <4>1, <4>2
      <3> QED
        BY <3>1 DEF LayersInOrder, Asks, Upserts, ScopeOf
    <2>3. ASSUME NEW u \in Units PROVE Even(u)'
      <3>1. \A l : Mails(l, u)' = Mails(l, u)
        BY <1>1, SameMails
      <3>2. \A l \in LayerNames : \E w \in Upserts(r) : w[2][1] = l /\ w[3] = u
        BY UpsertsOfAll DEF LayerNames
      <3>3. \A l \in LayerNames : t \notin Due(l, u) /\ Due(l, u)' = Due(l, u) \cup {t}
        BY <1>1, <2>1, <3>2, DueIs DEF Due
      <3>4. \A l \in LayerNames : Cardinality(Due(l, u)') = Cardinality(Due(l, u)) + 1
        BY <3>3, DueIs, FS_AddElement
      <3>5. \A l \in LayerNames : /\ Expected(l, u) \in Nat
                                  /\ Expected(l, u)' = Expected(l, u) + 1
        BY <3>1, <3>4, NameFacts, DueIs DEF Expected, LayersInv
      <3>6. Even(u)
        BY BalanceIsEven DEF LayersInv
      <3> QED
        BY <1>1, <3>1, <3>5, <3>6 DEF Even, LayerNames
    <2> QED
      BY <2>2, <2>3, EvenNext DEF LayersInv
  <1> QED
    BY <1>2, <1>3, AcceptedFacts

\* A statement is executed: what its layer has to count is counted.
LEMMA CountMailLayers ==
  ASSUME TypeOK, CountsAreOwn, LayersInv, NEW t \in Threads, CountMail(t)
  PROVE  LayersInv'
  <1>1. PICK w \in thread[t].todo :
             /\ w \in Nat \X Scopes \X Units /\ \A v \in thread[t].todo : w[1] <= v[1]
             /\ thread'[t].todo = thread[t].todo \ {w}
             /\ counter' = [counter EXCEPT ![w[2]][w[3]] = @ + 1]
    BY CountMailFacts
  <1>2. /\ \A q \in Threads \ {t} : thread'[q] = thread[q]
        /\ thread'[t].req = thread[t].req /\ thread[t].phase = "counting" /\ faults' = faults
    BY CountMailFacts DEF CountMail
  <1>3. PICK r \in Requests : r = Asks(t)
    BY <1>2, RequestFacts
  <1>4. thread[t].todo \subseteq Upserts(r)
    BY <1>3 DEF CountsAreOwn
  <1>5. PICK s \in Scopes, u \in Units, n \in Nat : w = <<n, s, u>>
    BY <1>1
  <1>6. w[1] = n /\ w[2] = s /\ w[3] = u /\ counter' = [counter EXCEPT ![s][u] = @ + 1]
    BY <1>1, <1>5
  <1>7. PICK layer \in LayerNames : layer = s[1]
    BY <1>6 DEF Scopes, LayerNames
  <1>8. \A v \in thread[t].todo : v[3] = u /\ (v[2][1] = layer \/ v[1] = w[1]) => v = w
    BY <1>3, <1>4, <1>6, <1>7, UpsertLayer
  <1>9. LayersInOrder'
    <2>1. ASSUME NEW q \in Threads, NEW x \in thread'[q].todo, NEW v \in Upserts(thread'[q].req),
                 v[3] = x[3], x[1] <= v[1]
          PROVE  v \in thread'[q].todo
      <3>1. CASE q = t
        <4>1. x \in thread[t].todo /\ x # w /\ v \in Upserts(r)
          BY <1>1, <1>2, <1>3, <2>1, <3>1 DEF Asks
        <4>2. v \in thread[t].todo
          BY <1>3, <2>1, <4>1 DEF LayersInv, LayersInOrder
        <4>3. v # w
          <5>1. ASSUME v = w PROVE FALSE
            <6>1. x \in Nat \X Scopes \X Units /\ x[1] \in Nat
              BY <4>1 DEF TypeOK, Jobs
            <6>2. w[1] <= x[1] /\ x[1] <= w[1] /\ x[3] = u
              BY <1>1, <1>6, <2>1, <4>1, <5>1
            <6>3. x[1] = w[1]
              BY <1>6, <6>1, <6>2
            <6> QED
              BY <1>8, <4>1, <6>2, <6>3
          <5> QED
            BY <5>1
        <4> QED
          BY <1>1, <3>1, <4>2, <4>3
      <3>2. CASE q # t
        BY <1>2, <2>1, <3>2 DEF LayersInv, LayersInOrder, Asks
      <3> QED
        BY <3>1, <3>2
    <2> QED
      BY <2>1 DEF LayersInOrder, Asks, Upserts, ScopeOf
  <1>10. ASSUME NEW l \in LayerNames, NEW v \in Units
         PROVE  /\ Expected(l, v)' = Expected(l, v) /\ IsFiniteSet(Mails(l, v)')
    <2>a. IsFiniteSet(Mails(l, v)) /\ Cardinality(Mails(l, v)) \in Nat
      BY NameFacts DEF LayersInv
    <2>1. CASE l = layer /\ v = u
      <3>1. /\ IsFiniteSet(Mails(l, v)')
            /\ Cardinality(Mails(l, v)') = Cardinality(Mails(l, v)) + 1
        BY <1>6, <1>7, <2>1, <2>a, OneMail
      <3>2. t \in Due(l, v)
        BY <1>1, <1>6, <1>7, <2>1 DEF Due
      <3>3. ~ \E x \in thread'[t].todo : x[2][1] = l /\ x[3] = v
        BY <1>1, <1>8, <2>1
      <3>4. Due(l, v)' = Due(l, v) \ {t}
        BY <1>2, <3>3, DueIs DEF Due
      <3>5. Cardinality(Due(l, v)') = Cardinality(Due(l, v)) - 1
        BY <3>2, <3>4, DueIs, FS_RemoveElement
      <3> QED
        BY <2>a, <3>1, <3>5, DueIs DEF Expected
    <2>2. CASE l # layer \/ v # u
      <3>1. \A q \in Scopes : q[1] = l => counter'[q][v] = counter[q][v]
        BY <1>6, <1>7, <2>2 DEF TypeOK
      <3>2. Mails(l, v)' = Mails(l, v)
        BY <3>1, SameMails
      <3>3. (\E x \in thread'[t].todo : x[2][1] = l /\ x[3] = v)
               <=> \E x \in thread[t].todo : x[2][1] = l /\ x[3] = v
        BY <1>1, <1>6, <1>7, <2>2
      <3>4. Due(l, v)' = Due(l, v)
        BY <1>2, <3>3, DueIs DEF Due
      <3> QED
        BY <2>a, <3>2, <3>4 DEF Expected
    <2> QED
      BY <2>1, <2>2
  <1>11. ASSUME NEW v \in Units PROVE Even(v)'
    <2>1. Even(v)
      BY BalanceIsEven DEF LayersInv
    <2> QED
      BY <1>2, <1>10, <2>1 DEF Even, LayerNames
  <1> QED
    BY <1>9, <1>11, EvenNext DEF LayersInv

\* The counting breaks off: the layers that are not counted yet never will be.
LEMMA CountingFailsLayers ==
  ASSUME TypeOK, CountsAreOwn, LayersInv, NEW t \in Threads, CountingFails(t)
  PROVE  LayersInv'
  <1>1. /\ \A q \in Threads \ {t} : thread'[q] = thread[q]
        /\ thread'[t].todo = {} /\ counter' = counter /\ faults' = faults + 1 /\ faults \in Nat
        /\ thread'[t].req = thread[t].req
    <2>1. counter' = counter /\ faults' = faults + 1
      BY DEF CountingFails
    <2>2. faults \in Nat
      BY LimitAssumption DEF TypeOK
    <2> QED
      BY <2>1, <2>2, CountingFailsFacts
  <1>2. LayersInOrder'
    <2>1. ASSUME NEW q \in Threads, NEW w \in thread'[q].todo, NEW v \in Upserts(thread'[q].req),
                 v[3] = w[3], w[1] <= v[1]
          PROVE  v \in thread'[q].todo
      BY <1>1, <2>1 DEF LayersInv, LayersInOrder, Asks
    <2> QED
      BY <2>1 DEF LayersInOrder, Asks, Upserts, ScopeOf
  <1>3. ASSUME NEW u \in Units PROVE Even(u)'
    <2>1. \A l : Mails(l, u)' = Mails(l, u)
      BY <1>1, SameMails
    <2>2. \A l : Due(l, u)' = Due(l, u) \ {t}
      BY <1>1, DueIs DEF Due
    <2>3. \A l : Cardinality(Due(l, u)') = IF t \in Due(l, u) THEN Cardinality(Due(l, u)) - 1
                                           ELSE Cardinality(Due(l, u))
      BY <2>2, DueIs, FS_RemoveElement
    <2>4. \A l \in LayerNames :
             /\ Expected(l, u) \in Nat /\ Expected(l, u)' \in Int
             /\ Expected(l, u)' = IF t \in Due(l, u) THEN Expected(l, u) - 1 ELSE Expected(l, u)
      BY <2>1, <2>3, NameFacts, DueIs DEF Expected, LayersInv
    <2>5. /\ t \in Due("channel", u) => t \in Due("customer", u)
          /\ t \in Due("customer", u) => t \in Due("global", u)
      BY DueInOrder DEF LayersInv
    <2>6. Even(u)
      BY BalanceIsEven DEF LayersInv
    <2>7. /\ Expected("global", u)' <= Expected("customer", u)'
          /\ Expected("customer", u)' <= Expected("channel", u)'
      BY <2>4, <2>5, <2>6 DEF Even, LayerNames
    <2> QED
      BY <1>1, <2>1, <2>6, <2>7 DEF Even
  <1> QED
    BY <1>2, <1>3, EvenNext DEF LayersInv

\* Time passes: a bucket that is over is empty in all layers.
LEMMA TickLayers ==
  ASSUME TypeOK, CountsAreOwn, LayersInv, Tick
  PROVE  LayersInv'
  <1>1. /\ faults' = faults
        /\ \A s \in Scopes, u \in Units :
              counter'[s][u] = IF u \in Turned THEN 0 ELSE counter[s][u]
        /\ \A t \in Threads : /\ thread'[t].req = thread[t].req
                              /\ thread'[t].todo = {w \in thread[t].todo : w[3] \notin Turned}
    BY TickFacts DEF Tick, StillCurrent
  <1>2. LayersInOrder'
    <2>1. ASSUME NEW q \in Threads, NEW w \in thread'[q].todo, NEW v \in Upserts(thread[q].req),
                 v[3] = w[3], w[1] <= v[1]
          PROVE  v \in thread'[q].todo
      <3>1. w \in thread[q].todo /\ v[3] \notin Turned
        BY <1>1, <2>1
      <3>2. v \in thread[q].todo
        BY <2>1, <3>1 DEF LayersInv, LayersInOrder, Asks
      <3> QED
        BY <1>1, <3>1, <3>2
    <2> QED
      BY <1>1, <2>1 DEF LayersInOrder, Asks, Upserts, ScopeOf
  <1>3. ASSUME NEW u \in Units PROVE Even(u)'
    <2>a. Even(u)
      BY BalanceIsEven DEF LayersInv
    <2>1. CASE u \in Turned
      <3>1. \A l : Mails(l, u)' = {}
        BY <1>1, <2>1, NoMails
      <3>2. \A l : Due(l, u)' = {}
        BY <1>1, <2>1, DueIs
      <3>3. \A l : Expected(l, u)' = 0 + 0
        BY <3>1, <3>2, FS_EmptySet DEF Expected
      <3> QED
        BY <3>1, <3>3, FS_EmptySet DEF Even
    <2>2. CASE u \notin Turned
      <3>1. \A l : Mails(l, u)' = Mails(l, u)
        BY <1>1, <2>2, SameMails
      <3>2. \A l : Due(l, u)' = Due(l, u)
        BY <1>1, <2>2, DueIs DEF Due
      <3>3. \A l : Expected(l, u)' = Expected(l, u)
        BY <3>1, <3>2 DEF Expected
      <3> QED
        BY <1>1, <2>a, <3>1, <3>3 DEF Even
    <2> QED
      BY <2>1, <2>2
  <1> QED
    BY <1>2, <1>3, EvenNext DEF LayersInv

\* Every step keeps the balance of the layers.
LEMMA LayersStep ==
  ASSUME LInv, LayersInv, [Next]_vars
  PROVE  LayersInv'
  <1>a. TypeOK /\ RowsMakeSense /\ CountsAreOwn
    BY DEF LInv
  <1>b. \A t \in Threads : thread[t].phase # "counting" => thread[t].todo = {}
    BY <1>a DEF CountsAreOwn, At
  <1>0. CASE UNCHANGED vars
    BY <1>0, QuietLayers DEF vars
  <1>1. ASSUME NEW t \in Threads, NEW r \in Requests, Begins(t, r)
        PROVE  LayersInv'
    BY <1>1, <1>a, <1>b, BeginFacts, QuietLayers
  <1>2. ASSUME NEW t \in Threads, PlaceBan(t)
        PROVE  LayersInv'
    <2>1. thread[t].phase = "banning" /\ counter' = counter /\ faults' = faults
      BY <1>2 DEF PlaceBan, At
    <2> QED
      BY <1>2, <2>1, <1>a, <1>b, PlaceBanFacts, IdleFacts, QuietLayers
  <1>3. ASSUME NEW t \in Threads, Walks(t), ~ Accepted(t), ~ CountMail(t), ~ CountingFails(t)
        PROVE  LayersInv'
    <2>1. counter' = counter /\ (faults' = 0 => faults = 0)
      BY <1>3, <1>a, LimitAssumption
         DEF Walks, PassLayer, RefuseMail, Rejected, CountingDone, Log, LogFails, ReadRow, TypeOK
    <2>2. /\ thread'[t].todo = thread[t].todo
          /\ thread[t].todo # {} => thread'[t].req = thread[t].req
      <3>1. CASE PassLayer(t)
        BY <3>1, <1>a, PassFacts
      <3>2. CASE RefuseMail(t) \/ Rejected(t) \/ CountingDone(t)
        <4>1. To(t, "logging")
          BY <3>2 DEF RefuseMail, Rejected, CountingDone
        <4> QED
          BY <4>1, <1>a, ToFacts DEF Phases
      <3>3. CASE Log(t) \/ LogFails(t)
        <4>1. thread[t].todo = {} /\ (To(t, "reading") \/ Ends(t))
          BY <3>3, <1>b DEF Log, LogFails, At
        <4> QED
          BY <4>1, <1>a, ToFacts, EndsFacts, IdleFacts DEF Phases
      <3>4. CASE ReadRow(t)
        <4>1. PICK next \in {"insert", "increment", "reset"} : To(t, next)
          BY <3>4 DEF ReadRow
        <4> QED
          BY <4>1, <1>a, ToFacts DEF Phases
      <3> QED
        BY <1>3, <3>1, <3>2, <3>3, <3>4 DEF Walks
    <2> QED
      BY <1>3, <2>1, <2>2, <1>a, WalkFacts, QuietLayers
  <1>4. ASSUME NEW t \in Threads, WriteRow(t)
        PROVE  LayersInv'
    <2>1. counter' = counter /\ faults' = faults
      BY <1>4 DEF WriteRow
    <2> QED
      BY <1>4, <2>1, <1>a, <1>b, WriteFacts, IdleFacts, QuietLayers
  <1>5. ASSUME NEW ks \in SUBSET Keys, ClearBan(ks)
        PROVE  LayersInv'
    BY <1>5, QuietLayers DEF ClearBan
  <1> QED
    BY <1>0, <1>1, <1>2, <1>3, <1>4, <1>5, <1>a, AcceptedLayers, CountMailLayers,
       CountingFailsLayers, TickLayers, Steps

\* It holds at first.
LEMMA LayersInitially ==
  ASSUME Init
  PROVE  LayersInv
  <1>1. /\ \A t \in Threads : thread[t].todo = {}
        /\ \A s \in Scopes, u \in Units : counter[s][u] = 0
    BY IdleFacts DEF Init
  <1>2. ASSUME NEW u \in Units PROVE Even(u)
    <2>1. \A l : Mails(l, u) = {} /\ Due(l, u) = {}
      BY <1>1, MailsAre DEF Due
    <2>2. \A l : Expected(l, u) = 0 + 0
      BY <2>1, FS_EmptySet DEF Expected
    <2> QED
      BY <2>1, <2>2, FS_EmptySet DEF Even
  <1> QED
    BY <1>1, <1>2, BalanceIsEven DEF LayersInv, LayersInOrder

\* In balance, the layers agree but for the mails being counted.
LEMMA BalanceGivesAgreement ==
  ASSUME LInv, LayersInv
  PROVE  LayersAgree
  <1> SUFFICES ASSUME NEW u \in Units
               PROVE  LET Sum(layer) == Cardinality(Mails(layer, u))
                      IN  /\ Sum("global") <= Sum("customer") /\ Sum("customer") <= Sum("channel")
                          /\ faults = 0 /\ (\A t \in Threads : ~ At(t, "counting"))
                                => Sum("global") = Sum("channel")
    BY DEF LayersAgree
  <1>1. Even(u)
    BY BalanceIsEven DEF LayersInv
  <1>2. /\ Due("channel", u) \subseteq Due("customer", u)
        /\ Due("customer", u) \subseteq Due("global", u)
    BY DueInOrder DEF LInv, LayersInv
  <1>3. /\ Cardinality(Due("channel", u)) <= Cardinality(Due("customer", u))
        /\ Cardinality(Due("customer", u)) <= Cardinality(Due("global", u))
    BY <1>2, DueIs, FS_Subset
  <1>4. \A l \in LayerNames : Cardinality(Due(l, u)) \in Nat /\ Cardinality(Mails(l, u)) \in Nat
    BY DueIs, NameFacts DEF LayersInv
  <1>5. (\A t \in Threads : ~ At(t, "counting")) => \A l : Due(l, u) = {}
    BY DEF LInv, CountsAreOwn, Due
  <1> QED
    BY <1>1, <1>3, <1>4, <1>5 DEF Even, Expected, LayerNames

\* The six statements of record() go through the layers in one order: the system never
\* counts more mails than the customers and these never more than the channels, and all
\* agree when no thread is counting and no statement has failed.
THEOREM LayersCountAlike == Spec => []LayersAgree
  <1>1. LInv /\ LayersInv /\ [Next]_vars => LInv' /\ LayersInv'
    BY Inductive, LayersStep
  <1>2. LInv /\ LayersInv => LayersAgree
    BY BalanceGivesAgreement
  <1>3. Init => LInv /\ LayersInv
    BY Initially, LayersInitially
  <1> QED
    BY <1>1, <1>2, <1>3, PTL DEF Spec
=============================================================================
