----------------------- MODULE CollectionCycleProofs -----------------------
(***************************************************************************)
(* Proofs about CollectionCycle, for every catalogue of products, pages    *)
(* and packages and every bound on withdrawals, faults and expiries.       *)
(***************************************************************************)
EXTENDS CollectionCycle, TLAPS

\* The first product of an order, and what follows it.
LEMMA OrderFacts ==
    /\ Head(SourceOrder) \in Sources /\ SourceOrder[1] \in Sources
    /\ Tail(SourceOrder) \in Seq(Sources)
PROOF
  BY CycleAssumption DEF Sources

\* The state between runs has the type of a run and holds no package.
LEMMA IdleFacts ==
    /\ IdleRun \in Runs
    /\ IdleRun.phase = "idle"
    /\ IdleRun.page = {} /\ IdleRun.missing = {} /\ IdleRun.items = {}
    /\ IdleRun.all = {} /\ \A u \in Urls : IdleRun.cache[u].items = {}
PROOF
  <1>1. Missing \in CacheEntry
    BY OrderFacts DEF Missing, CacheEntry
  <1>2. [u \in Urls |-> Missing] \in [Urls -> CacheEntry]
    BY <1>1
  <1>3. IdleRun \in Runs
    BY <1>2, OrderFacts DEF IdleRun, Runs, Phases
  <1>4. \A u \in Urls : IdleRun.cache[u].items = {}
    BY DEF IdleRun, Missing
  <1> QED BY <1>3, <1>4 DEF IdleRun

\* Going on to the next product keeps the type of the run.
LEMMA AfterProductType ==
  ASSUME NEW r \in Runs PROVE AfterProduct(r) \in Runs
PROOF
  <1>1. CASE r.rest # <<>>
    <2>1. Head(r.rest) \in Sources /\ Tail(r.rest) \in Seq(Sources)
      BY <1>1 DEF Runs
    <2>2. UrlsOf[Head(r.rest)] \in Seq(Urls)
      BY <2>1, CycleAssumption
    <2> QED BY <1>1, <2>1, <2>2 DEF AfterProduct, Runs, Phases
  <1>2. CASE r.rest = <<>>
    <2>1. IdleRun.cache \in [Urls -> CacheEntry]
      BY IdleFacts DEF Runs
    <2>2. <<>> \in Seq(Urls) /\ <<>> \in Seq(Sources)
      OBVIOUS
    <2> QED BY <1>2, <2>1, <2>2, OrderFacts DEF AfterProduct, Runs, Phases
  <1> QED BY <1>1, <1>2

\* The same for the detection loop.
LEMMA AfterSourceType ==
  ASSUME NEW r \in Runs PROVE AfterSource(r) \in Runs
PROOF
  <1>1. CASE r.rest # <<>>
    <2>1. Head(r.rest) \in Sources /\ Tail(r.rest) \in Seq(Sources)
      BY <1>1 DEF Runs
    <2> QED BY <1>1, <2>1 DEF AfterSource, Runs, Phases
  <1>2. CASE r.rest = <<>>
    BY <1>2, IdleFacts DEF AfterSource
  <1> QED BY <1>1, <1>2

------------------------------------------------------------------------------
(***************************************************************************)
(* The inductive invariant speaks of the local state of the run.  Sound(r) *)
(* is that part of it, for any run record r.                               *)
(***************************************************************************)
Sound(r) ==
    /\ r \in Runs
    /\ r.page \cup r.missing \subseteq known
    /\ \A u \in Urls : r.cache[u].items \subseteq known
    /\ \A it \in r.items \cup r.all : it[1][2] \in known
    /\ r.phase = "diff" => r.urls # <<>>
    /\ r.missing # {} => r.phase = "diff" /\ r.page # {}
    /\ \A p \in r.missing : status[<<r.src, p>>] = "active"
    /\ \A p \in r.missing, q \in r.page :
          UrlOf[p] = UrlOf[q] /\ (p \in pulled \/ p < q)

\* The types of the variables other than run and those of the vendor.
Counters ==
    /\ fresh \subseteq Rows
    /\ faults \in 0..MaxFaults /\ expiries \in 0..MaxExpiries
    /\ announced \in [Rows -> 0..2]
    /\ resaved \subseteq Rows /\ silenced \subseteq Rows /\ reported \subseteq Rows
    /\ lostNews \subseteq Rows /\ lostGone \subseteq Rows
    /\ mirror \in [Sources \X Urls -> SUBSET Packages]

\* The part about the vendor and the table.
Table ==
    /\ known \subseteq Packages /\ listed \subseteq known /\ pulled \subseteq known
    /\ pulls \in 0..MaxPulls
    /\ reissued \subseteq Packages
    /\ status \in [Rows -> Statuses]
    /\ known \ pulled \subseteq listed
    /\ \A r \in Rows : status[r] # "none" => r[2] \in known
    /\ NoFalseWithdrawal

\* The invariant is these three parts.
LEMMA Parts == CInv <=> Table /\ Counters /\ Sound(run)
PROOF
  BY DEF CInv, TypeOK, OnlyPublished, DiffIsSound, Table, Counters, Sound

\* The state between runs is sound.
LEMMA IdleSound == Sound(IdleRun)
PROOF
  BY IdleFacts DEF Sound

\* Turning to another product keeps a run sound.
LEMMA TurnSound ==
  ASSUME NEW r \in Runs, Sound(r), r.missing = {}
  PROVE  Sound(AfterProduct(r)) /\ Sound(AfterSource(r))
PROOF
  <1>1. Sound(AfterProduct(r))
    <2>1. AfterProduct(r) \in Runs
      BY AfterProductType
    <2>2. /\ AfterProduct(r).page = r.page /\ AfterProduct(r).missing = r.missing
          /\ AfterProduct(r).items = {} /\ AfterProduct(r).all = r.all
          /\ AfterProduct(r).cache \in {r.cache, IdleRun.cache}
          /\ AfterProduct(r).phase # "diff"
      BY DEF AfterProduct, Runs
    <2> QED BY <2>1, <2>2, IdleFacts DEF Sound
  <1>2. Sound(AfterSource(r))
    <2>1. AfterSource(r) \in Runs
      BY AfterSourceType
    <2>2. CASE r.rest = <<>>
      BY <2>2, IdleSound DEF AfterSource
    <2>3. CASE r.rest # <<>>
      <3>1. /\ AfterSource(r).page = r.page /\ AfterSource(r).missing = r.missing
            /\ AfterSource(r).items = {} /\ AfterSource(r).all = r.all
            /\ AfterSource(r).cache = r.cache
            /\ AfterSource(r).phase # "diff"
        BY <2>3 DEF AfterSource, Runs
      <3> QED BY <2>1, <3>1 DEF Sound
    <2> QED BY <2>2, <2>3
  <1> QED BY <1>1, <1>2

------------------------------------------------------------------------------
(***************************************************************************)
(* One lemma per group of actions.                                         *)
(***************************************************************************)
\* The vendor publishes, withdraws and relists; the clock ticks.
LEMMA EnvironmentPreserves ==
  ASSUME CInv, Environment PROVE CInv'
PROOF
  <1>0. Table /\ Counters /\ Sound(run)
    BY Parts
  <1>1. ASSUME NEW p \in Packages, Publish(p) \/ Pull(p) \/ Relist(p)
        PROVE  Table' /\ Counters' /\ Sound(run)'
    <2> USE <1>1 DEF Publish, Pull, Relist
    <2>1. /\ UNCHANGED <<db, run, bounds, events, mirror>>
          /\ known \subseteq known' /\ pulled \subseteq pulled'
      OBVIOUS
    <2>2. Table'
      <3>1. pulls' \in 0..MaxPulls
        BY <1>0, <2>1, CycleAssumption DEF Table
      <3>2. status' = status
        BY <2>1 DEF db
      <3>3. /\ known' \subseteq Packages /\ listed' \subseteq known'
            /\ pulled' \subseteq known' /\ reissued' \subseteq Packages
            /\ known' \ pulled' \subseteq listed'
        BY <1>0, <2>1 DEF Table
      <3>4. NoFalseWithdrawal'
        BY <1>0, <2>1, <3>2 DEF Table, NoFalseWithdrawal, Misdated
      <3> QED BY <1>0, <2>1, <3>1, <3>2, <3>3, <3>4 DEF Table
    <2>3. Counters'
      BY <1>0, <2>1 DEF Counters, db, bounds, events
    <2>4. Sound(run)'
      <3>1. run' = run /\ status' = status
        BY <2>1 DEF db
      <3> QED BY <1>0, <2>1, <3>1 DEF Sound
    <2> QED BY <2>2, <2>3, <2>4
  <1>2. ASSUME Tick PROVE Table' /\ Counters' /\ Sound(run)'
    <2>1. UNCHANGED <<vendor, status, run, bounds, events, mirror>> /\ fresh' = {}
      BY <1>2 DEF Tick
    <2>2. Table'
      BY <1>0, <2>1 DEF Table, NoFalseWithdrawal, Misdated, vendor
    <2>3. Counters'
      BY <1>0, <2>1 DEF Counters, bounds, events
    <2>4. Sound(run)'
      BY <1>0, <2>1 DEF Sound, vendor
    <2> QED BY <2>2, <2>3, <2>4
  <1>3. Table' /\ Counters' /\ Sound(run)'
    BY <1>1, <1>2 DEF Environment
  <1>4. (Table /\ Counters /\ Sound(run))' => CInv'
    BY DEF CInv, TypeOK, OnlyPublished, DiffIsSound, Table, Counters, Sound
  <1> QED BY <1>3, <1>4

\* A step that leaves the vendor and the table alone has to keep the run sound.
LEMMA QuietStep ==
  ASSUME CInv, UNCHANGED <<vendor, status>>, Counters', Sound(run')
  PROVE  CInv'
PROOF
  <1>1. Table'
    BY Parts DEF Table, vendor, NoFalseWithdrawal, Misdated
  <1>2. Sound(run)'
    BY DEF Sound, vendor
  <1> QED BY <1>1, <1>2
          DEF CInv, TypeOK, OnlyPublished, DiffIsSound, Table, Counters, Sound

\* A run starts.
LEMMA BeginPreserves ==
  ASSUME CInv, RunNow \/ RunForSource PROVE CInv'
PROOF
  <1>1. PICK mode \in {"quick", "full", "single"}, order \in Seq(Sources) :
           order # <<>> /\ Begin(mode, order)
    <2>1. CASE RunNow
      BY <2>1, CycleAssumption DEF RunNow
    <2>2. CASE RunForSource
      <3>1. PICK s \in Sources : Begin("single", <<s>>)
        BY <2>2 DEF RunForSource
      <3>2. <<s>> \in Seq(Sources) /\ <<s>> # <<>>
        OBVIOUS
      <3> QED BY <3>1, <3>2
    <2> QED BY <2>1, <2>2
  <1>2. /\ Head(order) \in Sources /\ Tail(order) \in Seq(Sources)
        /\ UrlsOf[Head(order)] \in Seq(Urls)
    BY <1>1, CycleAssumption
  <1>3. Sound(run')
    <2>1. run' = [IdleRun EXCEPT !.phase = "fetch", !.mode = mode,
                                 !.src = Head(order), !.rest = Tail(order),
                                 !.urls = UrlsOf[Head(order)]]
      BY <1>1 DEF Begin
    <2>2. run' \in Runs
      BY <2>1, <1>2, IdleFacts DEF Runs, Phases
    <2>3. /\ run'.page = {} /\ run'.missing = {} /\ run'.items = {}
          /\ run'.all = {} /\ run'.cache = IdleRun.cache /\ run'.phase = "fetch"
      BY <2>1 DEF IdleRun
    <2> QED BY <2>2, <2>3, IdleFacts DEF Sound
  <1>4. Counters' /\ UNCHANGED <<vendor, status>>
    BY <1>1, Parts DEF Begin, db, bounds, events, Counters
  <1> QED BY <1>3, <1>4, QuietStep

\* Reading a page: what is missing from it is older than all it shows.
LEMMA FetchPreserves ==
  ASSUME CInv, FetchPage PROVE CInv'
PROOF
  <1> DEFINE u == Head(run.urls)
             gone(page) == IF page = {} THEN {}
                           ELSE {p \in Packages \ page :
                                   UrlOf[p] = u /\ status[<<run.src, p>>] = "active"}
  <1>0. Table /\ Counters /\ Sound(run)
    BY Parts
  <1>1. PICK page \in SUBSET ListedOn(u) :
           /\ IsPage(u, page)
           /\ run' = [run EXCEPT !.phase = "diff", !.imported = TRUE,
                        !.page = page, !.silent = Resurrects(run.src, u),
                        !.missing = gone(page)]
    BY DEF FetchPage
  <1>2. run' \in Runs
    <2>1. page \subseteq Packages /\ gone(page) \subseteq Packages
      BY <1>0, <1>1 DEF ListedOn, Table
    <2>2. Resurrects(run.src, u) \in BOOLEAN
      BY DEF Resurrects
    <2> QED BY <1>0, <1>1, <2>1, <2>2 DEF Sound, Runs, Phases
  <1>3. gone(page) \subseteq known
    <2> SUFFICES ASSUME NEW p \in gone(page) PROVE p \in known
      OBVIOUS
    <2>1. <<run.src, p>> \in Rows /\ status[<<run.src, p>>] # "none"
      BY <1>0 DEF Sound, Runs, Rows
    <2> QED BY <1>0, <2>1 DEF Table
  <1>4. ASSUME NEW p \in gone(page), NEW q \in page
        PROVE  UrlOf[p] = UrlOf[q] /\ (p \in pulled \/ p < q)
    <2>1. p \in pulled \/ p \in ListedOn(u) \ page
      BY <1>0, <1>4, <1>3 DEF Table, ListedOn
    <2> QED BY <1>1, <1>4, <2>1 DEF IsPage, ListedOn
  <1>5. Sound(run')
    <2>1. /\ run'.page = page /\ run'.missing = gone(page)
          /\ run'.cache = run.cache /\ run'.items = run.items /\ run'.all = run.all
          /\ run'.phase = "diff" /\ run'.src = run.src
      BY <1>0, <1>1 DEF Sound, Runs
    <2>4. run'.urls # <<>>
      BY <1>0, <1>1 DEF Sound, Runs, FetchPage, Uncached, AtUrl
    <2>2. page \subseteq known
      BY <1>0, <1>1 DEF ListedOn, Table
    <2> HIDE DEF gone
    <2>3. /\ gone(page) # {} => page # {}
          /\ \A p \in gone(page) : status[<<run.src, p>>] = "active"
      BY DEF gone
    <2> QED BY <1>0, <1>2, <1>4, <1>3, <2>1, <2>2, <2>3, <2>4 DEF Sound
  <1>6. Counters'
    <2>1. mirror' \in [Sources \X Urls -> SUBSET Packages]
      BY <1>0 DEF FetchPage, Counters
    <2> QED BY <1>0, <2>1 DEF FetchPage, Counters, db, bounds, events
  <1>7. UNCHANGED <<vendor, status>>
    BY DEF FetchPage, db
  <1> QED BY <1>5, <1>6, <1>7, QuietStep

\* Comparing a row: the only step that withdraws one.  A package that is not
\* displaced, and that the vendor did not pull, is older than a dated package on
\* the page, whose time is then not later.
LEMMA DiffPreserves ==
  ASSUME CInv, NEW p \in Packages, DiffRow(p) PROVE CInv'
PROOF
  <1> DEFINE r == <<run.src, p>>
             gone == IF Displaced(p, run.page) THEN {} ELSE {r}
             st == IF gone = {} THEN "superseded" ELSE "withdrawn"
  <1>0. Table /\ Counters /\ Sound(run)
    BY Parts
  <1>1. /\ p \in run.missing /\ r \in Rows
        /\ status' = [status EXCEPT ![r] = st]
        /\ run' = [run EXCEPT !.missing = @ \ {p}, !.gone = @ \cup gone]
        /\ UNCHANGED <<vendor, fresh, bounds, events, mirror>>
    BY <1>0 DEF DiffRow, Sound, Runs, Rows
  <1>2. Displaced(p, run.page) \/ p \in pulled \/ Misdated(p)
    <2> SUFFICES ASSUME ~Displaced(p, run.page), p \notin pulled PROVE Misdated(p)
      OBVIOUS
    <2>1. PICK q \in run.page : Pub[q] # 0 /\ Pub[p] # 0
      BY DEF Displaced
    <2>2. UrlOf[p] = UrlOf[q] /\ p < q /\ q \in Packages /\ q \in known
      BY <1>0, <1>1, <2>1 DEF Sound, Runs
    <2>3. Pub[p] \in Nat /\ Pub[q] \in Nat /\ ~(Pub[q] > Pub[p])
      BY <2>1, <2>2, CycleAssumption DEF Displaced
    <2>4. Pub[q] <= Pub[p]
      BY <2>3
    <2> QED BY <2>1, <2>2, <2>4 DEF Misdated
  <1>3. Table'
    <2>1. st \in Statuses /\ status' \in [Rows -> Statuses]
      BY <1>0, <1>1 DEF Table, Statuses
    <2>2. p \in known
      BY <1>0, <1>1 DEF Sound
    <2>3. \A rr \in Rows : status'[rr] # "none" => rr[2] \in known
      BY <1>0, <1>1, <2>2 DEF Table
    <2>4. NoFalseWithdrawal'
      BY <1>0, <1>1, <1>2 DEF Table, NoFalseWithdrawal, Misdated, Rows, vendor
    <2> QED BY <1>0, <1>1, <2>1, <2>3, <2>4 DEF Table, vendor
  <1>4. Sound(run)'
    <2>1. gone \subseteq Rows
      BY <1>1
    <2>2. run' \in Runs
      BY <1>0, <1>1, <2>1 DEF Sound, Runs
    <2>3. /\ run'.page = run.page /\ run'.missing = run.missing \ {p}
          /\ run'.urls = run.urls /\ run'.phase = run.phase /\ run'.src = run.src
          /\ run'.cache = run.cache /\ run'.items = run.items /\ run'.all = run.all
      BY <1>0, <1>1 DEF Sound, Runs
    <2>4. \A q \in run'.missing : status'[<<run'.src, q>>] = "active"
      <3> SUFFICES ASSUME NEW q \in run.missing, q # p
                   PROVE  status'[<<run.src, q>>] = "active"
        BY <2>3
      <3>1. <<run.src, q>> \in Rows /\ <<run.src, q>> # r
        BY <1>0 DEF Sound, Runs, Rows
      <3> QED BY <1>0, <1>1, <3>1 DEF Sound, Table
    <2> QED BY <1>0, <1>1, <2>2, <2>3, <2>4 DEF Sound, vendor
  <1>5. Counters'
    BY <1>0, <1>1 DEF Counters, bounds, events
  <1> QED BY <1>3, <1>4, <1>5
          DEF CInv, TypeOK, OnlyPublished, DiffIsSound, Table, Counters, Sound

\* A page ends, from the network or from the cache, or is given up.
LEMMA PagePreserves ==
  ASSUME CInv, PageDone \/ CacheHit \/ FetchFails \/ DiffFails PROVE CInv'
PROOF
  <1> DEFINE u == Head(run.urls)
             e == run.cache[u]
  <1>0. Table /\ Counters /\ Sound(run) /\ run \in Runs
    BY Parts DEF Sound
  <1>1. run.urls # <<>>
    BY <1>0 DEF PageDone, CacheHit, FetchFails, DiffFails, Uncached, AtUrl, Sound
  <1>2. u \in Urls /\ Tail(run.urls) \in Seq(Urls) /\ e \in CacheEntry
    BY <1>0, <1>1 DEF Runs
  <1>3. UNCHANGED <<vendor, status>>
    BY DEF PageDone, CacheHit, FetchFails, DiffFails, db
  <1>4. CASE PageDone
    <2> DEFINE entry == [items |-> run.page, writer |-> run.src,
                         silent |-> run.silent, filled |-> TRUE]
               its == ({run.src} \X run.page) \X {run.silent}
    <2>1. run' = [run EXCEPT !.phase = "fetch", !.urls = Tail(@), !.page = {},
                     !.silent = FALSE, !.cache = [@ EXCEPT ![u] = entry],
                     !.items = @ \cup its]
      BY <1>4 DEF PageDone
    <2>2. entry \in CacheEntry /\ its \subseteq Items
      BY <1>0 DEF Runs, CacheEntry, Items, Rows
    <2>3. run'.cache = [run.cache EXCEPT ![u] = entry]
          /\ run'.items = run.items \cup its /\ run'.all = run.all
          /\ run'.page = {} /\ run'.missing = {} /\ run'.phase = "fetch"
      BY <1>0, <1>4, <2>1 DEF Runs, PageDone
    <2>4. \A it \in its : it[1][2] \in known
      BY <1>0 DEF Sound
    <2>5. \A v \in Urls : run'.cache[v].items \subseteq known
      BY <1>0, <2>3 DEF Sound, Runs
    <2> HIDE DEF entry, its
    <2>6. run' \in Runs
      BY <1>0, <1>2, <2>1, <2>2 DEF Runs, Phases
    <2>7. Sound(run')
      BY <1>0, <2>3, <2>4, <2>5, <2>6 DEF Sound
    <2>8. mirror' \in [Sources \X Urls -> SUBSET Packages]
      BY <1>0, <1>4 DEF PageDone, Counters, Runs
    <2>9. Counters'
      BY <1>0, <1>4, <2>8 DEF PageDone, Counters, db, bounds, events
    <2> QED BY <1>3, <2>7, <2>9, QuietStep
  <1>5. CASE CacheHit
    <2> DEFINE its == ({e.writer} \X e.items) \X {e.silent}
    <2>1. run' = [run EXCEPT !.urls = Tail(@),
                     !.items = IF run.imported THEN @ \cup its ELSE @]
      BY <1>5 DEF CacheHit
    <2>2. its \subseteq Items
      BY <1>2 DEF CacheEntry, Items, Rows
    <2>3. /\ run'.cache = run.cache /\ run'.items \subseteq run.items \cup its
          /\ run'.all = run.all /\ run'.page = run.page
          /\ run'.missing = {} /\ run'.phase = "fetch"
      BY <1>0, <1>5, <2>1 DEF Runs, CacheHit, AtUrl, Sound
    <2>4. \A it \in its : it[1][2] \in known
      BY <1>0, <1>2 DEF Sound
    <2> HIDE DEF its
    <2>5. run' \in Runs
      BY <1>0, <1>2, <2>1, <2>2 DEF Runs
    <2>6. Sound(run')
      BY <1>0, <2>3, <2>4, <2>5 DEF Sound
    <2>7. Counters'
      BY <1>0, <1>5 DEF CacheHit, Counters, db, bounds, events
    <2> QED BY <1>3, <2>6, <2>7, QuietStep
  <1>6. CASE FetchFails \/ DiffFails
    <2>1. run' \in Runs
      <3>1. CASE FetchFails
        BY <1>0, <1>2, <3>1 DEF FetchFails, Runs
      <3>2. CASE DiffFails
        BY <1>0, <1>2, <3>2 DEF DiffFails, Runs, Phases
      <3> QED BY <1>6, <3>1, <3>2
    <2>2. /\ run'.page \subseteq run.page /\ run'.missing = {}
          /\ run'.cache = run.cache /\ run'.items = run.items /\ run'.all = run.all
          /\ run'.phase = "fetch"
      <3>1. run \in Runs /\ (FetchFails => run.missing = {}) /\ run.phase \in {"fetch", "diff"}
             /\ (FetchFails => run.phase = "fetch")
        BY <1>0, <1>6 DEF FetchFails, DiffFails, Uncached, AtUrl, Sound
      <3>2. CASE FetchFails
        BY <3>1, <3>2 DEF FetchFails, Runs
      <3>3. CASE DiffFails
        BY <3>1, <3>3 DEF DiffFails, Runs
      <3> QED BY <1>6, <3>2, <3>3
    <2>3. Sound(run')
      BY <1>0, <2>1, <2>2 DEF Sound
    <2>4. Blank \in [Sources \X Urls -> SUBSET Packages]
      BY DEF Blank
    <2>5. faults' \in 0..MaxFaults
      BY <1>0, <1>6, CycleAssumption DEF FetchFails, DiffFails, Counters
    <2>6. Counters'
      BY <1>0, <1>6, <2>4, <2>5 DEF FetchFails, DiffFails, Counters, db, events
    <2> QED BY <1>3, <2>3, <2>6, QuietStep
  <1> QED BY <1>4, <1>5, <1>6

\* A product ends, with its items or without them.
LEMMA ProductPreserves ==
  ASSUME CInv, ProductDone \/ SessionExpires PROVE CInv'
PROOF
  <1>0. Table /\ Counters /\ Sound(run) /\ run \in Runs
    BY Parts DEF Sound
  <1>1. UNCHANGED <<vendor, status>>
    BY DEF ProductDone, SessionExpires, db
  <1>2. CASE ProductDone
    <2> DEFINE r == [run EXCEPT !.all = @ \cup run.items,
                                !.allGone = @ \cup run.gone]
    <2>1. r \in Runs
      BY <1>0 DEF Runs
    <2>2. /\ r.page = run.page /\ r.missing = {} /\ r.cache = run.cache
          /\ r.items = run.items /\ r.all = run.all \cup run.items
          /\ r.phase = "fetch"
      BY <1>0, <1>2 DEF Runs, ProductDone, Sound
    <2> HIDE DEF r
    <2>3. Sound(r)
      BY <1>0, <2>1, <2>2 DEF Sound
    <2>4. run' = AfterProduct(r)
      BY <1>2 DEF ProductDone, r
    <2>5. Counters'
      BY <1>0, <1>2 DEF ProductDone, Counters, db, bounds, events
    <2> QED BY <1>1, <2>1, <2>2, <2>3, <2>4, <2>5, TurnSound, QuietStep
  <1>3. CASE SessionExpires
    <2>1. Sound(run')
      <3>1. CASE run' = IdleRun
        BY <3>1, IdleSound
      <3>2. CASE run' = AfterProduct(run)
        <4>1. run.missing = {}
          BY <1>0, <1>3 DEF SessionExpires, Uncached, AtUrl, Sound
        <4> QED BY <1>0, <3>2, <4>1, TurnSound
      <3>3. CASE run' = [run EXCEPT !.urls = UrlsOf[run.src], !.imported = FALSE,
                                    !.items = {}, !.gone = {}]
        <4>1. UrlsOf[run.src] \in Seq(Urls)
          BY <1>0, CycleAssumption DEF Runs
        <4>2. run' \in Runs
          BY <1>0, <3>3, <4>1 DEF Runs
        <4>3. /\ run'.page = run.page /\ run'.missing = {}
              /\ run'.cache = run.cache /\ run'.items = {} /\ run'.all = run.all
              /\ run'.phase = "fetch"
          BY <1>0, <1>3, <3>3 DEF Runs, SessionExpires, Uncached, AtUrl, Sound
        <4> QED BY <1>0, <4>2, <4>3 DEF Sound
      <3> QED BY <1>3, <3>1, <3>2, <3>3 DEF SessionExpires
    <2>2. Blank \in [Sources \X Urls -> SUBSET Packages]
      BY DEF Blank
    <2>3. expiries' \in 0..MaxExpiries /\ lostGone' \subseteq Rows
      BY <1>0, <1>3, CycleAssumption DEF SessionExpires, Counters, Runs
    <2>4. Counters'
      BY <1>0, <1>3, <2>2, <2>3 DEF SessionExpires, Counters, db
    <2> QED BY <1>1, <2>1, <2>4, QuietStep
  <1> QED BY <1>2, <1>3

\* A run that ends early, or dies.
LEMMA EndPreserves ==
  ASSUME CInv, NothingCollected \/ FullRunFails \/ RunDies PROVE CInv'
PROOF
  <1>0. Counters /\ run \in Runs
    BY Parts DEF Sound
  <1>1. UNCHANGED <<vendor, status>> /\ run' = IdleRun
    BY DEF NothingCollected, FullRunFails, RunDies, db
  <1>2. lostGone' \subseteq Rows /\ lostNews' \subseteq Rows
    BY <1>0 DEF NothingCollected, FullRunFails, RunDies, Counters, Runs
  <1>3. mirror' \in [Sources \X Urls -> SUBSET Packages]
    BY <1>0 DEF NothingCollected, FullRunFails, RunDies, Counters, Blank
  <1>4. faults' \in 0..MaxFaults
    BY <1>0, CycleAssumption
    DEF NothingCollected, FullRunFails, RunDies, Counters, bounds
  <1>5. Counters'
    BY <1>0, <1>2, <1>3, <1>4
    DEF NothingCollected, FullRunFails, RunDies, Counters, db, bounds
  <1> QED BY <1>1, <1>5, IdleSound, QuietStep

\* A product's items are taken up, or the product is passed over.
LEMMA DetectPreserves ==
  ASSUME CInv, DetectSource PROVE CInv'
PROOF
  <1> DEFINE its  == {it \in run.all : it[1][1] = run.src}
             gone == {r \in run.allGone : r[1] = run.src}
             rest == [run EXCEPT !.allGone = @ \ gone]
  <1>0. Table /\ Counters /\ Sound(run) /\ run \in Runs
    BY Parts DEF Sound
  <1>1. UNCHANGED <<vendor, status>>
    BY DEF DetectSource, db
  <1>2. /\ \/ run' = AfterSource(rest)
           \/ run' = [run EXCEPT !.phase = "save", !.items = its,
                                 !.gone = gone, !.allGone = @ \ gone]
        /\ lostGone' \in {lostGone, lostGone \cup gone}
    BY DEF DetectSource
  <1>3. its \subseteq Items /\ its \subseteq run.all /\ gone \subseteq Rows
    BY <1>0 DEF Runs
  <1> HIDE DEF its, gone
  <1>4. Sound(run')
    <2>1. CASE run' = AfterSource(rest)
      <3>1. rest \in Runs
        BY <1>0 DEF Runs
      <3>2. /\ rest.page = run.page /\ rest.missing = {}
            /\ rest.cache = run.cache /\ rest.items = run.items
            /\ rest.all = run.all /\ rest.phase = "detect"
        BY <1>0 DEF Runs, Sound, DetectSource
      <3> HIDE DEF rest
      <3>3. Sound(rest)
        BY <1>0, <3>1, <3>2 DEF Sound
      <3> QED BY <2>1, <3>1, <3>2, <3>3, TurnSound
    <2>2. CASE run' = [run EXCEPT !.phase = "save", !.items = its,
                                  !.gone = gone, !.allGone = @ \ gone]
      <3>1. run' \in Runs
        BY <1>0, <1>3, <2>2 DEF Runs, Phases
      <3>2. /\ run'.page = run.page /\ run'.missing = {}
            /\ run'.cache = run.cache /\ run'.items = its
            /\ run'.all = run.all /\ run'.phase = "save"
        BY <1>0, <2>2 DEF Runs, Sound, DetectSource
      <3> QED BY <1>0, <1>3, <3>1, <3>2 DEF Sound
    <2> QED BY <1>2, <2>1, <2>2
  <1>5. Counters'
    BY <1>0, <1>2, <1>3 DEF DetectSource, Counters, db, bounds
  <1> QED BY <1>1, <1>4, <1>5, QuietStep

\* Saving an item: a withdrawn row keeps its status, and no row becomes
\* withdrawn.
LEMMA SavePreserves ==
  ASSUME CInv, NEW it \in run.items, SaveItem(it) \/ SaveFails(it)
  PROVE  CInv'
PROOF
  <1> DEFINE r == it[1]
  <1>0. Table /\ Counters /\ Sound(run) /\ run \in Runs
    BY Parts DEF Sound
  <1>1. it \in Items /\ r \in Rows /\ r[2] \in known
    BY <1>0 DEF Runs, Items, Sound
  <1>2. /\ \/ SaveSnapshot(it)
           \/ UNCHANGED <<status, fresh, silenced, resaved>>
        /\ UNCHANGED <<vendor, announced, reported, lostGone>>
    BY DEF SaveItem, SaveFails, db
  <1>3. \/ UNCHANGED status
        \/ status' = [status EXCEPT ![r] = IF @ = "withdrawn" THEN @ ELSE "active"]
    BY <1>2 DEF SaveSnapshot
  <1>4. Table'
    <2>1. status' \in [Rows -> Statuses]
      BY <1>0, <1>3 DEF Table, Statuses
    <2>2. \A x \in Rows : status'[x] # "none" => x[2] \in known
      BY <1>0, <1>1, <1>3 DEF Table
    <2>3. \A x \in Rows : status'[x] = "withdrawn" => status[x] = "withdrawn"
      BY <1>0, <1>1, <1>3 DEF Table
    <2>4. NoFalseWithdrawal'
      BY <1>0, <1>2, <2>3 DEF Table, NoFalseWithdrawal, Misdated, Rows, vendor
    <2> QED BY <1>0, <1>2, <2>1, <2>2, <2>4 DEF Table, vendor
  <1>5. \E news \in {run.news, run.news \cup {r}} :
           run' = [run EXCEPT !.items = @ \ {it}, !.news = news]
    <2>1. CASE SaveItem(it)
      BY <1>0, <2>1 DEF SaveItem, Runs
    <2>2. CASE SaveFails(it)
      BY <1>0, <2>2 DEF SaveFails, Runs
    <2> QED BY <2>1, <2>2
  <1>6. Sound(run')
    <2>1. run' \in Runs
      <3>1. PICK news \in {run.news, run.news \cup {r}} :
               run' = [run EXCEPT !.items = @ \ {it}, !.news = news]
        BY <1>5
      <3>2. news \subseteq Rows
        BY <1>0, <1>1 DEF Runs
      <3> HIDE DEF r
      <3> QED BY <1>0, <3>1, <3>2 DEF Runs
    <2>2. /\ run'.page = run.page /\ run'.missing = {}
          /\ run'.cache = run.cache /\ run'.items \subseteq run.items
          /\ run'.all = run.all /\ run'.phase = "save"
      BY <1>0, <1>5 DEF Runs, SaveItem, SaveFails, Sound
    <2> QED BY <1>0, <2>1, <2>2 DEF Sound
  <1>7. Sound(run)'
    <2>1. run'.missing = {}
      BY <1>0, <1>5 DEF Runs, SaveItem, SaveFails, Sound
    <2> QED BY <1>2, <1>6, <2>1 DEF Sound, vendor
  <1>8. Counters'
    <2>1. fresh' \subseteq Rows /\ silenced' \subseteq Rows /\ resaved' \subseteq Rows
      BY <1>0, <1>1, <1>2 DEF SaveSnapshot, Counters
    <2>2. lostNews' \subseteq Rows
      BY <1>0, <1>1 DEF SaveItem, SaveFails, Counters
    <2>3. faults' \in 0..MaxFaults /\ expiries' \in 0..MaxExpiries
      BY <1>0, CycleAssumption DEF SaveItem, SaveFails, Counters, bounds
    <2>4. mirror' \in [Sources \X Urls -> SUBSET Packages]
      BY <1>0 DEF SaveItem, SaveFails, Counters, Blank
    <2> QED BY <1>0, <1>2, <2>1, <2>2, <2>3, <2>4 DEF Counters
  <1> QED BY <1>4, <1>7, <1>8
          DEF CInv, TypeOK, OnlyPublished, DiffIsSound, Table, Counters, Sound

\* Handing events to the router.
LEMMA RoutePreserves ==
  ASSUME CInv,
         SaveDone \/ SourceDone \/ \E r \in Rows : Announce(r) \/ Report(r)
  PROVE  CInv'
PROOF
  <1>0. Table /\ Counters /\ Sound(run) /\ run \in Runs
    BY Parts DEF Sound
  <1>1. UNCHANGED <<vendor, status>>
    BY DEF SaveDone, SourceDone, Announce, Report, db
  <1>2. CASE SaveDone
    <2>1. \/ run' = IdleRun
          \/ \E push \in SUBSET run.news :
                run' = [run EXCEPT !.phase = "route", !.news = push]
      BY <1>2 DEF SaveDone
    <2>2. Sound(run')
      <3>1. CASE run' = IdleRun
        BY <3>1, IdleSound
      <3>2. ASSUME NEW push \in SUBSET run.news,
                   run' = [run EXCEPT !.phase = "route", !.news = push]
            PROVE  Sound(run')
        <4>1. run' \in Runs
          BY <1>0, <3>2 DEF Runs, Phases
        <4>2. /\ run'.page = run.page /\ run'.missing = {}
              /\ run'.cache = run.cache /\ run'.items = run.items
              /\ run'.all = run.all /\ run'.phase = "route"
          BY <1>0, <1>2, <3>2 DEF Runs, Sound, SaveDone
        <4> QED BY <1>0, <4>1, <4>2 DEF Sound
      <3> QED BY <2>1, <3>1, <3>2
    <2>3. lostNews' \subseteq Rows /\ lostGone' \subseteq Rows
      BY <1>0, <1>2 DEF SaveDone, Counters, Runs
    <2>4. mirror' \in [Sources \X Urls -> SUBSET Packages]
      BY <1>0, <1>2 DEF SaveDone, Counters, Blank
    <2>5. Counters'
      BY <1>0, <1>2, <2>3, <2>4 DEF SaveDone, Counters, db, bounds
    <2> QED BY <1>1, <2>2, <2>5, QuietStep
  <1>3. CASE SourceDone
    <2>1. Sound(run')
      <3>1. run.missing = {}
        BY <1>0, <1>3 DEF SourceDone, Sound
      <3> QED BY <1>0, <1>3, <3>1, TurnSound DEF SourceDone
    <2>2. Counters'
      BY <1>0, <1>3 DEF SourceDone, Counters, db, bounds, events
    <2> QED BY <1>1, <2>1, <2>2, QuietStep
  <1>4. ASSUME NEW r \in Rows, Announce(r) \/ Report(r) PROVE CInv'
    <2>1. \/ run' = [run EXCEPT !.news = @ \ {r}]
          \/ run' = [run EXCEPT !.gone = @ \ {r}]
      BY <1>4 DEF Announce, Report
    <2>2. run \in Runs /\ run.missing = {} /\ run.phase = "route"
      BY <1>0, <1>4 DEF Sound, Announce, Report
    <2>3. /\ run' \in Runs /\ run'.page = run.page /\ run'.missing = {}
          /\ run'.cache = run.cache /\ run'.items = run.items
          /\ run'.all = run.all /\ run'.phase = "route"
      <3>1. CASE run' = [run EXCEPT !.news = @ \ {r}]
        BY <2>2, <3>1 DEF Runs
      <3>2. CASE run' = [run EXCEPT !.gone = @ \ {r}]
        BY <2>2, <3>2 DEF Runs
      <3> QED BY <2>1, <3>1, <3>2
    <2>4. Sound(run')
      BY <1>0, <2>3 DEF Sound
    <2>5. announced' \in [Rows -> 0..2]
      BY <1>0, <1>4 DEF Announce, Report, Counters
    <2>6. Counters'
      BY <1>0, <1>4, <2>5 DEF Announce, Report, Counters, db, bounds
    <2> QED BY <1>1, <2>4, <2>6, QuietStep
  <1> QED BY <1>2, <1>3, <1>4

------------------------------------------------------------------------------
\* The initial state satisfies the invariant.
LEMMA InitEstablishes == Init => CInv
PROOF
  <1> SUFFICES ASSUME Init PROVE CInv
    OBVIOUS
  <1>1. Table
    BY CycleAssumption DEF Init, Table, NoFalseWithdrawal, Statuses, Rows
  <1>2. Counters
    <2>1. faults \in 0..MaxFaults /\ expiries \in 0..MaxExpiries
      BY CycleAssumption DEF Init
    <2>2. announced \in [Rows -> 0..2] /\ mirror \in [Sources \X Urls -> SUBSET Packages]
      BY DEF Init, Blank
    <2> QED BY <2>1, <2>2 DEF Init, Counters
  <1>3. Sound(run)
    BY IdleSound DEF Init
  <1> QED BY <1>1, <1>2, <1>3, Parts

\* Every step preserves it.
LEMMA StepPreserves == CInv /\ [Next]_vars => CInv'
PROOF
  <1> SUFFICES ASSUME CInv, [Next]_vars PROVE CInv'
    OBVIOUS
  <1>1. CASE Environment
    BY <1>1, EnvironmentPreserves
  <1>2. CASE RunNow \/ RunForSource
    BY <1>2, BeginPreserves
  <1>3. CASE RunStep
    <2>1. CASE FetchPage
      BY <2>1, FetchPreserves
    <2>2. CASE \E p \in Packages : DiffRow(p)
      BY <2>2, DiffPreserves
    <2>3. CASE PageDone \/ CacheHit
      BY <2>3, PagePreserves
    <2>4. CASE ProductDone
      BY <2>4, ProductPreserves
    <2>5. CASE NothingCollected \/ FullRunFails
      BY <2>5, EndPreserves
    <2>6. CASE DetectSource
      BY <2>6, DetectPreserves
    <2>7. CASE \E it \in run.items : SaveItem(it)
      BY <2>7, SavePreserves
    <2>8. CASE SaveDone \/ SourceDone \/ \E r \in Rows : Announce(r) \/ Report(r)
      BY <2>8, RoutePreserves
    <2> QED BY <1>3, <2>1, <2>2, <2>3, <2>4, <2>5, <2>6, <2>7, <2>8 DEF RunStep
  <1>4. CASE Fault
    <2>1. CASE FetchFails \/ DiffFails
      BY <2>1, PagePreserves
    <2>2. CASE SessionExpires
      BY <2>2, ProductPreserves
    <2>3. CASE \E it \in run.items : SaveFails(it)
      BY <2>3, SavePreserves
    <2>4. CASE RunDies
      BY <2>4, EndPreserves
    <2> QED BY <1>4, <2>1, <2>2, <2>3, <2>4 DEF Fault
  <1>5. CASE UNCHANGED vars
    BY <1>5 DEF vars, CInv, TypeOK, OnlyPublished, DiffIsSound, NoFalseWithdrawal,
                Misdated
  <1> QED BY <1>1, <1>2, <1>3, <1>4, <1>5 DEF Next

\* The invariant holds in every reachable state.
THEOREM Invariance == Spec => []CInv
PROOF
  <1>1. Init => CInv
    BY InitEstablishes
  <1>2. CInv /\ [Next]_vars => CInv'
    BY StepPreserves
  <1> QED BY <1>1, <1>2, PTL DEF Spec

\* Every variable keeps its type.
THEOREM Typing == Spec => []TypeOK
PROOF
  <1>1. CInv => TypeOK
    BY DEF CInv
  <1> QED BY <1>1, Invariance, PTL

\* Only what the vendor pulled is ever marked withdrawn, or what a later package
\* of its page is dated no later than.
THEOREM Withdrawals == Spec => []NoFalseWithdrawal
PROOF
  <1>1. CInv => NoFalseWithdrawal
    BY DEF CInv
  <1> QED BY <1>1, Invariance, PTL

\* A withdrawn row keeps its status in every step.
LEMMA StaysWithdrawn ==
  ASSUME CInv, [Next]_vars, NEW r \in Rows, status[r] = "withdrawn"
  PROVE  status'[r] = "withdrawn"
PROOF
  <1>0. Table /\ Sound(run) /\ run \in Runs
    BY Parts DEF Sound
  <1>1. CASE \E p \in Packages : DiffRow(p)
    <2>1. PICK p \in Packages : DiffRow(p)
      BY <1>1
    <2>2. status[<<run.src, p>>] = "active"
      BY <1>0, <2>1 DEF DiffRow, Sound
    <2> QED BY <1>0, <2>1, <2>2 DEF DiffRow, Table
  <1>2. CASE \E it \in run.items : SaveItem(it) \/ SaveFails(it)
    <2>1. PICK it \in run.items : SaveItem(it) \/ SaveFails(it)
      BY <1>2
    <2>2. \/ status' = status
          \/ status' = [status EXCEPT ![it[1]] = IF @ = "withdrawn" THEN @
                                                 ELSE "active"]
      BY <2>1 DEF SaveItem, SaveFails, SaveSnapshot, db
    <2> QED BY <1>0, <2>2 DEF Table
  <1>3. CASE UNCHANGED status
    BY <1>3
  <1> QED BY <1>1, <1>2, <1>3
      DEF Next, Environment, Publish, Pull, Relist, Tick, RunNow, RunForSource,
          Begin, RunStep, FetchPage, PageDone, CacheHit, ProductDone,
          NothingCollected, FullRunFails, DetectSource, SaveDone, Announce,
          Report, SourceDone, Fault, FetchFails, DiffFails, SessionExpires,
          RunDies, db, vars

\* A withdrawn row never changes its status again.
THEOREM NoRevival == Spec => WithdrawnNeverRevives
PROOF
  <1>1. CInv /\ [Next]_vars =>
          [\A r \in Rows : status[r] = "withdrawn" => status'[r] = "withdrawn"]_vars
    BY StaysWithdrawn
  <1> QED BY <1>1, Invariance, PTL DEF Spec, WithdrawnNeverRevives

------------------------------------------------------------------------------
(***************************************************************************)
(* What each action does to the local state of the run.                    *)
(***************************************************************************)
KeepsProduct(q, r) == q.mode = r.mode /\ q.src = r.src /\ q.rest = r.rest
KeepsEvents(q, r) == q.gone = r.gone /\ q.allGone = r.allGone /\ q.news = r.news
KeepsItems(q, r) == q.items = r.items /\ q.all = r.all
KeepsPage(q, r) == q.page = r.page /\ q.missing = r.missing /\ q.silent = r.silent

\* The state between runs holds nothing.
LEMMA IdleHolds ==
    /\ IdleRun.phase = "idle" /\ IdleRun.mode = "quick" /\ IdleRun.rest = <<>>
    /\ IdleRun.page = {} /\ ~IdleRun.silent /\ IdleRun.missing = {}
    /\ IdleRun.items = {} /\ IdleRun.all = {}
    /\ IdleRun.gone = {} /\ IdleRun.allGone = {} /\ IdleRun.news = {}
    /\ \A u \in Urls : ~IdleRun.cache[u].filled /\ ~IdleRun.cache[u].silent
                       /\ IdleRun.cache[u].items = {}
PROOF
  BY DEF IdleRun, Missing

\* What a run begins with.
LEMMA BeginFields ==
  ASSUME RunNow \/ RunForSource
  PROVE  /\ run.phase = "idle" /\ run'.phase = "fetch"
         /\ run'.mode = "single" => run'.rest = <<>>
         /\ run'.cache = IdleRun.cache /\ KeepsPage(run', IdleRun)
         /\ KeepsItems(run', IdleRun) /\ KeepsEvents(run', IdleRun)
         /\ UNCHANGED <<vendor, db, bounds, events, mirror>>
PROOF
  <1>1. PICK mode, order : /\ Begin(mode, order)
                           /\ mode = "single" => Tail(order) = <<>>
    <2>1. CASE RunNow
      BY <2>1 DEF RunNow
    <2>2. CASE RunForSource
      <3>1. PICK s \in Sources : Begin("single", <<s>>)
        BY <2>2 DEF RunForSource
      <3>2. Tail(<<s>>) = <<>>
        OBVIOUS
      <3> QED BY <3>1, <3>2
    <2> QED BY <2>1, <2>2
  <1>2. run' = [IdleRun EXCEPT !.phase = "fetch", !.mode = mode,
                               !.src = Head(order), !.rest = Tail(order),
                               !.urls = UrlsOf[Head(order)]]
    BY <1>1 DEF Begin
  <1>3. /\ run'.phase = "fetch" /\ run'.mode = mode /\ run'.rest = Tail(order)
        /\ run'.cache = IdleRun.cache /\ KeepsPage(run', IdleRun)
        /\ KeepsItems(run', IdleRun) /\ KeepsEvents(run', IdleRun)
    BY <1>2 DEF IdleRun, KeepsPage, KeepsItems, KeepsEvents
  <1> QED BY <1>1, <1>3 DEF Begin

\* What a page that is read leaves to the comparison.
LEMMA FetchFields ==
  ASSUME run \in Runs, FetchPage
  PROVE  /\ run.phase = "fetch" /\ run'.phase = "diff"
         /\ ~run.cache[Head(run.urls)].filled
         /\ run'.page \subseteq ListedOn(Head(run.urls))
         /\ run'.silent = Resurrects(run.src, Head(run.urls))
         /\ run'.missing = IF run'.page = {} THEN {}
               ELSE {p \in Packages \ run'.page : /\ UrlOf[p] = Head(run.urls)
                                                  /\ status[<<run.src, p>>] = "active"}
         /\ run'.urls = run.urls /\ run'.cache = run.cache /\ KeepsProduct(run', run)
         /\ KeepsItems(run', run) /\ KeepsEvents(run', run)
PROOF
  <1> DEFINE u == Head(run.urls)
             gone(page) == IF page = {} THEN {}
                           ELSE {p \in Packages \ page :
                                   UrlOf[p] = u /\ status[<<run.src, p>>] = "active"}
  <1>1. PICK page \in SUBSET ListedOn(u) :
           run' = [run EXCEPT !.phase = "diff", !.imported = TRUE, !.page = page,
                              !.silent = Resurrects(run.src, u), !.missing = gone(page)]
    BY DEF FetchPage
  <1>2. run.phase = "fetch" /\ ~run.cache[u].filled
    BY DEF FetchPage, Uncached, AtUrl
  <1> HIDE DEF u, gone
  <1>3. /\ run'.phase = "diff" /\ run'.page = page /\ run'.silent = Resurrects(run.src, u)
        /\ run'.missing = gone(page) /\ run'.urls = run.urls /\ run'.cache = run.cache
        /\ KeepsProduct(run', run) /\ KeepsItems(run', run) /\ KeepsEvents(run', run)
    BY <1>1 DEF Runs, KeepsProduct, KeepsItems, KeepsEvents
  <1> QED BY <1>2, <1>3 DEF u, gone

\* What the comparison of one row does.
LEMMA DiffFields ==
  ASSUME run \in Runs, NEW p, DiffRow(p)
  PROVE  /\ run.phase = "diff" /\ run'.phase = "diff" /\ p \in run.missing
         /\ \E st \in {"superseded", "withdrawn"} :
               /\ status' = [status EXCEPT ![<<run.src, p>>] = st]
               /\ run'.gone = run.gone \cup (IF st = "withdrawn" THEN {<<run.src, p>>} ELSE {})
         /\ run'.missing = run.missing \ {p} /\ run'.page = run.page
         /\ run'.silent = run.silent
         /\ run'.urls = run.urls /\ run'.cache = run.cache /\ KeepsProduct(run', run)
         /\ KeepsItems(run', run) /\ run'.allGone = run.allGone /\ run'.news = run.news
PROOF
  <1> DEFINE gone == IF Displaced(p, run.page) THEN {} ELSE {<<run.src, p>>}
             st == IF gone = {} THEN "superseded" ELSE "withdrawn"
  <1>1. /\ run.phase = "diff" /\ p \in run.missing
        /\ status' = [status EXCEPT ![<<run.src, p>>] = st]
        /\ run' = [run EXCEPT !.missing = @ \ {p}, !.gone = @ \cup gone]
    BY DEF DiffRow
  <1>2. st \in {"superseded", "withdrawn"}
        /\ gone = IF st = "withdrawn" THEN {<<run.src, p>>} ELSE {}
    OBVIOUS
  <1> HIDE DEF gone, st
  <1>3. /\ run'.gone = run.gone \cup gone
        /\ run'.missing = run.missing \ {p} /\ run'.page = run.page
        /\ run'.silent = run.silent /\ run'.phase = run.phase
        /\ run'.urls = run.urls /\ run'.cache = run.cache /\ KeepsProduct(run', run)
        /\ KeepsItems(run', run) /\ run'.allGone = run.allGone /\ run'.news = run.news
    BY <1>1 DEF Runs, KeepsProduct, KeepsItems
  <1> QED BY <1>1, <1>2, <1>3

\* What the end of a page hands to the product.
LEMMA PageDoneFields ==
  ASSUME run \in Runs, PageDone
  PROVE  /\ run.phase = "diff" /\ run.missing = {} /\ run'.phase = "fetch"
         /\ run'.page = {} /\ run'.missing = {} /\ ~run'.silent
         /\ run'.cache = [run.cache EXCEPT ![Head(run.urls)] =
               [items |-> run.page, writer |-> run.src, silent |-> run.silent,
                filled |-> TRUE]]
         /\ run'.items = run.items \cup ({run.src} \X run.page) \X {run.silent}
         /\ run'.all = run.all /\ KeepsProduct(run', run) /\ KeepsEvents(run', run)
PROOF
  <1> DEFINE u == Head(run.urls)
             entry == [items |-> run.page, writer |-> run.src, silent |-> run.silent,
                       filled |-> TRUE]
             its == ({run.src} \X run.page) \X {run.silent}
  <1>1. /\ run.phase = "diff" /\ run.missing = {}
        /\ run' = [run EXCEPT !.phase = "fetch", !.urls = Tail(@), !.page = {},
                     !.silent = FALSE, !.cache = [@ EXCEPT ![u] = entry],
                     !.items = @ \cup its]
    BY DEF PageDone
  <1> HIDE DEF u, entry, its
  <1>2. run'.silent = FALSE
    BY <1>1 DEF Runs
  <1>3. /\ run'.phase = "fetch" /\ run'.page = {} /\ run'.missing = {}
        /\ run'.cache = [run.cache EXCEPT ![u] = entry]
        /\ run'.items = run.items \cup its
        /\ run'.all = run.all /\ KeepsProduct(run', run) /\ KeepsEvents(run', run)
    BY <1>1 DEF Runs, KeepsProduct, KeepsEvents
  <1> QED BY <1>1, <1>2, <1>3 DEF u, entry, its

\* What a page from the cache hands to the product.
LEMMA CacheHitFields ==
  ASSUME run \in Runs, CacheHit
  PROVE  LET e == run.cache[Head(run.urls)] IN
         /\ run.phase = "fetch" /\ run.urls # <<>> /\ e.filled /\ run'.phase = "fetch"
         /\ \/ run'.items = run.items
            \/ run'.items = run.items \cup ({e.writer} \X e.items) \X {e.silent}
         /\ run'.all = run.all /\ run'.cache = run.cache /\ KeepsProduct(run', run)
         /\ KeepsPage(run', run) /\ KeepsEvents(run', run)
PROOF
  <1> DEFINE e == run.cache[Head(run.urls)]
             its == ({e.writer} \X e.items) \X {e.silent}
  <1>1. /\ run.phase = "fetch" /\ run.urls # <<>> /\ e.filled
        /\ run' = [run EXCEPT !.urls = Tail(@),
                              !.items = IF run.imported THEN @ \cup its ELSE @]
    BY DEF CacheHit, AtUrl
  <1> HIDE DEF e, its
  <1>2. /\ run'.phase = "fetch" /\ run'.items \in {run.items, run.items \cup its}
        /\ run'.all = run.all /\ run'.cache = run.cache /\ KeepsProduct(run', run)
        /\ KeepsPage(run', run) /\ KeepsEvents(run', run)
    BY <1>1 DEF Runs, KeepsProduct, KeepsEvents, KeepsPage
  <1> QED BY <1>1, <1>2 DEF e, its

\* A page that fails is left for the next one.
LEMMA PageFailsFields ==
  ASSUME run \in Runs, FetchFails \/ DiffFails
  PROVE  /\ run.phase \in {"fetch", "diff"} /\ run'.phase = "fetch"
         /\ run'.page = {} \/ (run.phase = "fetch" /\ run'.page = run.page)
         /\ run'.cache = run.cache /\ KeepsProduct(run', run)
         /\ KeepsItems(run', run) /\ KeepsEvents(run', run)
         /\ mirror' = Blank
PROOF
  <1>1. CASE FetchFails
    <2>1. run.phase = "fetch" /\ run' = [run EXCEPT !.urls = Tail(@)] /\ mirror' = Blank
      BY <1>1 DEF FetchFails, Uncached, AtUrl
    <2> QED BY <2>1 DEF Runs, KeepsProduct, KeepsItems, KeepsEvents
  <1>2. CASE DiffFails
    <2>1. /\ run.phase = "diff" /\ mirror' = Blank
          /\ run' = [run EXCEPT !.phase = "fetch", !.urls = Tail(@), !.missing = {},
                                !.page = {}, !.silent = FALSE]
      BY <1>2 DEF DiffFails
    <2> QED BY <2>1 DEF Runs, KeepsProduct, KeepsItems, KeepsEvents
  <1> QED BY <1>1, <1>2

\* The products in an order: the first one and the others.
LEMMA AmongFacts ==
    /\ Sources = Among(SourceOrder) /\ Among(<<>>) = {}
    /\ \A q \in Seq(Sources) : q # <<>> =>
          Head(q) \in Sources /\ Among(q) = {Head(q)} \cup Among(Tail(q))
PROOF
  <1>1. Sources = Among(SourceOrder) /\ Among(<<>>) = {}
    BY DEF Sources, Among
  <1>2. ASSUME NEW q \in Seq(Sources), q # <<>>
        PROVE  Head(q) \in Sources /\ Among(q) = {Head(q)} \cup Among(Tail(q))
    <2>1. /\ Len(q) \in Nat /\ Len(q) >= 1 /\ Head(q) = q[1] /\ Head(q) \in Sources
          /\ Len(Tail(q)) = Len(q) - 1
          /\ \A i \in 1..(Len(q) - 1) : Tail(q)[i] = q[i + 1]
      BY <1>2
    <2>2. ASSUME NEW x \in Among(q) PROVE x \in {Head(q)} \cup Among(Tail(q))
      <3>1. PICK i \in 1..Len(q) : x = q[i]
        BY DEF Among
      <3>2. CASE i = 1
        BY <2>1, <3>1, <3>2
      <3>3. CASE i # 1
        <4>1. i - 1 \in 1..(Len(q) - 1) /\ (i - 1) + 1 = i
          BY <2>1, <3>3
        <4>2. Tail(q)[i - 1] = x
          BY <2>1, <3>1, <4>1
        <4> QED BY <2>1, <4>1, <4>2 DEF Among
      <3> QED BY <3>2, <3>3
    <2>3. Head(q) \in Among(q)
      BY <2>1 DEF Among
    <2>4. ASSUME NEW x \in Among(Tail(q)) PROVE x \in Among(q)
      <3>1. PICK i \in 1..(Len(q) - 1) : x = Tail(q)[i]
        BY <2>1 DEF Among
      <3>2. i + 1 \in 1..Len(q) /\ x = q[i + 1]
        BY <2>1, <3>1
      <3> QED BY <3>2 DEF Among
    <2> QED BY <2>1, <2>2, <2>3, <2>4
  <1> QED BY <1>1, <1>2

\* Where a run goes after a product.
LEMMA AfterProductFields ==
  ASSUME NEW r \in Runs, NEW q, q = AfterProduct(r)
  PROVE  /\ \/ /\ r.rest # <<>> /\ q.phase = "fetch" /\ q.cache = r.cache
               /\ q.src = Head(r.rest) /\ q.rest = Tail(r.rest)
            \/ /\ r.rest = <<>> /\ q.phase = "detect" /\ q.cache = IdleRun.cache
               /\ IF r.mode = "single" THEN q.src = r.src /\ q.rest = <<>>
                  ELSE q.src = Head(SourceOrder) /\ q.rest = Tail(SourceOrder)
         /\ q.mode = r.mode /\ KeepsPage(q, r) /\ q.items = {} /\ q.gone = {}
         /\ q.all = r.all /\ q.allGone = r.allGone /\ q.news = r.news
PROOF
  <1>1. CASE r.rest # <<>>
    BY <1>1 DEF AfterProduct, Runs, KeepsPage
  <1>2. CASE r.rest = <<>>
    BY <1>2 DEF AfterProduct, Runs, KeepsPage
  <1> QED BY <1>1, <1>2

\* Where a run goes after a source.
LEMMA AfterSourceFields ==
  ASSUME NEW r \in Runs, NEW q, q = AfterSource(r)
  PROVE  \/ r.rest = <<>> /\ q = IdleRun
         \/ /\ r.rest # <<>> /\ q.phase = "detect" /\ q.src = Head(r.rest)
            /\ q.rest = Tail(r.rest) /\ q.mode = r.mode /\ KeepsPage(q, r)
            /\ q.cache = r.cache /\ q.items = {} /\ q.gone = {}
            /\ q.all = r.all /\ q.allGone = r.allGone /\ q.news = r.news
PROOF
  <1>1. CASE r.rest # <<>>
    BY <1>1 DEF AfterSource, Runs, KeepsPage
  <1>2. CASE r.rest = <<>>
    BY <1>2 DEF AfterSource
  <1> QED BY <1>1, <1>2

\* The product loop goes on: to the next product or to the detection loop, with the
\* items and the withdrawn rows of the product or without them.
TurnsFrom(r, q, items, gone) ==
    /\ r.phase = "fetch"
    /\ \/ /\ r.rest # <<>> /\ q.phase = "fetch" /\ q.cache = r.cache
          /\ q.src = Head(r.rest) /\ q.rest = Tail(r.rest)
       \/ /\ r.rest = <<>> /\ q.phase = "detect" /\ q.cache = IdleRun.cache
          /\ IF r.mode = "single" THEN q.src = r.src /\ q.rest = <<>>
             ELSE q.src = Head(SourceOrder) /\ q.rest = Tail(SourceOrder)
    /\ q.mode = r.mode /\ KeepsPage(q, r) /\ q.items = {} /\ q.gone = {}
    /\ q.all = r.all \cup items /\ q.allGone = r.allGone \cup gone /\ q.news = r.news

\* A product ends with its items and withdrawals.
LEMMA ProductDoneFields ==
  ASSUME run \in Runs, ProductDone
  PROVE  TurnsFrom(run, run', run.items, run.gone)
PROOF
  <1>1. PICK r : r = [run EXCEPT !.all = @ \cup run.items, !.allGone = @ \cup run.gone]
    OBVIOUS
  <1>2. r \in Runs
    BY <1>1 DEF Runs
  <1>3. /\ r.phase = run.phase /\ r.cache = run.cache /\ KeepsProduct(r, run)
        /\ KeepsPage(r, run) /\ r.all = run.all \cup run.items
        /\ r.allGone = run.allGone \cup run.gone /\ r.news = run.news
    BY <1>1 DEF Runs, KeepsProduct, KeepsPage
  <1>4. run.phase = "fetch" /\ run' = AfterProduct(r)
    BY <1>1 DEF ProductDone
  <1>5. PICK q : q = run'
    OBVIOUS
  <1>6. q = AfterProduct(r)
    BY <1>4, <1>5
  <1>7. TurnsFrom(run, q, run.items, run.gone)
    BY <1>2, <1>3, <1>4, <1>6, AfterProductFields DEF TurnsFrom, KeepsProduct, KeepsPage
  <1> QED BY <1>5, <1>7

\* A session that expires gives up the withdrawals of the run.
LEMMA ExpiresFields ==
  ASSUME run \in Runs, SessionExpires
  PROVE  /\ run.phase = "fetch" /\ mirror' = Blank /\ lostGone' = lostGone \cup run.gone
         /\ \/ run' = IdleRun /\ run.mode = "single"
            \/ TurnsFrom(run, run', {}, {})
            \/ /\ run'.phase = "fetch" /\ KeepsProduct(run', run) /\ KeepsPage(run', run)
               /\ run'.cache = run.cache /\ run'.items = {} /\ run'.gone = {}
               /\ run'.all = run.all /\ run'.allGone = run.allGone /\ run'.news = run.news
PROOF
  <1>1. run.phase = "fetch" /\ mirror' = Blank /\ lostGone' = lostGone \cup run.gone
    BY DEF SessionExpires, Uncached, AtUrl
  <1>2. CASE run' = IdleRun /\ run.mode = "single"
    BY <1>1, <1>2
  <1>3. CASE run' = AfterProduct(run)
    <2>1. PICK r, q : r = run /\ q = run'
      OBVIOUS
    <2>2. TurnsFrom(r, q, {}, {})
      BY <1>1, <1>3, <2>1, AfterProductFields DEF TurnsFrom
    <2> QED BY <1>1, <2>1, <2>2
  <1>4. CASE run' = [run EXCEPT !.urls = UrlsOf[run.src], !.imported = FALSE,
                                !.items = {}, !.gone = {}]
    <2> DEFINE us == UrlsOf[run.src]
    <2>1. run' = [run EXCEPT !.urls = us, !.imported = FALSE, !.items = {}, !.gone = {}]
      BY <1>4
    <2> HIDE DEF us
    <2>2. /\ run'.phase = "fetch" /\ KeepsProduct(run', run) /\ KeepsPage(run', run)
          /\ run'.cache = run.cache /\ run'.items = {} /\ run'.gone = {}
          /\ run'.all = run.all /\ run'.allGone = run.allGone /\ run'.news = run.news
      BY <1>1, <2>1 DEF Runs, KeepsProduct, KeepsPage
    <2> QED BY <1>1, <2>2
  <1> QED BY <1>2, <1>3, <1>4 DEF SessionExpires

\* The detection loop goes on to the next product, or the run ends.
NextSource(r, q, allGone) ==
    \/ r.rest = <<>> /\ q = IdleRun
    \/ /\ r.rest # <<>> /\ q.phase = "detect" /\ q.src = Head(r.rest)
       /\ q.rest = Tail(r.rest) /\ q.mode = r.mode /\ q.page = r.page
       /\ q.silent = r.silent /\ q.cache = r.cache
       /\ q.items = {} /\ q.gone = {}
       /\ q.all = r.all /\ q.allGone = allGone /\ q.news = r.news

\* What is compared with the rows of a source.
LEMMA DetectFields ==
  ASSUME run \in Runs, DetectSource
  PROVE  LET its  == {it \in run.all : it[1][1] = run.src}
             gone == {r \in run.allGone : r[1] = run.src} IN
         /\ run.phase = "detect" /\ UNCHANGED mirror
         /\ \/ /\ its = {} /\ NextSource(run, run', run.allGone \ gone)
               /\ lostGone' = lostGone \cup gone
            \/ /\ run'.phase = "save" /\ run'.items = its /\ run'.gone = gone
               /\ run'.all = run.all /\ run'.allGone = run.allGone \ gone
               /\ run'.news = run.news /\ run'.page = run.page
               /\ run'.silent = run.silent /\ run'.cache = run.cache
               /\ KeepsProduct(run', run) /\ UNCHANGED lostGone
PROOF
  <1> DEFINE its  == {it \in run.all : it[1][1] = run.src}
             gone == {r \in run.allGone : r[1] = run.src}
  <1>1. /\ run.phase = "detect" /\ UNCHANGED mirror
        /\ \/ /\ its = {} /\ run' = AfterSource([run EXCEPT !.allGone = @ \ gone])
              /\ lostGone' = lostGone \cup gone
           \/ /\ run' = [run EXCEPT !.phase = "save", !.items = its, !.gone = gone,
                                    !.allGone = @ \ gone]
              /\ UNCHANGED lostGone
    BY DEF DetectSource
  <1> HIDE DEF its, gone
  <1>2. ASSUME run' = AfterSource([run EXCEPT !.allGone = @ \ gone])
        PROVE  NextSource(run, run', run.allGone \ gone)
    <2>1. PICK r, q : r = [run EXCEPT !.allGone = @ \ gone] /\ q = run'
      OBVIOUS
    <2>2. r \in Runs
      BY <2>1 DEF Runs
    <2>3. /\ KeepsProduct(r, run) /\ KeepsPage(r, run) /\ r.cache = run.cache
          /\ r.all = run.all /\ r.allGone = run.allGone \ gone /\ r.news = run.news
      BY <2>1 DEF Runs, KeepsProduct, KeepsPage
    <2>4. q = AfterSource(r)
      BY <1>2, <2>1
    <2>5. NextSource(run, q, run.allGone \ gone)
      BY <2>2, <2>3, <2>4, AfterSourceFields DEF NextSource, KeepsProduct, KeepsPage
    <2> QED BY <2>1, <2>5
  <1>3. ASSUME run' = [run EXCEPT !.phase = "save", !.items = its, !.gone = gone,
                                  !.allGone = @ \ gone]
        PROVE  /\ run'.phase = "save" /\ run'.items = its /\ run'.gone = gone
               /\ run'.all = run.all /\ run'.allGone = run.allGone \ gone
               /\ run'.news = run.news /\ run'.page = run.page
               /\ run'.silent = run.silent /\ run'.cache = run.cache
               /\ KeepsProduct(run', run)
    BY <1>3 DEF Runs, KeepsProduct
  <1> QED BY <1>1, <1>2, <1>3 DEF its, gone

\* What saving an item, or failing to, leaves.
LEMMA SaveFields ==
  ASSUME run \in Runs, NEW it, SaveItem(it) \/ SaveFails(it)
  PROVE  /\ run.phase = "save" /\ run'.phase = "save" /\ it \in run.items
         /\ run'.items = run.items \ {it} /\ run'.all = run.all
         /\ run'.gone = run.gone /\ run'.allGone = run.allGone
         /\ run'.page = run.page /\ run'.silent = run.silent /\ run'.cache = run.cache
         /\ KeepsProduct(run', run)
         /\ \/ /\ SaveSnapshot(it) /\ UNCHANGED <<mirror, lostNews>>
               /\ run'.news = IF IsNew(it) THEN run.news \cup {it[1]} ELSE run.news
            \/ /\ SaveSnapshot(it) /\ run'.news = run.news /\ mirror' = Blank
               /\ lostNews' = IF IsNew(it) THEN lostNews \cup {it[1]} ELSE lostNews
            \/ /\ UNCHANGED <<db, silenced, resaved, lostNews>> /\ run'.news = run.news
               /\ mirror' = Blank
PROOF
  <1>1. CASE SaveItem(it)
    <2> DEFINE news == IF IsNew(it) THEN run.news \cup {it[1]} ELSE run.news
    <2>1. /\ run.phase = "save" /\ it \in run.items /\ SaveSnapshot(it)
          /\ UNCHANGED <<mirror, lostNews>>
      BY <1>1 DEF SaveItem
    <2>2. run' = [run EXCEPT !.items = @ \ {it}, !.news = news]
      BY <1>1 DEF SaveItem, Runs
    <2> HIDE DEF news
    <2>3. /\ run'.phase = run.phase
          /\ run'.items = run.items \ {it} /\ run'.all = run.all
          /\ run'.gone = run.gone /\ run'.allGone = run.allGone
          /\ run'.page = run.page /\ run'.silent = run.silent /\ run'.cache = run.cache
          /\ KeepsProduct(run', run) /\ run'.news = news
      BY <2>2 DEF Runs, KeepsProduct
    <2> QED BY <2>1, <2>3 DEF news
  <1>2. CASE SaveFails(it)
    <2>1. /\ run.phase = "save" /\ it \in run.items
          /\ run' = [run EXCEPT !.items = @ \ {it}] /\ mirror' = Blank
          /\ \/ UNCHANGED <<db, silenced, resaved, lostNews>>
             \/ /\ SaveSnapshot(it)
                /\ lostNews' = IF IsNew(it) THEN lostNews \cup {it[1]} ELSE lostNews
      BY <1>2 DEF SaveFails
    <2>2. /\ run'.phase = run.phase
          /\ run'.items = run.items \ {it} /\ run'.all = run.all
          /\ run'.gone = run.gone /\ run'.allGone = run.allGone
          /\ run'.page = run.page /\ run'.silent = run.silent /\ run'.cache = run.cache
          /\ KeepsProduct(run', run) /\ run'.news = run.news
      BY <2>1 DEF Runs, KeepsProduct
    <2> QED BY <2>1, <2>2
  <1> QED BY <1>1, <1>2

\* What is announced when all is saved.
LEMMA SaveDoneFields ==
  ASSUME run \in Runs, SaveDone
  PROVE  /\ run.phase = "save" /\ run.items = {}
         /\ \/ /\ run' = IdleRun /\ mirror' = Blank /\ lostNews' = lostNews \cup run.news
               /\ lostGone' = lostGone \cup run.gone \cup run.allGone
            \/ /\ run'.phase = "route" /\ run'.news \subseteq run.news
               /\ lostNews' = lostNews \cup (run.news \ run'.news)
               /\ KeepsItems(run', run) /\ KeepsProduct(run', run)
               /\ run'.gone = run.gone /\ run'.allGone = run.allGone
               /\ run'.page = run.page /\ run'.silent = run.silent
               /\ run'.cache = run.cache /\ UNCHANGED <<lostGone, mirror>>
PROOF
  <1> DEFINE chained == {r \in run.news : <<r[1], UrlOf[r[2]]>> \in Chained}
             push    == IF chained # {} THEN chained ELSE run.news
  <1>1. /\ run.phase = "save" /\ run.items = {}
        /\ \/ /\ run' = IdleRun /\ mirror' = Blank /\ lostNews' = lostNews \cup run.news
              /\ lostGone' = lostGone \cup run.gone \cup run.allGone
           \/ /\ run' = [run EXCEPT !.phase = "route", !.news = push]
              /\ lostNews' = lostNews \cup (run.news \ push)
              /\ UNCHANGED <<lostGone, mirror>>
    BY DEF SaveDone
  <1>2. push \subseteq run.news
    OBVIOUS
  <1> HIDE DEF push
  <1>3. ASSUME run' = [run EXCEPT !.phase = "route", !.news = push]
        PROVE  /\ run'.phase = "route" /\ run'.news = push
               /\ KeepsItems(run', run) /\ KeepsProduct(run', run)
               /\ run'.gone = run.gone /\ run'.allGone = run.allGone
               /\ run'.page = run.page /\ run'.silent = run.silent
               /\ run'.cache = run.cache
    BY <1>3 DEF Runs, KeepsItems, KeepsProduct
  <1> QED BY <1>1, <1>2, <1>3

\* An announcement or report goes out and is off the list.
LEMMA RouteFields ==
  ASSUME run \in Runs, NEW r, Announce(r) \/ Report(r)
  PROVE  /\ run.phase = "route" /\ run'.phase = "route"
         /\ KeepsItems(run', run) /\ KeepsProduct(run', run) /\ run'.allGone = run.allGone
         /\ run'.page = run.page /\ run'.silent = run.silent /\ run'.cache = run.cache
         /\ \/ /\ Announce(r) /\ run'.news = run.news \ {r} /\ run'.gone = run.gone
            \/ /\ Report(r) /\ run'.gone = run.gone \ {r} /\ run'.news = run.news
PROOF
  <1>1. CASE Announce(r)
    <2>1. run.phase = "route" /\ run' = [run EXCEPT !.news = @ \ {r}]
      BY <1>1 DEF Announce
    <2> QED BY <1>1, <2>1 DEF Runs, KeepsItems, KeepsProduct
  <1>2. CASE Report(r)
    <2>1. run.phase = "route" /\ run' = [run EXCEPT !.gone = @ \ {r}]
      BY <1>2 DEF Report
    <2> QED BY <1>2, <2>1 DEF Runs, KeepsItems, KeepsProduct
  <1> QED BY <1>1, <1>2

\* A source ends with nothing left to announce.
LEMMA SourceDoneFields ==
  ASSUME run \in Runs, SourceDone
  PROVE  /\ run.phase = "route" /\ run.news = {} /\ run.gone = {}
         /\ NextSource(run, run', run.allGone)
PROOF
  <1>1. run.phase = "route" /\ run.news = {} /\ run.gone = {} /\ run' = AfterSource(run)
    BY DEF SourceDone
  <1>2. PICK r, q : r = run /\ q = run'
    OBVIOUS
  <1>3. NextSource(r, q, r.allGone)
    BY <1>1, <1>2, AfterSourceFields DEF NextSource, KeepsPage
  <1> QED BY <1>1, <1>2, <1>3

------------------------------------------------------------------------------
(***************************************************************************)
(* What each phase leaves empty.                                           *)
(***************************************************************************)
\* Between runs a run holds nothing.
LEMMA IdleClean ==
  ASSUME run' = IdleRun
  PROVE  PhasesAreClean'
PROOF
  BY IdleHolds DEF PhasesAreClean, Collecting

\* The end of a product leaves clean phases.
LEMMA TurnClean ==
  ASSUME PhasesAreClean, NEW items, NEW gone, TurnsFrom(run, run', items, gone),
         run \in Runs, run.mode = "single" => run.rest = <<>>
  PROVE  PhasesAreClean'
PROOF
  BY DEF PhasesAreClean, Collecting, TurnsFrom, KeepsPage

\* So does the turn to the next source,
LEMMA NextSourceClean ==
  ASSUME PhasesAreClean, NEW allGone, run.phase \in {"detect", "route"}, run.news = {},
         NextSource(run, run', allGone)
  PROVE  PhasesAreClean'
PROOF
  <1>1. CASE run' = IdleRun
    BY <1>1, IdleClean
  <1>2. CASE run' # IdleRun
    BY <1>2 DEF PhasesAreClean, Collecting, NextSource
  <1> QED BY <1>1, <1>2

\* every step on the pages,
LEMMA CollectClean ==
  ASSUME run \in Runs, PhasesAreClean, \/ FetchPage \/ \E p \in Packages : DiffRow(p)
                          \/ PageDone \/ CacheHit \/ FetchFails \/ DiffFails
  PROVE  PhasesAreClean'
PROOF
  <1>1. CASE FetchPage
    BY <1>1, FetchFields DEF PhasesAreClean, Collecting, KeepsProduct, KeepsItems, KeepsEvents
  <1>2. ASSUME NEW p \in Packages, DiffRow(p) PROVE PhasesAreClean'
    <2>1. PICK st \in {"superseded", "withdrawn"} : run'.gone = run.gone \cup
             (IF st = "withdrawn" THEN {<<run.src, p>>} ELSE {})
      BY <1>2, DiffFields
    <2>2. \A r \in run.gone : r[1] = run.src
      BY <1>2, DiffFields DEF PhasesAreClean, Collecting
    <2>3. \A r \in run'.gone : r[1] = run.src
      BY <2>1, <2>2
    <2> QED BY <1>2, <2>3, DiffFields DEF PhasesAreClean, Collecting, KeepsProduct, KeepsItems
  <1>3. CASE PageDone
    BY <1>3, PageDoneFields DEF PhasesAreClean, Collecting, KeepsProduct, KeepsEvents
  <1>4. CASE CacheHit
    BY <1>4, CacheHitFields
       DEF PhasesAreClean, Collecting, KeepsProduct, KeepsPage, KeepsEvents
  <1>5. CASE FetchFails \/ DiffFails
    BY <1>5, PageFailsFields
       DEF PhasesAreClean, Collecting, KeepsProduct, KeepsItems, KeepsEvents
  <1> QED BY <1>1, <1>2, <1>3, <1>4, <1>5

\* and every turn of the phases.
LEMMA DetectClean ==
  ASSUME run \in Runs, PhasesAreClean,
         \/ DetectSource \/ SaveDone \/ SourceDone
         \/ \E it \in run.items : SaveItem(it) \/ SaveFails(it)
         \/ \E r \in Rows : Announce(r) \/ Report(r)
  PROVE  PhasesAreClean'
PROOF
  <1>1. CASE DetectSource
    <2>1. run.phase = "detect" /\ run.news = {}
      BY <1>1, DetectFields DEF PhasesAreClean
    <2>2. CASE run'.phase = "save"
      BY <1>1, <2>1, <2>2, DetectFields, IdleHolds
         DEF PhasesAreClean, Collecting, KeepsProduct, NextSource
    <2>3. CASE run'.phase # "save"
      <3>1. PICK g : NextSource(run, run', g)
        BY <1>1, <2>3, DetectFields
      <3> QED BY <2>1, <3>1, NextSourceClean
    <2> QED BY <2>2, <2>3
  <1>2. CASE SaveDone
    BY <1>2, SaveDoneFields, IdleClean
       DEF PhasesAreClean, Collecting, KeepsProduct, KeepsItems
  <1>3. CASE SourceDone
    <2>1. run.phase = "route" /\ run.news = {} /\ NextSource(run, run', run.allGone)
      BY <1>3, SourceDoneFields
    <2>2. PICK g : g = run.allGone
      OBVIOUS
    <2> QED BY <2>1, <2>2, NextSourceClean
  <1>4. ASSUME NEW it \in run.items, SaveItem(it) \/ SaveFails(it) PROVE PhasesAreClean'
    BY <1>4, SaveFields DEF PhasesAreClean, Collecting, KeepsProduct
  <1>5. ASSUME NEW r \in Rows, Announce(r) \/ Report(r) PROVE PhasesAreClean'
    BY <1>5, RouteFields DEF PhasesAreClean, Collecting, KeepsProduct, KeepsItems
  <1> QED BY <1>1, <1>2, <1>3, <1>4, <1>5

\* In every phase the lists of the other phases are empty.
LEMMA PhasesStep ==
  ASSUME CInv, PhasesAreClean, [Next]_vars
  PROVE  PhasesAreClean'
PROOF
  <1>0. run \in Runs
    BY Parts DEF Sound
  <1>1. CASE UNCHANGED run
    BY <1>1 DEF PhasesAreClean, Collecting
  <1>2. CASE RunNow \/ RunForSource
    BY <1>2, BeginFields, IdleHolds
       DEF PhasesAreClean, Collecting, KeepsPage, KeepsItems, KeepsEvents
  <1>3. CASE ProductDone
    <2>1. PICK items, gone : items = run.items /\ gone = run.gone
      OBVIOUS
    <2>2. TurnsFrom(run, run', items, gone)
      BY <1>0, <1>3, <2>1, ProductDoneFields
    <2> QED BY <1>0, <2>2, TurnClean DEF PhasesAreClean
  <1>4. CASE SessionExpires
    <2>1. CASE run' = IdleRun
      BY <2>1, IdleClean
    <2>2. CASE TurnsFrom(run, run', {}, {})
      BY <1>0, <2>2, TurnClean DEF PhasesAreClean
    <2>3. CASE run' # IdleRun /\ ~TurnsFrom(run, run', {}, {})
      BY <1>0, <1>4, <2>3, ExpiresFields
         DEF PhasesAreClean, Collecting, KeepsProduct, KeepsPage
    <2> QED BY <2>1, <2>2, <2>3
  <1>5. CASE NothingCollected \/ FullRunFails \/ RunDies
    BY <1>5, IdleClean DEF NothingCollected, FullRunFails, RunDies
  <1> QED BY <1>0, <1>1, <1>2, <1>3, <1>4, <1>5, CollectClean, DetectClean
          DEF Next, Environment, Publish, Pull, Relist, Tick, RunStep, Fault, vars

------------------------------------------------------------------------------
(***************************************************************************)
(* The accounts of the NEW events.                                         *)
(***************************************************************************)
\* Nothing is announced, and no row enters the table or the hands of the run.
LEMMA QuietNews ==
  ASSUME NewsInv, UNCHANGED <<announced, resaved, silenced, lostNews>>,
         \A r \in Rows : status'[r] = "none" <=> status[r] = "none",
         run'.news = run.news
  PROVE  NewsInv'
PROOF
  BY DEF NewsInv, NewsAreHeld, AnnouncedOnce

\* What the run held is announced or lost.
LEMMA DroppedNews ==
  ASSUME NewsInv, UNCHANGED <<announced, resaved, silenced, status>>,
         run'.news \subseteq run.news, lostNews' = lostNews \cup (run.news \ run'.news)
  PROVE  NewsInv'
PROOF
  BY DEF NewsInv, NewsAreHeld, AnnouncedOnce

\* A page is compared: no row enters the table or leaves it.
LEMMA DiffNews ==
  ASSUME CInv, NewsInv, NEW p \in Packages, DiffRow(p)
  PROVE  NewsInv'
PROOF
  <1>0. Table /\ Sound(run) /\ run \in Runs
    BY Parts DEF Sound
  <1>1. /\ p \in run.missing /\ run'.news = run.news
        /\ \E st \in {"superseded", "withdrawn"} :
              status' = [status EXCEPT ![<<run.src, p>>] = st]
    BY <1>0, DiffFields
  <1>2. status[<<run.src, p>>] = "active"
    BY <1>0, <1>1 DEF Sound
  <1>3. \A r \in Rows : status'[r] = "none" <=> status[r] = "none"
    BY <1>0, <1>1, <1>2 DEF Table
  <1> QED BY <1>1, <1>3, QuietNews DEF DiffRow, events

\* A row is saved: it is held as NEW, was silenced, or is in the table already; one
\* that is held again was saved twice in the second of its insertion.
LEMMA SaveNews ==
  ASSUME CInv, NewsInv, NEW it \in run.items, SaveItem(it) \/ SaveFails(it)
  PROVE  NewsInv'
PROOF
  <1>0. Table /\ run \in Runs
    BY Parts DEF Sound
  <1>1. PICK x : x = it[1]
    OBVIOUS
  <1>2. x \in Rows
    BY <1>0, <1>1 DEF Runs, Items
  <1>3. UNCHANGED announced
    BY DEF SaveItem, SaveFails
  <1>4. CASE UNCHANGED <<db, silenced, resaved, lostNews>> /\ run'.news = run.news
    BY <1>3, <1>4, QuietNews DEF db
  <1>5. ASSUME SaveSnapshot(it),
               \/ /\ run'.news = IF IsNew(it) THEN run.news \cup {x} ELSE run.news
                  /\ UNCHANGED lostNews
               \/ /\ lostNews' = IF IsNew(it) THEN lostNews \cup {x} ELSE lostNews
                  /\ run'.news = run.news
        PROVE  NewsInv'
    <2>1. /\ \A r \in Rows : r # x => status'[r] = status[r]
          /\ status'[x] # "none"
      BY <1>0, <1>1, <1>2, <1>5 DEF SaveSnapshot, Table, Statuses
    <2>2. silenced \subseteq silenced' /\ resaved \subseteq resaved'
      BY <1>5 DEF SaveSnapshot
    <2>3. /\ status[x] = "none" => x \in silenced' \/ IsNew(it)
          /\ IsNew(it) => status[x] = "none" \/ x \in resaved'
      BY <1>1, <1>5 DEF SaveSnapshot, IsNew
    <2>4. /\ run.news \subseteq run'.news /\ lostNews \subseteq lostNews'
          /\ \A r \in run'.news : r \in run.news \/ (r = x /\ IsNew(it))
          /\ IsNew(it) => x \in run'.news \cup lostNews'
          /\ \A r \in Rows : r # x /\ r \notin run.news => r \notin run'.news
      BY <1>5
    <2>5. ASSUME NEW r \in Rows
          PROVE  IF status'[r] = "none" THEN announced[r] = 0 /\ r \notin run'.news
                 ELSE announced[r] > 0 \/ r \in silenced' \cup lostNews' \cup run'.news
      <3>1. CASE r = x
        BY <2>1, <2>2, <2>3, <2>4, <3>1 DEF NewsInv, NewsAreHeld
      <3>2. CASE r # x
        BY <2>1, <2>2, <2>4, <3>2 DEF NewsInv, NewsAreHeld
      <3> QED BY <3>1, <3>2
    <2>6. ASSUME NEW r \in run'.news, announced[r] > 0 PROVE r \in resaved'
      BY <1>2, <2>2, <2>3, <2>4, <2>6 DEF NewsInv, NewsAreHeld
    <2> QED BY <1>3, <2>2, <2>5, <2>6 DEF NewsInv, NewsAreHeld, AnnouncedOnce
  <1> QED BY <1>0, <1>1, <1>4, <1>5, SaveFields

\* An event is handed over: the second time only after a second save.
LEMMA AnnounceNews ==
  ASSUME CInv, NewsInv, NEW r \in Rows, Announce(r) \/ Report(r)
  PROVE  NewsInv'
PROOF
  <1>0. Counters /\ run \in Runs
    BY Parts DEF Sound
  <1>1. UNCHANGED <<status, resaved, silenced, lostNews>>
    BY DEF Announce, Report, db
  <1>2. CASE Report(r) /\ run'.news = run.news
    BY <1>1, <1>2, QuietNews DEF Report
  <1>3. CASE Announce(r) /\ run'.news = run.news \ {r}
    <2>1. r \in run.news /\ announced \in [Rows -> 0..2]
      BY <1>0, <1>3 DEF Announce, Counters
    <2>2. /\ \A x \in Rows : x # r => announced'[x] = announced[x]
          /\ announced'[r] > 0 /\ (announced'[r] = 2 => announced[r] > 0)
      BY <1>3, <2>1 DEF Announce
    <2>3. status[r] # "none"
      BY <2>1 DEF NewsInv, NewsAreHeld
    <2> QED BY <1>0, <1>1, <1>3, <2>1, <2>2, <2>3
            DEF NewsInv, NewsAreHeld, AnnouncedOnce, Runs
  <1> QED BY <1>0, <1>2, <1>3, RouteFields

\* Every step keeps the account of the NEW events.
LEMMA NewsStep ==
  ASSUME CInv, PhasesAreClean, NewsInv, [Next]_vars
  PROVE  NewsInv'
PROOF
  <1>0. run \in Runs
    BY Parts DEF Sound
  <1>1. CASE Environment \/ UNCHANGED vars
    BY <1>1, QuietNews DEF Environment, Publish, Pull, Relist, Tick, vars, db, events
  <1>2. CASE RunNow \/ RunForSource
    <2>1. run'.news = {} /\ run.news = {} /\ UNCHANGED <<db, events>>
      BY <1>2, BeginFields, IdleHolds DEF PhasesAreClean, KeepsEvents
    <2> QED BY <2>1, QuietNews DEF db, events
  <1>3. CASE FetchPage \/ PageDone \/ CacheHit \/ FetchFails \/ DiffFails
    <2>1. run'.news = run.news
      BY <1>0, <1>3, FetchFields, PageDoneFields, CacheHitFields, PageFailsFields
         DEF KeepsEvents
    <2> QED BY <1>3, <2>1, QuietNews
            DEF FetchPage, PageDone, CacheHit, FetchFails, DiffFails, db, events
  <1>4. CASE ProductDone \/ SessionExpires
    <2>1. run.phase = "fetch" /\ run.news = {} /\ run'.news = {}
      BY <1>0, <1>4, ProductDoneFields, ExpiresFields, IdleHolds
         DEF TurnsFrom, PhasesAreClean
    <2> QED BY <1>4, <2>1, QuietNews DEF ProductDone, SessionExpires, db, events
  <1>5. CASE NothingCollected \/ FullRunFails
    <2>1. run.news = {} /\ run'.news = {}
      BY <1>5, IdleHolds DEF NothingCollected, FullRunFails, PhasesAreClean
    <2> QED BY <1>5, <2>1, QuietNews DEF NothingCollected, FullRunFails, db
  <1>6. CASE DetectSource
    <2>1. run.news = {} /\ run'.news = {}
      BY <1>0, <1>6, DetectFields, IdleHolds DEF NextSource, PhasesAreClean
    <2> QED BY <1>6, <2>1, QuietNews DEF DetectSource, db
  <1>7. CASE SourceDone
    <2>1. run.news = {} /\ run'.news = {}
      BY <1>0, <1>7, SourceDoneFields, IdleHolds DEF NextSource
    <2> QED BY <1>7, <2>1, QuietNews DEF SourceDone, db, events
  <1>8. CASE SaveDone
    <2>1. run'.news \subseteq run.news /\ lostNews' = lostNews \cup (run.news \ run'.news)
      BY <1>0, <1>8, SaveDoneFields, IdleHolds
    <2> QED BY <1>8, <2>1, DroppedNews DEF SaveDone, db
  <1>9. CASE RunDies
    <2>1. run'.news = {} /\ lostNews' = lostNews \cup run.news
      BY <1>9, IdleHolds DEF RunDies
    <2> QED BY <1>9, <2>1, DroppedNews DEF RunDies, db
  <1> QED BY <1>1, <1>2, <1>3, <1>4, <1>5, <1>6, <1>7, <1>8, <1>9, DiffNews, SaveNews,
             AnnounceNews DEF Next, RunStep, Fault

------------------------------------------------------------------------------
(***************************************************************************)
(* The accounts of the withdrawn rows.                                     *)
(***************************************************************************)
\* The loops are where they were.
LEMMA SameComing ==
  ASSUME KeepsProduct(run', run), run.phase \in {"fetch", "diff"} <=> run'.phase \in {"fetch", "diff"},
         run.phase = "detect" <=> run'.phase = "detect"
  PROVE  ToDetect' = ToDetect
PROOF
  BY DEF ToDetect, Collecting, KeepsProduct

\* When the product loop turns, no product falls out of those to come.
LEMMA TurnComing ==
  ASSUME run \in Runs, PhasesAreClean, NEW items, NEW gone, TurnsFrom(run, run', items, gone)
  PROVE  ToDetect \subseteq ToDetect'
PROOF
  <1>1. run.mode = "single" => run.rest = <<>>
    BY DEF PhasesAreClean
  <1>2. CASE run.rest # <<>>
    BY <1>1, <1>2 DEF TurnsFrom, ToDetect, Collecting
  <1>3. CASE run.rest = <<>> /\ run.mode = "single"
    BY <1>3, AmongFacts DEF TurnsFrom, ToDetect, Collecting
  <1>4. CASE run.rest = <<>> /\ run.mode # "single"
    <2>1. Sources = {Head(SourceOrder)} \cup Among(Tail(SourceOrder))
      BY AmongFacts, CycleAssumption
    <2>2. /\ run'.phase = "detect" /\ run'.src = Head(SourceOrder)
          /\ run'.rest = Tail(SourceOrder)
      BY <1>4 DEF TurnsFrom
    <2> QED BY <2>1, <2>2 DEF ToDetect
  <1> QED BY <1>2, <1>3, <1>4

\* When the detection loop turns, the products after this one are to come.
LEMMA NextComing ==
  ASSUME run \in Runs, NEW allGone, NextSource(run, run', allGone)
  PROVE  Among(run.rest) \subseteq ToDetect' /\ (run' = IdleRun => Among(run.rest) = {})
PROOF
  <1>1. CASE run.rest = <<>>
    BY <1>1, AmongFacts
  <1>2. CASE run.rest # <<>>
    <2>1. run.rest \in Seq(Sources)
      BY DEF Runs
    <2>2. /\ Head(run.rest) \in Sources
          /\ Among(run.rest) = {Head(run.rest)} \cup Among(Tail(run.rest))
      BY <1>2, <2>1, AmongFacts
    <2>3. /\ run'.phase = "detect" /\ run'.src = Head(run.rest)
          /\ run'.rest = Tail(run.rest)
      BY <1>2 DEF NextSource
    <2>4. Among(run.rest) \subseteq Sources
      BY <2>1 DEF Among
    <2> QED BY <2>2, <2>3, <2>4, IdleHolds DEF ToDetect
  <1> QED BY <1>1, <1>2

\* What the run holds may change hands, and be lost.
LEMMA QuietGone ==
  ASSUME WithdrawnAreHeld, reported' = reported,
         \A r \in Rows : status'[r] = "withdrawn" <=> status[r] = "withdrawn",
         \A r \in Rows : r \in lostGone' \cup run'.gone \cup run'.allGone
                            <=> r \in lostGone \cup run.gone \cup run.allGone,
         \A r \in run'.allGone : r[1] \in ToDetect'
  PROVE  WithdrawnAreHeld'
PROOF
  BY DEF WithdrawnAreHeld

\* A step of the product loop that finds no withdrawn row.
LEMMA CollectGone ==
  ASSUME CInv, WithdrawnAreHeld, FetchPage \/ PageDone \/ CacheHit \/ FetchFails \/ DiffFails
  PROVE  WithdrawnAreHeld'
PROOF
  <1>0. run \in Runs
    BY Parts DEF Sound
  <1>1. /\ KeepsProduct(run', run) /\ KeepsEvents(run', run)
        /\ run.phase \in {"fetch", "diff"} /\ run'.phase \in {"fetch", "diff"}
    BY <1>0, FetchFields, PageDoneFields, CacheHitFields, PageFailsFields
  <1>2. ToDetect' = ToDetect
    BY <1>1, SameComing
  <1>3. UNCHANGED <<status, reported, lostGone>>
    BY DEF FetchPage, PageDone, CacheHit, FetchFails, DiffFails, db, events
  <1> QED BY <1>1, <1>2, <1>3 DEF WithdrawnAreHeld, KeepsEvents

\* The comparison takes into its hands what it withdraws.
LEMMA DiffGone ==
  ASSUME CInv, WithdrawnAreHeld, NEW p \in Packages, DiffRow(p)
  PROVE  WithdrawnAreHeld'
PROOF
  <1>0. Table /\ Sound(run) /\ run \in Runs
    BY Parts DEF Sound
  <1>1. PICK x : x = <<run.src, p>>
    OBVIOUS
  <1>2. /\ p \in run.missing /\ run'.allGone = run.allGone
        /\ KeepsProduct(run', run) /\ run.phase = "diff" /\ run'.phase = "diff"
    BY <1>0, DiffFields
  <1>3. PICK st \in {"superseded", "withdrawn"} :
           /\ status' = [status EXCEPT ![x] = st]
           /\ run'.gone = run.gone \cup (IF st = "withdrawn" THEN {x} ELSE {})
    BY <1>0, <1>1, DiffFields
  <1>4. status[x] = "active" /\ x \in Rows
    BY <1>0, <1>1, <1>2 DEF Sound, Runs, Rows
  <1>5. ToDetect' = ToDetect
    BY <1>2, SameComing
  <1>6. UNCHANGED <<reported, lostGone>>
    BY DEF DiffRow, events
  <1>7. ASSUME NEW r \in Rows
        PROVE  status'[r] = "withdrawn"
                  <=> r \in reported' \cup lostGone' \cup run'.gone \cup run'.allGone
    <2>1. CASE r = x
      BY <1>0, <1>2, <1>3, <1>4, <1>6, <2>1 DEF Table, WithdrawnAreHeld
    <2>2. CASE r # x
      BY <1>0, <1>2, <1>3, <1>6, <2>2 DEF Table, WithdrawnAreHeld
    <2> QED BY <2>1, <2>2
  <1> QED BY <1>2, <1>5, <1>7 DEF WithdrawnAreHeld

\* A product ends: its withdrawn rows are handed to the detection loop, or lost.
LEMMA ProductGone ==
  ASSUME CInv, PhasesAreClean, WithdrawnAreHeld, ProductDone \/ SessionExpires
  PROVE  WithdrawnAreHeld'
PROOF
  <1>0. run \in Runs
    BY Parts DEF Sound
  <1>1. UNCHANGED <<status, reported>>
    BY DEF ProductDone, SessionExpires, db, events
  <1>2. run.phase = "fetch"
    BY <1>0, ProductDoneFields, ExpiresFields DEF TurnsFrom
  <1>3. \A r \in run.gone : r[1] \in ToDetect
    BY <1>0, <1>2 DEF PhasesAreClean, Collecting, ToDetect, Runs
  <1>4. \A r \in run.allGone : r[1] \in ToDetect
    BY DEF WithdrawnAreHeld
  <1>5. CASE ProductDone
    <2>1. PICK items, gone : items = run.items /\ gone = run.gone
      OBVIOUS
    <2>2. TurnsFrom(run, run', items, gone) /\ UNCHANGED lostGone
      BY <1>0, <1>5, <2>1, ProductDoneFields DEF ProductDone, events
    <2>3. ToDetect \subseteq ToDetect'
      BY <1>0, <2>2, TurnComing
    <2>4. run'.gone = {} /\ run'.allGone = run.allGone \cup run.gone
      BY <2>1, <2>2 DEF TurnsFrom
    <2> QED BY <1>1, <1>3, <1>4, <2>2, <2>3, <2>4, QuietGone
  <1>6. CASE SessionExpires
    <2>1. lostGone' = lostGone \cup run.gone
      BY <1>0, <1>6, ExpiresFields
    <2>2. CASE run' = IdleRun /\ run.mode = "single"
      <3>1. run.allGone = {} /\ run'.allGone = {} /\ run'.gone = {}
        BY <1>2, <2>2, IdleHolds DEF PhasesAreClean, Collecting
      <3> QED BY <1>1, <2>1, <3>1, QuietGone
    <2>3. CASE TurnsFrom(run, run', {}, {})
      <3>1. ToDetect \subseteq ToDetect'
        BY <1>0, <2>3, TurnComing
      <3>2. run'.gone = {} /\ run'.allGone = run.allGone
        BY <2>3 DEF TurnsFrom
      <3> QED BY <1>1, <1>4, <2>1, <3>1, <3>2, QuietGone
    <2>4. CASE /\ run'.phase = "fetch" /\ KeepsProduct(run', run)
               /\ run'.gone = {} /\ run'.allGone = run.allGone
      <3>1. ToDetect' = ToDetect
        BY <1>2, <2>4, SameComing
      <3> QED BY <1>1, <1>4, <2>1, <2>4, <3>1, QuietGone
    <2> QED BY <1>0, <1>6, <2>2, <2>3, <2>4, ExpiresFields
  <1> QED BY <1>5, <1>6

\* A run ends early: what it holds is lost.
LEMMA EndGone ==
  ASSUME PhasesAreClean, WithdrawnAreHeld, NothingCollected \/ FullRunFails \/ RunDies
  PROVE  WithdrawnAreHeld'
PROOF
  <1>1. /\ run' = IdleRun /\ UNCHANGED <<status, reported>>
        /\ lostGone' = lostGone \cup run.gone \cup run.allGone
    BY DEF NothingCollected, FullRunFails, RunDies, PhasesAreClean, db
  <1>2. run'.gone = {} /\ run'.allGone = {}
    BY <1>1, IdleHolds
  <1> QED BY <1>1, <1>2, QuietGone

\* The detection loop takes up the withdrawn rows of a product, or loses them with a
\* product that has no items.
LEMMA DetectGone ==
  ASSUME CInv, PhasesAreClean, WithdrawnAreHeld, DetectSource
  PROVE  WithdrawnAreHeld'
PROOF
  <1> DEFINE gone == {r \in run.allGone : r[1] = run.src}
  <1>0. run \in Runs
    BY Parts DEF Sound
  <1>1. run.phase = "detect" /\ run.gone = {} /\ UNCHANGED <<status, reported>>
    BY <1>0, DetectFields DEF PhasesAreClean, DetectSource, db
  <1>2. \A r \in run.allGone \ gone : r[1] \in Among(run.rest)
    BY <1>1 DEF WithdrawnAreHeld, ToDetect, Collecting
  <1>3. gone \subseteq run.allGone
    OBVIOUS
  <1>4. CASE NextSource(run, run', run.allGone \ gone) /\ lostGone' = lostGone \cup gone
    <2>1. PICK g : g = run.allGone \ gone
      OBVIOUS
    <2>2. NextSource(run, run', g) /\ lostGone' = lostGone \cup gone
      BY <1>4, <2>1
    <2> HIDE DEF gone
    <2>3. Among(run.rest) \subseteq ToDetect' /\ (run' = IdleRun => Among(run.rest) = {})
      BY <1>0, <2>2, NextComing
    <2>4. run'.gone = {} /\ run'.allGone = g
      BY <1>2, <2>1, <2>2, <2>3, IdleHolds DEF NextSource
    <2> QED BY <1>1, <1>2, <1>3, <2>1, <2>2, <2>3, <2>4, QuietGone
  <1>5. CASE /\ run'.phase = "save" /\ run'.gone = gone /\ run'.allGone = run.allGone \ gone
             /\ KeepsProduct(run', run) /\ UNCHANGED lostGone
    <2>1. Among(run.rest) \subseteq ToDetect'
      <3>1. run.rest \in Seq(Sources)
        BY <1>0 DEF Runs
      <3>2. Among(run.rest) \subseteq Sources
        BY <3>1 DEF Among
      <3> QED BY <1>5, <3>2 DEF ToDetect, KeepsProduct
    <2> HIDE DEF gone
    <2> QED BY <1>1, <1>2, <1>3, <1>5, <2>1, QuietGone
  <1> QED BY <1>0, <1>4, <1>5, DetectFields

\* Saving revives no withdrawn row and withdraws none.
LEMMA SaveGone ==
  ASSUME CInv, WithdrawnAreHeld, NEW it \in run.items, SaveItem(it) \/ SaveFails(it)
  PROVE  WithdrawnAreHeld'
PROOF
  <1>0. Table /\ run \in Runs
    BY Parts DEF Sound
  <1>1. /\ KeepsProduct(run', run) /\ run.phase = "save" /\ run'.phase = "save"
        /\ run'.gone = run.gone /\ run'.allGone = run.allGone
        /\ SaveSnapshot(it) \/ UNCHANGED status
    BY <1>0, SaveFields DEF db
  <1>2. \A r \in Rows : status'[r] = "withdrawn" <=> status[r] = "withdrawn"
    <2>1. CASE UNCHANGED status
      BY <2>1
    <2>2. CASE status' = [status EXCEPT ![it[1]] = IF @ = "withdrawn" THEN @ ELSE "active"]
      BY <1>0, <2>2 DEF Table
    <2> QED BY <1>1, <2>1, <2>2 DEF SaveSnapshot
  <1>3. ToDetect' = ToDetect
    BY <1>1, SameComing
  <1>4. UNCHANGED <<reported, lostGone>>
    BY DEF SaveItem, SaveFails
  <1>5. \A r \in run'.allGone : r[1] \in ToDetect'
    BY <1>1, <1>3 DEF WithdrawnAreHeld
  <1> QED BY <1>1, <1>2, <1>4, <1>5, QuietGone

\* Every step keeps the account of the withdrawn rows.
LEMMA GoneStep ==
  ASSUME CInv, PhasesAreClean, WithdrawnAreHeld, [Next]_vars
  PROVE  WithdrawnAreHeld'
PROOF
  <1>0. run \in Runs
    BY Parts DEF Sound
  <1>1. CASE Environment \/ UNCHANGED vars
    <2>1. UNCHANGED <<status, run, reported, lostGone>>
      BY <1>1 DEF Environment, Publish, Pull, Relist, Tick, vars, db, events
    <2> QED BY <2>1 DEF WithdrawnAreHeld, ToDetect, Collecting
  <1>2. CASE RunNow \/ RunForSource
    <2>1. /\ run = IdleRun /\ KeepsEvents(run', IdleRun)
          /\ UNCHANGED <<status, reported, lostGone>>
      BY <1>2, BeginFields DEF PhasesAreClean, db, events
    <2>2. run'.gone = {} /\ run'.allGone = {} /\ run.gone = {} /\ run.allGone = {}
      BY <2>1, IdleHolds DEF KeepsEvents
    <2> QED BY <2>1, <2>2, QuietGone
  <1>3. CASE SaveDone
    <2>1. UNCHANGED <<status, reported>>
      BY <1>3 DEF SaveDone, db
    <2>2. CASE run' = IdleRun /\ lostGone' = lostGone \cup run.gone \cup run.allGone
      BY <2>1, <2>2, IdleHolds, QuietGone
    <2>3. CASE /\ run'.phase = "route" /\ KeepsProduct(run', run) /\ run'.gone = run.gone
               /\ run'.allGone = run.allGone /\ UNCHANGED lostGone
      <3>1. ToDetect' = ToDetect
        BY <1>0, <1>3, <2>3, SaveDoneFields, SameComing
      <3> QED BY <2>1, <2>3, <3>1 DEF WithdrawnAreHeld
    <2> QED BY <1>0, <1>3, <2>2, <2>3, SaveDoneFields
  <1>4. ASSUME NEW r \in Rows, Announce(r) \/ Report(r) PROVE WithdrawnAreHeld'
    <2>1. ToDetect' = ToDetect
      BY <1>0, <1>4, RouteFields, SameComing
    <2>2. UNCHANGED <<status, lostGone>>
      BY <1>4 DEF Announce, Report, db
    <2>3. CASE Announce(r) /\ run'.gone = run.gone
      BY <1>0, <1>4, <2>1, <2>2, <2>3, RouteFields DEF Announce, WithdrawnAreHeld
    <2>4. CASE Report(r) /\ run'.gone = run.gone \ {r}
      BY <1>0, <1>4, <2>1, <2>2, <2>4, RouteFields DEF Report, WithdrawnAreHeld
    <2> QED BY <1>0, <1>4, <2>3, <2>4, RouteFields
  <1>5. CASE SourceDone
    <2>1. /\ run.phase = "route" /\ run.gone = {} /\ NextSource(run, run', run.allGone)
          /\ UNCHANGED <<status, reported, lostGone>>
      BY <1>0, <1>5, SourceDoneFields DEF SourceDone, db, events
    <2>2. PICK g : g = run.allGone
      OBVIOUS
    <2>3. Among(run.rest) \subseteq ToDetect' /\ (run' = IdleRun => Among(run.rest) = {})
      BY <1>0, <2>1, <2>2, NextComing
    <2>4. \A r \in run.allGone : r[1] \in Among(run.rest)
      BY <2>1 DEF WithdrawnAreHeld, ToDetect, Collecting
    <2>5. run'.gone = {} /\ run'.allGone = run.allGone
      BY <2>1, <2>3, <2>4, IdleHolds DEF NextSource
    <2> QED BY <2>1, <2>3, <2>4, <2>5, QuietGone
  <1> QED BY <1>1, <1>2, <1>3, <1>4, <1>5, CollectGone, DiffGone, ProductGone, EndGone,
             DetectGone, SaveGone DEF Next, RunStep, Fault

------------------------------------------------------------------------------
(***************************************************************************)
(* Why a package is kept silent.                                           *)
(***************************************************************************)
\* What caused a silence stays a cause: withdrawals are for good.
LEMMA CausedStays ==
  ASSUME CInv, [Next]_vars, NEW r \in Rows, Caused(r)
  PROVE  Caused(r)'
PROOF
  <1>0. Table
    BY Parts
  <1>1. PICK q \in Packages : /\ UrlOf[q] = UrlOf[r[2]]
                              /\ status[<<r[1], q>>] = "withdrawn"
                              /\ q \in pulled \/ Misdated(q)
    BY DEF Caused
  <1>2. <<r[1], q>> \in Rows
    BY <1>0 DEF Table, Rows
  <1>3. status'[<<r[1], q>>] = "withdrawn"
    BY <1>1, <1>2, StaysWithdrawn
  <1>4. pulled \subseteq pulled' /\ known \subseteq known'
    BY DEF Next, Environment, Publish, Pull, Relist, Tick, RunNow, RunForSource,
           Begin, RunStep, FetchPage, DiffRow, PageDone, CacheHit, ProductDone,
           NothingCollected, FullRunFails, DetectSource, SaveItem, SaveFails, SaveDone,
           Announce, Report, SourceDone, Fault, FetchFails, DiffFails, SessionExpires,
           RunDies, vendor, vars
  <1>5. q \in pulled' \/ Misdated(q)'
    BY <1>1, <1>4 DEF Misdated
  <1> QED BY <1>1, <1>3, <1>5 DEF Caused

\* The types of what carries the mark.
LEMMA MarkTypes ==
  ASSUME run \in Runs
  PROVE  /\ \A p \in run.page : <<run.src, p>> \in Rows
         /\ \A u \in Urls : \A p \in run.cache[u].items : <<run.cache[u].writer, p>> \in Rows
         /\ \A it \in run.items \cup run.all : it[1] \in Rows
PROOF
  BY DEF Runs, CacheEntry, Items, Rows

\* No page, cache entry or item appears.
LEMMA QuietMarks ==
  ASSUME CInv, SilenceInv, [Next]_vars, silenced' = silenced,
         run'.silent => \/ run'.page = {}
                        \/ run.silent /\ run'.page = run.page /\ run'.src = run.src,
         \A u \in Urls : run'.cache[u] = run.cache[u] \/ ~run'.cache[u].silent,
         run'.items \cup run'.all \subseteq run.items \cup run.all
  PROVE  SilenceInv'
PROOF
  <1>0. run \in Runs /\ silenced \subseteq Rows
    BY Parts DEF Sound, Counters
  <1>1. SilenceHasCause'
    BY <1>0, CausedStays DEF SilenceInv, SilenceHasCause
  <1>2. ASSUME run'.silent, NEW p \in run'.page PROVE Caused(<<run.src, p>>)'
    <2>1. run.silent /\ p \in run.page /\ run'.src = run.src
      BY <1>2
    <2>2. PICK r : r = <<run.src, p>>
      OBVIOUS
    <2>3. r \in Rows /\ Caused(r)
      BY <1>0, <2>1, <2>2, MarkTypes DEF SilenceInv, MarksHaveCause
    <2>4. Caused(r)'
      BY <2>3, CausedStays
    <2> QED BY <2>1, <2>2, <2>4 DEF Caused
  <1>3. ASSUME NEW u \in Urls, run'.cache[u].silent, NEW p \in run'.cache[u].items
        PROVE  Caused(<<run.cache[u].writer, p>>)'
    <2>1. run'.cache[u] = run.cache[u]
      BY <1>3
    <2>2. PICK r : r = <<run.cache[u].writer, p>>
      OBVIOUS
    <2>3. r \in Rows /\ Caused(r)
      BY <1>0, <1>3, <2>1, <2>2, MarkTypes DEF SilenceInv, MarksHaveCause
    <2>4. Caused(r)'
      BY <2>3, CausedStays
    <2> QED BY <2>1, <2>2, <2>4 DEF Caused
  <1>4. ASSUME NEW it \in run'.items \cup run'.all, it[2] PROVE Caused(it[1])'
    <2>1. it[1] \in Rows /\ Caused(it[1])
      BY <1>0, <1>4, MarkTypes DEF SilenceInv, MarksHaveCause
    <2> QED BY <2>1, CausedStays
  <1>5. MarksHaveCause'
    BY <1>2, <1>3, <1>4 DEF MarksHaveCause
  <1> QED BY <1>1, <1>5 DEF SilenceInv

\* The page is read: it is marked if some row of its product and URL is withdrawn.
LEMMA FetchMarks ==
  ASSUME CInv, SilenceInv, [Next]_vars, FetchPage
  PROVE  SilenceInv'
PROOF
  <1> DEFINE u == Head(run.urls)
  <1>0. Table /\ run \in Runs
    BY Parts DEF Sound
  <1>1. /\ run'.page \subseteq ListedOn(u) /\ run'.silent = Resurrects(run.src, u)
        /\ run'.cache = run.cache /\ run'.src = run.src /\ KeepsItems(run', run)
        /\ UNCHANGED <<known, pulled, status, silenced>>
    BY <1>0, FetchFields DEF FetchPage, vendor, db, events, KeepsProduct
  <1>2. \A r : Caused(r)' <=> Caused(r)
    BY <1>1 DEF Caused, Misdated
  <1>3. ASSUME run'.silent, NEW p \in run'.page PROVE Caused(<<run.src, p>>)'
    <2>1. PICK q \in Packages : UrlOf[q] = u /\ status[<<run.src, q>>] = "withdrawn"
      BY <1>1, <1>3 DEF Resurrects, WithdrawnOn
    <2>2. q \in pulled \/ Misdated(q)
      BY <1>0, <2>1 DEF Table, NoFalseWithdrawal, Runs
    <2>3. UrlOf[p] = u
      BY <1>1 DEF ListedOn
    <2>4. Caused(<<run.src, p>>)
      BY <2>1, <2>2, <2>3 DEF Caused
    <2>5. PICK r : r = <<run.src, p>>
      OBVIOUS
    <2>6. Caused(r)'
      BY <1>2, <2>4, <2>5
    <2> QED BY <1>1, <2>5, <2>6 DEF Caused
  <1>4. ASSUME NEW v \in Urls, run'.cache[v].silent, NEW p \in run'.cache[v].items
        PROVE  Caused(<<run.cache[v].writer, p>>)'
    <2>1. PICK r : r = <<run.cache[v].writer, p>>
      OBVIOUS
    <2>2. Caused(r)
      BY <1>1, <1>4, <2>1 DEF SilenceInv, MarksHaveCause
    <2>3. Caused(r)'
      BY <1>2, <2>2
    <2> QED BY <1>1, <2>1, <2>3 DEF Caused
  <1>5. ASSUME NEW it \in run'.items \cup run'.all, it[2] PROVE Caused(it[1])'
    <2>1. Caused(it[1])
      BY <1>1, <1>5 DEF SilenceInv, MarksHaveCause, KeepsItems
    <2> QED BY <1>2, <2>1
  <1>6. MarksHaveCause'
    BY <1>3, <1>4, <1>5 DEF MarksHaveCause
  <1>7. SilenceHasCause'
    BY <1>1, <1>2 DEF SilenceInv, SilenceHasCause
  <1> QED BY <1>6, <1>7 DEF SilenceInv

\* The mark goes with the page into the cache and to the items.
LEMMA PageDoneMarks ==
  ASSUME CInv, SilenceInv, [Next]_vars, PageDone
  PROVE  SilenceInv'
PROOF
  <1> DEFINE u == Head(run.urls)
             entry == [items |-> run.page, writer |-> run.src, silent |-> run.silent,
                       filled |-> TRUE]
             its == ({run.src} \X run.page) \X {run.silent}
  <1>0. run \in Runs
    BY Parts DEF Sound
  <1>1. /\ ~run'.silent /\ run'.cache = [run.cache EXCEPT ![u] = entry]
        /\ run'.items = run.items \cup its /\ run'.all = run.all
        /\ UNCHANGED <<known, pulled, status, silenced>>
    BY <1>0, PageDoneFields DEF PageDone, vendor, db, events
  <1>2. \A r : Caused(r)' <=> Caused(r)
    BY <1>1 DEF Caused, Misdated
  <1>3. ASSUME NEW v \in Urls, run'.cache[v].silent, NEW p \in run'.cache[v].items
        PROVE  Caused(<<run.cache[v].writer, p>>)'
    <2>0. run.cache \in [Urls -> CacheEntry]
      BY <1>0 DEF Runs
    <2>1. PICK r : r = <<run'.cache[v].writer, p>>
      OBVIOUS
    <2>2. CASE v = u
      <3>1. run'.cache[v] = entry
        BY <1>1, <2>0, <2>2
      <3>2. run.silent /\ p \in run.page /\ r = <<run.src, p>>
        BY <1>3, <2>1, <3>1
      <3>3. Caused(r)'
        BY <1>2, <3>2 DEF SilenceInv, MarksHaveCause
      <3> QED BY <2>1, <3>3 DEF Caused
    <2>3. CASE v # u
      <3>1. run'.cache[v] = run.cache[v]
        BY <1>1, <2>0, <2>3
      <3>2. Caused(r)'
        BY <1>2, <1>3, <2>1, <3>1 DEF SilenceInv, MarksHaveCause
      <3> QED BY <2>1, <3>2 DEF Caused
    <2> QED BY <2>2, <2>3
  <1>4. ASSUME NEW it \in run'.items \cup run'.all, it[2] PROVE Caused(it[1])'
    <2>1. CASE it \in run.items \cup run.all
      BY <1>2, <1>4, <2>1 DEF SilenceInv, MarksHaveCause
    <2>2. CASE it \in its
      BY <1>2, <1>4, <2>2 DEF SilenceInv, MarksHaveCause
    <2> QED BY <1>1, <2>1, <2>2
  <1>5. MarksHaveCause'
    BY <1>1, <1>3, <1>4 DEF MarksHaveCause
  <1>6. SilenceHasCause'
    BY <1>1, <1>2 DEF SilenceInv, SilenceHasCause
  <1> QED BY <1>5, <1>6 DEF SilenceInv

\* Items from the cache have the mark of the page they come from.
LEMMA CacheHitMarks ==
  ASSUME CInv, SilenceInv, [Next]_vars, CacheHit
  PROVE  SilenceInv'
PROOF
  <1> DEFINE u == Head(run.urls)
             e == run.cache[u]
             its == ({e.writer} \X e.items) \X {e.silent}
  <1>0. run \in Runs
    BY Parts DEF Sound
  <1>1. /\ run'.items \subseteq run.items \cup its /\ run'.all = run.all
        /\ run'.cache = run.cache /\ KeepsProduct(run', run) /\ KeepsPage(run', run)
        /\ UNCHANGED <<known, pulled, status, silenced>> /\ run.urls # <<>>
    BY <1>0, CacheHitFields DEF CacheHit, vendor, db, events
  <1>2. u \in Urls
    BY <1>0, <1>1 DEF Runs
  <1>3. \A r : Caused(r)' <=> Caused(r)
    BY <1>1 DEF Caused, Misdated
  <1>4. ASSUME NEW it \in run'.items \cup run'.all, it[2] PROVE Caused(it[1])'
    <2>1. CASE it \in run.items \cup run.all
      BY <1>3, <1>4, <2>1 DEF SilenceInv, MarksHaveCause
    <2>2. CASE it \in its
      BY <1>2, <1>3, <1>4, <2>2 DEF SilenceInv, MarksHaveCause
    <2> QED BY <1>1, <2>1, <2>2
  <1>5. MarksHaveCause'
    <2>1. ASSUME run'.silent, NEW p \in run'.page PROVE Caused(<<run.src, p>>)'
      BY <1>1, <1>3, <2>1 DEF SilenceInv, MarksHaveCause, KeepsPage, KeepsProduct
    <2>2. ASSUME NEW v \in Urls, run'.cache[v].silent, NEW p \in run'.cache[v].items
          PROVE  Caused(<<run.cache[v].writer, p>>)'
      BY <1>1, <1>3, <2>2 DEF SilenceInv, MarksHaveCause
    <2> QED BY <1>4, <2>1, <2>2 DEF MarksHaveCause
  <1>6. SilenceHasCause'
    BY <1>1, <1>3 DEF SilenceInv, SilenceHasCause
  <1> QED BY <1>5, <1>6 DEF SilenceInv

\* A package is inserted silently only from a marked item.
LEMMA SaveMarks ==
  ASSUME CInv, SilenceInv, PhasesAreClean, [Next]_vars,
         NEW it \in run.items, SaveItem(it) \/ SaveFails(it)
  PROVE  SilenceInv'
PROOF
  <1>0. run \in Runs /\ silenced \subseteq Rows
    BY Parts DEF Sound, Counters
  <1>1. /\ run.phase = "save" /\ run'.items \subseteq run.items /\ run'.all = run.all
        /\ run'.page = run.page /\ run'.cache = run.cache
    BY <1>0, SaveFields
  <1>2. run'.page = {}
    BY <1>1 DEF PhasesAreClean
  <1>3. ASSUME NEW r \in silenced' PROVE r \in silenced \/ (r = it[1] /\ it[2])
    <2>1. CASE SaveSnapshot(it)
      BY <1>3, <2>1 DEF SaveSnapshot
    <2>2. CASE UNCHANGED silenced
      BY <1>3, <2>2
    <2> QED BY <1>0, <2>1, <2>2, SaveFields
  <1>4. ASSUME NEW r \in silenced' PROVE Caused(r)'
    <2>1. r \in Rows /\ Caused(r)
      BY <1>0, <1>3, MarkTypes DEF SilenceInv, SilenceHasCause, MarksHaveCause
    <2> QED BY <2>1, CausedStays
  <1>5. ASSUME NEW u \in Urls, run'.cache[u].silent, NEW p \in run'.cache[u].items
        PROVE  Caused(<<run.cache[u].writer, p>>)'
    <2>1. PICK r : r = <<run.cache[u].writer, p>>
      OBVIOUS
    <2>2. r \in Rows /\ Caused(r)
      BY <1>0, <1>1, <1>5, <2>1, MarkTypes DEF SilenceInv, MarksHaveCause
    <2>3. Caused(r)'
      BY <2>2, CausedStays
    <2> QED BY <1>1, <2>1, <2>3 DEF Caused
  <1>6. ASSUME NEW x \in run'.items \cup run'.all, x[2] PROVE Caused(x[1])'
    <2>1. x[1] \in Rows /\ Caused(x[1])
      BY <1>0, <1>1, <1>6, MarkTypes DEF SilenceInv, MarksHaveCause
    <2> QED BY <2>1, CausedStays
  <1>7. ASSUME run'.silent, NEW p \in run'.page PROVE Caused(<<run.src, p>>)'
    BY <1>2, <1>7
  <1>8. MarksHaveCause'
    BY <1>5, <1>6, <1>7 DEF MarksHaveCause
  <1> QED BY <1>4, <1>8 DEF SilenceInv, SilenceHasCause

\* Every step keeps a cause behind every mark and every silence.
LEMMA SilenceStep ==
  ASSUME CInv, PhasesAreClean, SilenceInv, [Next]_vars
  PROVE  SilenceInv'
PROOF
  <1>0. run \in Runs
    BY Parts DEF Sound
  <1>1. CASE UNCHANGED <<run, silenced>>
    BY <1>1, QuietMarks
  <1>2. CASE RunNow \/ RunForSource
    BY <1>2, BeginFields, IdleHolds, QuietMarks DEF KeepsPage, KeepsItems, events
  <1>3. ASSUME NEW p \in Packages, DiffRow(p) PROVE SilenceInv'
    BY <1>0, <1>3, DiffFields, QuietMarks DEF DiffRow, events, KeepsItems, KeepsProduct
  <1>4. CASE FetchFails \/ DiffFails
    <2>1. run'.page = {}
      BY <1>0, <1>4, PageFailsFields DEF PhasesAreClean
    <2>2. run'.cache = run.cache /\ KeepsItems(run', run) /\ UNCHANGED silenced
      BY <1>0, <1>4, PageFailsFields DEF FetchFails, DiffFails, events
    <2> QED BY <2>1, <2>2, QuietMarks DEF KeepsItems
  <1>5. ASSUME run' = IdleRun, UNCHANGED silenced PROVE SilenceInv'
    BY <1>5, IdleHolds, QuietMarks
  <1>6. ASSUME NEW items, NEW gone, TurnsFrom(run, run', items, gone),
               items \subseteq run.items, UNCHANGED silenced
        PROVE  SilenceInv'
    <2>1. run'.page = {}
      BY <1>6 DEF PhasesAreClean, TurnsFrom, KeepsPage
    <2>2. /\ \A u \in Urls : run'.cache[u] = run.cache[u] \/ ~run'.cache[u].silent
          /\ run'.items \cup run'.all \subseteq run.items \cup run.all
      BY <1>6, IdleHolds DEF TurnsFrom
    <2> QED BY <1>6, <2>1, <2>2, QuietMarks
  <1>7. CASE ProductDone
    <2>1. PICK items, gone : items = run.items /\ gone = run.gone
      OBVIOUS
    <2>2. TurnsFrom(run, run', items, gone)
      BY <1>0, <1>7, <2>1, ProductDoneFields
    <2> QED BY <1>6, <1>7, <2>1, <2>2 DEF ProductDone, events
  <1>8. CASE SessionExpires
    <2>1. UNCHANGED silenced
      BY <1>8 DEF SessionExpires
    <2>2. CASE KeepsPage(run', run) /\ KeepsProduct(run', run) /\ run'.cache = run.cache
               /\ run'.items = {} /\ run'.all = run.all
      BY <2>1, <2>2, QuietMarks DEF KeepsPage, KeepsProduct
    <2> QED BY <1>0, <1>5, <1>6, <1>8, <2>1, <2>2, ExpiresFields
  <1>9. CASE NothingCollected \/ FullRunFails \/ RunDies
    BY <1>5, <1>9 DEF NothingCollected, FullRunFails, RunDies
  <1>10. ASSUME NEW allGone, NextSource(run, run', allGone), UNCHANGED silenced,
                run.phase \in {"detect", "route"}
         PROVE  SilenceInv'
    <2>1. run.page = {}
      BY <1>10 DEF PhasesAreClean
    <2>2. CASE run' # IdleRun
      BY <1>10, <2>1, <2>2, QuietMarks DEF NextSource
    <2> QED BY <1>5, <1>10, <2>2
  <1>11. CASE DetectSource
    <2>1. run.phase = "detect" /\ run.page = {} /\ UNCHANGED silenced
      BY <1>0, <1>11, DetectFields DEF DetectSource, PhasesAreClean
    <2>2. CASE run'.phase = "save"
      <3>1. /\ run' = IdleRun \/ (run'.page = {} /\ run'.cache = run.cache)
            /\ run'.items \cup run'.all \subseteq run.items \cup run.all
        BY <1>0, <1>11, <2>1, <2>2, DetectFields, IdleHolds DEF NextSource
      <3> QED BY <1>5, <2>1, <3>1, QuietMarks
    <2>3. CASE run'.phase # "save"
      <3>1. PICK g : NextSource(run, run', g)
        BY <1>0, <1>11, <2>3, DetectFields
      <3> QED BY <1>10, <2>1, <3>1
    <2> QED BY <2>2, <2>3
  <1>12. CASE SaveDone
    <2>1. run.phase = "save" /\ run.page = {} /\ UNCHANGED silenced
      BY <1>0, <1>12, SaveDoneFields DEF SaveDone, PhasesAreClean
    <2> QED BY <1>0, <1>5, <1>12, <2>1, SaveDoneFields, QuietMarks DEF KeepsItems
  <1>13. CASE SourceDone
    <2>1. PICK g : g = run.allGone
      OBVIOUS
    <2> QED BY <1>0, <1>10, <1>13, <2>1, SourceDoneFields DEF SourceDone, events
  <1>14. ASSUME NEW r \in Rows, Announce(r) \/ Report(r) PROVE SilenceInv'
    <2>1. run.page = {} /\ UNCHANGED silenced
      BY <1>0, <1>14, RouteFields DEF Announce, Report, PhasesAreClean
    <2> QED BY <1>0, <1>14, <2>1, RouteFields, QuietMarks DEF KeepsItems
  <1> QED BY <1>1, <1>2, <1>3, <1>4, <1>7, <1>8, <1>9, <1>11, <1>12, <1>13, <1>14,
             FetchMarks, PageDoneMarks, CacheHitMarks, SaveMarks
          DEF Next, Environment, Publish, Pull, Relist, Tick, RunStep, Fault, vars, events

------------------------------------------------------------------------------
(***************************************************************************)
(* The pages that were read, and the table.                                *)
(***************************************************************************)
\* Pages are forgotten or kept as they are.
PagesStay == \A s \in Sources, u \in Urls : mirror'[<<s, u>>] \in {{}, mirror[<<s, u>>]}

\* A mirror that is thrown away holds no page.
LEMMA BlankStays ==
  ASSUME mirror' = Blank
  PROVE  PagesStay /\ \A s \in Sources, u \in Urls : mirror'[<<s, u>>] = {}
PROOF
  <1>1. ASSUME NEW s \in Sources, NEW u \in Urls PROVE Blank[<<s, u>>] = {}
    BY DEF Blank
  <1> QED BY <1>1 DEF PagesStay

\* No row changes and nothing that is to be saved is dropped.
LEMMA RecordedStays ==
  ASSUME PagesAreRecorded, PagesStay, UNCHANGED status,
         \A r : ToSave(r) => ToSave(r)'
  PROVE  PagesAreRecorded'
PROOF
  <1>1. ASSUME NEW s \in Sources, NEW u \in Urls, mirror'[<<s, u>>] # {}
        PROVE  mirror'[<<s, u>>] = mirror[<<s, u>>] /\ mirror[<<s, u>>] # {}
    BY <1>1 DEF PagesStay
  <1>2. ASSUME NEW s \in Sources, NEW u \in Urls, mirror'[<<s, u>>] # {},
               NEW p \in mirror'[<<s, u>>]
        PROVE  /\ UrlOf[p] = u
               /\ status'[<<s, p>>] \in {"active", "withdrawn"} \/ ToSave(<<s, p>>)'
    <2>1. UrlOf[p] = u /\ (status[<<s, p>>] \in {"active", "withdrawn"} \/ ToSave(<<s, p>>))
      BY <1>1, <1>2 DEF PagesAreRecorded
    <2>2. CASE ToSave(<<s, p>>)
      <3>1. ToSave(<<s, p>>)'
        BY <2>2
      <3> QED BY <2>1, <3>1
    <2> QED BY <2>1, <2>2
  <1>3. ASSUME NEW s \in Sources, NEW u \in Urls, mirror'[<<s, u>>] # {},
               NEW p \in Packages, UrlOf[p] = u, status'[<<s, p>>] = "active"
        PROVE  p \in mirror'[<<s, u>>]
    BY <1>1, <1>3 DEF PagesAreRecorded
  <1> QED BY <1>2, <1>3 DEF PagesAreRecorded

\* No item appears, and the cache changes only between the phases.
LEMMA OfPagesStays ==
  ASSUME run \in Runs, ItemsAreOfPages, PagesStay,
         run'.items \cup run'.all \subseteq run.items \cup run.all,
         Collecting' => /\ Collecting /\ run'.cache = run.cache
                        /\ ToDetect \subseteq ToDetect'
  PROVE  ItemsAreOfPages'
PROOF
  <1>1. ASSUME NEW it \in run'.items \cup run'.all
        PROVE  LET seen == mirror'[<<it[1][1], UrlOf[it[1][2]]>>] IN
               seen = {} \/ it[1][2] \in seen
    <2>1. it[1] \in Rows /\ it \in run.items \cup run.all
      BY MarkTypes
    <2>2. it[1][1] \in Sources /\ UrlOf[it[1][2]] \in Urls
      BY <2>1 DEF Rows, Urls
    <2> QED BY <2>1, <2>2 DEF ItemsAreOfPages, PagesStay
  <1>2. ASSUME Collecting', NEW it \in run'.items \cup run'.all
        PROVE  run'.cache[UrlOf[it[1][2]]].filled /\ it[1][1] \in ToDetect'
    BY <1>2 DEF ItemsAreOfPages
  <1>3. ASSUME Collecting', NEW u \in Urls, run'.cache[u].filled
        PROVE  LET e == run'.cache[u] IN
               /\ e.writer \in ToDetect'
               /\ \A p \in e.items : UrlOf[p] = u
               /\ mirror'[<<e.writer, u>>] \in {{}, e.items}
    <2>1. /\ run'.cache[u] = run.cache[u] /\ run.cache[u].writer \in ToDetect
          /\ \A p \in run.cache[u].items : UrlOf[p] = u
          /\ mirror[<<run.cache[u].writer, u>>] \in {{}, run.cache[u].items}
      BY <1>3 DEF ItemsAreOfPages
    <2>2. run.cache[u].writer \in Sources
      BY DEF Runs, CacheEntry
    <2>3. mirror'[<<run.cache[u].writer, u>>] \in {{}, mirror[<<run.cache[u].writer, u>>]}
      BY <2>2 DEF PagesStay
    <2> QED BY <1>3, <2>1, <2>3
  <1> QED BY <1>1, <1>2, <1>3 DEF ItemsAreOfPages

\* A step that reads no page and saves no item.
LEMMA QuietMirror ==
  ASSUME run \in Runs, MirrorInv,
         \/ mirror' = Blank
         \/ /\ UNCHANGED <<status, mirror>>
            /\ \A r : ToSave(r) => ToSave(r)',
         run'.items \cup run'.all \subseteq run.items \cup run.all,
         run'.phase # "diff",
         Collecting' => /\ Collecting /\ run'.cache = run.cache
                        /\ ToDetect \subseteq ToDetect'
  PROVE  MirrorInv'
PROOF
  <1>1. PagesStay
    BY BlankStays DEF PagesStay
  <1>2. ItemsAreOfPages'
    BY <1>1, OfPagesStays DEF MirrorInv
  <1>3. PagesAreRecorded'
    <2>1. CASE mirror' = Blank
      BY <2>1, BlankStays DEF PagesAreRecorded
    <2>2. CASE UNCHANGED <<status, mirror>> /\ \A r : ToSave(r) => ToSave(r)'
      BY <1>1, <2>2, RecordedStays DEF MirrorInv
    <2> QED BY <2>1, <2>2
  <1>4. PageIsCompared'
    BY DEF PageIsCompared
  <1> QED BY <1>2, <1>3, <1>4 DEF MirrorInv

\* A run starts with nothing collected and an empty cache.
LEMMA BeginMirror ==
  ASSUME run \in Runs, MirrorInv, PhasesAreClean, RunNow \/ RunForSource
  PROVE  MirrorInv'
PROOF
  <1>1. /\ run = IdleRun /\ run'.phase = "fetch" /\ run'.items = {} /\ run'.all = {}
        /\ UNCHANGED <<status, mirror>> /\ \A u \in Urls : ~run'.cache[u].filled
    BY BeginFields, IdleHolds DEF PhasesAreClean, KeepsItems, db
  <1>2. \A r : ~ToSave(r)
    BY <1>1, IdleHolds DEF ToSave
  <1>3. PagesStay
    BY <1>1 DEF PagesStay
  <1>4. PagesAreRecorded'
    BY <1>1, <1>2, <1>3, RecordedStays DEF MirrorInv
  <1>5. ItemsAreOfPages'
    BY <1>1 DEF ItemsAreOfPages
  <1> QED BY <1>1, <1>4, <1>5 DEF MirrorInv, PageIsCompared

\* A page is read: from here until it is done it counts as not processed.
LEMMA FetchMirror ==
  ASSUME CInv, MirrorInv, FetchPage
  PROVE  MirrorInv'
PROOF
  <1> DEFINE s == run.src
             u == Head(run.urls)
  <1>0. run \in Runs /\ mirror \in [Sources \X Urls -> SUBSET Packages]
    BY Parts DEF Sound, Counters
  <1>1. /\ run.phase = "fetch" /\ run'.phase = "diff" /\ ~run.cache[u].filled
        /\ run'.urls = run.urls /\ run'.cache = run.cache
        /\ KeepsProduct(run', run) /\ KeepsItems(run', run)
        /\ run'.page \subseteq ListedOn(u)
        /\ run'.missing = IF run'.page = {} THEN {}
              ELSE {p \in Packages \ run'.page : /\ UrlOf[p] = u
                                                 /\ status[<<s, p>>] = "active"}
    BY <1>0, FetchFields
  <1>2. /\ mirror' = [mirror EXCEPT ![<<s, u>>] = {}] /\ UNCHANGED status
        /\ run.urls # <<>>
    BY DEF FetchPage, Uncached, AtUrl, db
  <1>3. s \in Sources /\ u \in Urls
    BY <1>0, <1>2 DEF Runs
  <1> HIDE DEF s, u
  <1>4. PagesStay /\ mirror'[<<s, u>>] = {}
    BY <1>0, <1>2, <1>3 DEF PagesStay
  <1>5. ToDetect' = ToDetect
    BY <1>1, SameComing
  <1>6. \A r : ToSave(r) => ToSave(r)'
    BY <1>1, <1>5 DEF ToSave, KeepsItems
  <1>7. PagesAreRecorded'
    BY <1>2, <1>4, <1>6, RecordedStays DEF MirrorInv
  <1>8. ItemsAreOfPages'
    <2>1. run'.items \cup run'.all \subseteq run.items \cup run.all /\ Collecting
      BY <1>1 DEF KeepsItems, Collecting
    <2> QED BY <1>0, <1>1, <1>4, <1>5, <2>1, OfPagesStays DEF MirrorInv
  <1>9. PageIsCompared'
    <2>1. \A p \in run'.page \cup run'.missing : UrlOf[p] = u
      BY <1>1 DEF ListedOn
    <2>2. run'.page # {} => \A p \in Packages :
             UrlOf[p] = u /\ status[<<s, p>>] = "active" => p \in run'.page \cup run'.missing
      BY <1>1
    <2>3. Head(run'.urls) = u /\ run'.src = s
      BY <1>1 DEF u, s, KeepsProduct
    <2>4. ~run'.cache[u].filled
      BY <1>1
    <2> QED BY <1>2, <1>4, <2>1, <2>2, <2>3, <2>4 DEF PageIsCompared
  <1> QED BY <1>7, <1>8, <1>9 DEF MirrorInv

\* An old row is settled: it is of the page being compared, and no other.
LEMMA DiffMirror ==
  ASSUME CInv, MirrorInv, NEW p \in Packages, DiffRow(p)
  PROVE  MirrorInv'
PROOF
  <1> DEFINE s == run.src
             u == Head(run.urls)
  <1>0. Table /\ Sound(run) /\ run \in Runs
    BY Parts DEF Sound
  <1>1. /\ run.phase = "diff" /\ run'.phase = "diff" /\ p \in run.missing
        /\ run'.missing = run.missing \ {p} /\ run'.page = run.page
        /\ run'.urls = run.urls /\ run'.cache = run.cache
        /\ KeepsProduct(run', run) /\ KeepsItems(run', run)
    BY <1>0, DiffFields
  <1>2. PICK st \in {"superseded", "withdrawn"} :
           status' = [status EXCEPT ![<<s, p>>] = st]
    BY <1>0, DiffFields
  <1>3. UNCHANGED mirror
    BY DEF DiffRow
  <1>4. s \in Sources /\ u \in Urls /\ UrlOf[p] = u /\ <<s, p>> \in Rows
    BY <1>0, <1>1 DEF Runs, Sound, MirrorInv, PageIsCompared, Rows
  <1>5. /\ mirror[<<s, u>>] = {} /\ ~run.cache[u].filled
        /\ \A q \in run.page \cup run.missing : UrlOf[q] = u
        /\ run.page # {} => \A q \in Packages :
              UrlOf[q] = u /\ status[<<s, q>>] = "active" => q \in run.page \cup run.missing
    BY <1>1 DEF MirrorInv, PageIsCompared
  <1>6. Head(run'.urls) = u /\ run'.src = s
    BY <1>1 DEF KeepsProduct
  <1> HIDE DEF s, u
  <1>7. \A r \in Rows : r # <<s, p>> => status'[r] = status[r]
    BY <1>0, <1>2 DEF Table
  <1>8. status'[<<s, p>>] # "active"
    BY <1>0, <1>2, <1>4 DEF Table
  <1>9. ToDetect' = ToDetect
    BY <1>1, SameComing
  <1>10. \A r : ToSave(r) => ToSave(r)'
    BY <1>1, <1>9 DEF ToSave, KeepsItems
  <1>11. PagesAreRecorded'
    <2>1. ASSUME NEW t \in Sources, NEW v \in Urls, mirror[<<t, v>>] # {},
                 NEW q \in mirror[<<t, v>>]
          PROVE  /\ UrlOf[q] = v
                 /\ status'[<<t, q>>] \in {"active", "withdrawn"} \/ ToSave(<<t, q>>)'
      <3>1. /\ UrlOf[q] = v
            /\ status[<<t, q>>] \in {"active", "withdrawn"} \/ ToSave(<<t, q>>)
        BY <2>1 DEF MirrorInv, PagesAreRecorded
      <3>2. q \in Packages
        BY <2>1, Parts DEF Counters
      <3>3. <<t, q>> \in Rows /\ <<t, q>> # <<s, p>>
        BY <1>4, <1>5, <2>1, <3>1, <3>2 DEF Rows
      <3> QED BY <1>7, <1>10, <3>1, <3>3
    <2>2. ASSUME NEW t \in Sources, NEW v \in Urls, mirror[<<t, v>>] # {},
                 NEW q \in Packages, UrlOf[q] = v, status'[<<t, q>>] = "active"
          PROVE  q \in mirror[<<t, v>>]
      <3>1. <<t, q>> \in Rows /\ <<t, q>> # <<s, p>>
        BY <1>8, <2>2 DEF Rows
      <3>2. status[<<t, q>>] = "active"
        BY <1>7, <2>2, <3>1
      <3> QED BY <2>2, <3>2 DEF MirrorInv, PagesAreRecorded
    <2> QED BY <1>3, <2>1, <2>2 DEF PagesAreRecorded
  <1>12. ItemsAreOfPages'
    <2>1. run'.items \cup run'.all \subseteq run.items \cup run.all /\ Collecting
      BY <1>1 DEF KeepsItems, Collecting
    <2>2. PagesStay
      BY <1>3 DEF PagesStay
    <2> QED BY <1>0, <1>1, <1>9, <2>1, <2>2, OfPagesStays DEF MirrorInv
  <1>13. PageIsCompared'
    <2>1. \A q \in Packages : status'[<<s, q>>] = "active" =>
             q # p /\ status[<<s, q>>] = "active"
      BY <1>4, <1>7, <1>8 DEF Rows
    <2>2. \A q \in run'.page \cup run'.missing : UrlOf[q] = u
      BY <1>1, <1>5
    <2>3. run'.page # {} => \A q \in Packages :
             UrlOf[q] = u /\ status'[<<s, q>>] = "active" => q \in run'.page \cup run'.missing
      BY <1>1, <1>5, <2>1
    <2> QED BY <1>1, <1>3, <1>5, <1>6, <2>2, <2>3 DEF PageIsCompared
  <1> QED BY <1>11, <1>12, <1>13 DEF MirrorInv

\* A page is done: it is what the product has read, and its items are to be saved.
LEMMA PageDoneMirror ==
  ASSUME CInv, MirrorInv, PageDone
  PROVE  MirrorInv'
PROOF
  <1> DEFINE s == run.src
             u == Head(run.urls)
             entry == [items |-> run.page, writer |-> s, silent |-> run.silent,
                       filled |-> TRUE]
             its == ({s} \X run.page) \X {run.silent}
  <1>0. /\ Table /\ Sound(run) /\ run \in Runs
        /\ mirror \in [Sources \X Urls -> SUBSET Packages]
    BY Parts DEF Sound, Counters
  <1>1. /\ run.phase = "diff" /\ run.missing = {} /\ run'.phase = "fetch"
        /\ run'.cache = [run.cache EXCEPT ![u] = entry]
        /\ run'.items = run.items \cup its /\ run'.all = run.all
        /\ KeepsProduct(run', run)
    BY <1>0, PageDoneFields
  <1>2. mirror' = [mirror EXCEPT ![<<s, u>>] = run.page] /\ UNCHANGED status
    BY DEF PageDone, db
  <1>3. s \in Sources /\ u \in Urls /\ run.page \subseteq Packages
    BY <1>0, <1>1 DEF Runs, Sound
  <1>4. /\ ~run.cache[u].filled
        /\ \A p \in run.page : UrlOf[p] = u
        /\ run.page # {} => \A p \in Packages :
              UrlOf[p] = u /\ status[<<s, p>>] = "active" => p \in run.page
    BY <1>1 DEF MirrorInv, PageIsCompared
  <1>5. s \in ToDetect /\ ToDetect' = ToDetect
    <2>1. ToDetect' = ToDetect
      BY <1>1, SameComing
    <2> QED BY <1>1, <1>3, <2>1 DEF ToDetect, Collecting
  <1>6. /\ mirror'[<<s, u>>] = run.page
        /\ \A t \in Sources, v \in Urls :
              t # s \/ v # u => mirror'[<<t, v>>] = mirror[<<t, v>>]
    BY <1>0, <1>2, <1>3
  <1>7. run'.cache[u] = entry /\ \A v \in Urls : v # u => run'.cache[v] = run.cache[v]
    <2>1. run.cache \in [Urls -> CacheEntry]
      BY <1>0 DEF Runs
    <2> HIDE DEF entry
    <2> QED BY <1>1, <1>3, <2>1
  <1>8. \A r : ToSave(r) => ToSave(r)'
    <2> HIDE DEF its
    <2> QED BY <1>1, <1>5 DEF ToSave
  <1>9. ASSUME NEW p \in run.page, NEW t, t = s PROVE ToSave(<<t, p>>)'
    <2>1. PICK it : it = <<<<t, p>>, run.silent>>
      OBVIOUS
    <2>2. it \in run'.items /\ it[1] = <<t, p>>
      BY <1>1, <1>9, <2>1
    <2> QED BY <2>2 DEF ToSave
  <1> HIDE DEF s, u
  <1>10. PagesAreRecorded'
    <2>1. ASSUME NEW t \in Sources, NEW v \in Urls, mirror'[<<t, v>>] # {},
                 NEW q \in mirror'[<<t, v>>]
          PROVE  /\ UrlOf[q] = v
                 /\ status'[<<t, q>>] \in {"active", "withdrawn"} \/ ToSave(<<t, q>>)'
      <3>1. CASE t = s /\ v = u
        BY <1>4, <1>6, <1>9, <2>1, <3>1
      <3>2. CASE t # s \/ v # u
        <4>1. mirror'[<<t, v>>] = mirror[<<t, v>>]
          BY <1>6, <3>2
        <4> QED BY <1>2, <1>8, <2>1, <4>1 DEF MirrorInv, PagesAreRecorded
      <3> QED BY <3>1, <3>2
    <2>2. ASSUME NEW t \in Sources, NEW v \in Urls, mirror'[<<t, v>>] # {},
                 NEW q \in Packages, UrlOf[q] = v, status'[<<t, q>>] = "active"
          PROVE  q \in mirror'[<<t, v>>]
      <3>1. CASE t = s /\ v = u
        BY <1>2, <1>4, <1>6, <2>2, <3>1
      <3>2. CASE t # s \/ v # u
        <4>1. mirror'[<<t, v>>] = mirror[<<t, v>>]
          BY <1>6, <3>2
        <4> QED BY <1>2, <2>2, <4>1 DEF MirrorInv, PagesAreRecorded
      <3> QED BY <3>1, <3>2
    <2> QED BY <2>1, <2>2 DEF PagesAreRecorded
  <1>11. ASSUME NEW it \in run'.items \cup run'.all
         PROVE  /\ LET seen == mirror'[<<it[1][1], UrlOf[it[1][2]]>>] IN
                   seen = {} \/ it[1][2] \in seen
                /\ run'.cache[UrlOf[it[1][2]]].filled /\ it[1][1] \in ToDetect
    <2>1. CASE it \in run.items \cup run.all
      <3>1. /\ run.cache[UrlOf[it[1][2]]].filled /\ it[1][1] \in ToDetect
            /\ LET seen == mirror[<<it[1][1], UrlOf[it[1][2]]>>] IN
               seen = {} \/ it[1][2] \in seen
        BY <1>1, <2>1 DEF MirrorInv, ItemsAreOfPages, Collecting
      <3>2. UrlOf[it[1][2]] # u /\ UrlOf[it[1][2]] \in Urls /\ it[1][1] \in Sources
        BY <1>0, <1>4, <2>1, <3>1, MarkTypes DEF Rows, Urls
      <3> HIDE DEF entry
      <3> QED BY <1>6, <1>7, <3>1, <3>2
    <2>2. CASE it \in its
      <3>1. it[1][1] = s /\ it[1][2] \in run.page
        BY <2>2
      <3>2. UrlOf[it[1][2]] = u
        BY <1>4, <3>1
      <3> QED BY <1>5, <1>6, <1>7, <3>1, <3>2
    <2> HIDE DEF its
    <2> QED BY <1>1, <2>1, <2>2
  <1>12. ASSUME NEW v \in Urls, run'.cache[v].filled
         PROVE  LET c == run'.cache[v] IN
                /\ c.writer \in ToDetect /\ \A p \in c.items : UrlOf[p] = v
                /\ mirror'[<<c.writer, v>>] \in {{}, c.items}
    <2>1. CASE v = u
      BY <1>4, <1>5, <1>6, <1>7, <2>1
    <2>2. CASE v # u
      <3> HIDE DEF entry
      <3>1. /\ run'.cache[v] = run.cache[v] /\ run.cache[v].writer \in ToDetect
            /\ \A p \in run.cache[v].items : UrlOf[p] = v
            /\ mirror[<<run.cache[v].writer, v>>] \in {{}, run.cache[v].items}
        BY <1>1, <1>7, <1>12, <2>2 DEF MirrorInv, ItemsAreOfPages, Collecting
      <3>2. mirror'[<<run.cache[v].writer, v>>] = mirror[<<run.cache[v].writer, v>>]
        BY <1>6, <2>2, <3>1 DEF ToDetect
      <3> QED BY <3>1, <3>2
    <2> QED BY <2>1, <2>2
  <1> HIDE DEF entry, its
  <1>13. ItemsAreOfPages'
    BY <1>5, <1>11, <1>12 DEF ItemsAreOfPages
  <1>14. PageIsCompared'
    BY <1>1 DEF PageIsCompared
  <1> QED BY <1>10, <1>13, <1>14 DEF MirrorInv

\* Items from the cache are of the page that their writer has read.
LEMMA CacheHitMirror ==
  ASSUME CInv, MirrorInv, CacheHit
  PROVE  MirrorInv'
PROOF
  <1> DEFINE u == Head(run.urls)
             e == run.cache[u]
             its == ({e.writer} \X e.items) \X {e.silent}
  <1>0. run \in Runs
    BY Parts DEF Sound
  <1>1. /\ run.phase = "fetch" /\ run.urls # <<>> /\ e.filled /\ run'.phase = "fetch"
        /\ run'.items \in {run.items, run.items \cup its} /\ run'.all = run.all
        /\ run'.cache = run.cache /\ KeepsProduct(run', run)
        /\ UNCHANGED <<status, mirror>>
    BY <1>0, CacheHitFields DEF CacheHit, db
  <1>2. u \in Urls
    BY <1>0, <1>1 DEF Runs
  <1>3. ToDetect' = ToDetect
    BY <1>1, SameComing
  <1>4. \A r : ToSave(r) => ToSave(r)'
    <2> HIDE DEF its
    <2> QED BY <1>1, <1>3 DEF ToSave
  <1>5. PagesAreRecorded'
    BY <1>1, <1>4, RecordedStays DEF MirrorInv, PagesStay
  <1>6. /\ e.writer \in ToDetect /\ \A p \in e.items : UrlOf[p] = u
        /\ mirror[<<e.writer, u>>] \in {{}, e.items}
    BY <1>1, <1>2 DEF MirrorInv, ItemsAreOfPages, Collecting
  <1>7. ASSUME NEW it \in run'.items \cup run'.all
        PROVE  LET seen == mirror[<<it[1][1], UrlOf[it[1][2]]>>] IN
               seen = {} \/ it[1][2] \in seen
    <2>1. CASE it \in run.items \cup run.all
      BY <2>1 DEF MirrorInv, ItemsAreOfPages
    <2>2. CASE it \in its
      <3>1. it[1][1] = e.writer /\ it[1][2] \in e.items
        BY <2>2
      <3> HIDE DEF u, e
      <3> QED BY <1>6, <3>1
    <2> QED BY <1>1, <2>1, <2>2
  <1>8. ASSUME NEW it \in run'.items \cup run'.all
        PROVE  run'.cache[UrlOf[it[1][2]]].filled /\ it[1][1] \in ToDetect'
    <2>1. CASE it \in run.items \cup run.all
      BY <1>1, <1>3, <2>1 DEF MirrorInv, ItemsAreOfPages, Collecting
    <2>2. CASE it \in its
      BY <1>1, <1>3, <1>6, <2>2
    <2> QED BY <1>1, <2>1, <2>2
  <1>9. ItemsAreOfPages'
    <2>1. ASSUME NEW v \in Urls, run'.cache[v].filled
          PROVE  LET c == run'.cache[v] IN
                 /\ c.writer \in ToDetect' /\ \A p \in c.items : UrlOf[p] = v
                 /\ mirror'[<<c.writer, v>>] \in {{}, c.items}
      BY <1>1, <1>3, <2>1 DEF MirrorInv, ItemsAreOfPages, Collecting
    <2> QED BY <1>1, <1>7, <1>8, <2>1 DEF ItemsAreOfPages
  <1> QED BY <1>1, <1>5, <1>9 DEF MirrorInv, PageIsCompared

\* A row that is saved without a fault is on the page its product has read.
LEMMA SaveMirror ==
  ASSUME CInv, MirrorInv, NEW it \in run.items, SaveItem(it) \/ SaveFails(it)
  PROVE  MirrorInv'
PROOF
  <1>0. /\ Table /\ run \in Runs /\ mirror \in [Sources \X Urls -> SUBSET Packages]
    BY Parts DEF Sound, Counters
  <1>1. /\ run.phase = "save" /\ run'.phase = "save"
        /\ run'.items = run.items \ {it} /\ run'.all = run.all
        /\ KeepsProduct(run', run)
        /\ mirror' = Blank \/ (SaveSnapshot(it) /\ UNCHANGED mirror)
    BY <1>0, SaveFields
  <1>2. ~Collecting' /\ run'.items \cup run'.all \subseteq run.items \cup run.all
    BY <1>1 DEF Collecting
  <1>3. CASE mirror' = Blank
    BY <1>0, <1>1, <1>2, <1>3, QuietMirror
  <1>4. CASE SaveSnapshot(it) /\ UNCHANGED mirror
    <2>1. it[1] \in Rows
      BY <1>0, MarkTypes
    <2>2. /\ \A r \in Rows : r # it[1] => status'[r] = status[r]
          /\ status'[it[1]] \in {"active", "withdrawn"}
      BY <1>0, <1>4, <2>1 DEF SaveSnapshot, Table
    <2>3. ToDetect' = ToDetect
      BY <1>1, SameComing
    <2>4. \A r : ToSave(r) /\ r # it[1] => ToSave(r)'
      BY <1>1, <2>3 DEF ToSave
    <2>5. ASSUME NEW s \in Sources, NEW u \in Urls, mirror[<<s, u>>] # {},
                 NEW p \in mirror[<<s, u>>]
          PROVE  /\ UrlOf[p] = u
                 /\ status'[<<s, p>>] \in {"active", "withdrawn"} \/ ToSave(<<s, p>>)'
      <3>1. /\ UrlOf[p] = u
            /\ status[<<s, p>>] \in {"active", "withdrawn"} \/ ToSave(<<s, p>>)
        BY <2>5 DEF MirrorInv, PagesAreRecorded
      <3>2. <<s, p>> \in Rows
        BY <1>0, <2>5 DEF Rows
      <3> QED BY <2>2, <2>4, <3>1, <3>2
    <2>6. ASSUME NEW s \in Sources, NEW u \in Urls, mirror[<<s, u>>] # {},
                 NEW p \in Packages, UrlOf[p] = u, status'[<<s, p>>] = "active"
          PROVE  p \in mirror[<<s, u>>]
      <3>1. CASE it[1] = <<s, p>>
        BY <2>6, <3>1 DEF MirrorInv, ItemsAreOfPages
      <3>2. CASE it[1] # <<s, p>>
        <4>1. <<s, p>> \in Rows
          BY DEF Rows
        <4> QED BY <2>2, <2>6, <3>2, <4>1 DEF MirrorInv, PagesAreRecorded
      <3> QED BY <3>1, <3>2
    <2>7. PagesAreRecorded'
      BY <1>4, <2>5, <2>6 DEF PagesAreRecorded
    <2>8. PagesStay
      BY <1>4 DEF PagesStay
    <2>9. ItemsAreOfPages'
      BY <1>0, <1>2, <2>8, OfPagesStays DEF MirrorInv
    <2> QED BY <1>1, <2>7, <2>9 DEF MirrorInv, PageIsCompared
  <1> QED BY <1>1, <1>3, <1>4

\* The product loop turns: the items of the product are to be saved by the detection
\* loop, which has yet to reach it.
LEMMA ProductMirror ==
  ASSUME CInv, PhasesAreClean, MirrorInv, ProductDone \/ SessionExpires
  PROVE  MirrorInv'
PROOF
  <1>0. run \in Runs
    BY Parts DEF Sound
  <1>1. run.phase = "fetch" /\ run.page = {}
    BY <1>0, ProductDoneFields, ExpiresFields DEF TurnsFrom, PhasesAreClean
  <1>2. ASSUME NEW items, NEW gone, TurnsFrom(run, run', items, gone),
               items \subseteq run.items
        PROVE  /\ run'.items \cup run'.all \subseteq run.items \cup run.all
               /\ run'.phase # "diff"
               /\ Collecting' => /\ Collecting /\ run'.cache = run.cache
                                 /\ ToDetect \subseteq ToDetect'
    <2>1. ToDetect \subseteq ToDetect'
      BY <1>0, <1>2, TurnComing
    <2> QED BY <1>1, <1>2, <2>1 DEF TurnsFrom, Collecting
  <1>3. CASE ProductDone
    <2>1. PICK items, gone : items = run.items /\ gone = run.gone
      OBVIOUS
    <2>2. TurnsFrom(run, run', items, gone) /\ UNCHANGED <<status, mirror>>
      BY <1>0, <1>3, <2>1, ProductDoneFields DEF ProductDone, db
    <2>3. ToDetect \subseteq ToDetect'
      BY <1>0, <2>2, TurnComing
    <2>4. \A x \in run.items : x[1][1] \in ToDetect
      BY <1>1 DEF MirrorInv, ItemsAreOfPages, Collecting
    <2>5. run'.all = run.all \cup run.items
      BY <2>1, <2>2 DEF TurnsFrom
    <2>6. \A r : ToSave(r) => ToSave(r)'
      BY <2>3, <2>4, <2>5 DEF ToSave
    <2> QED BY <1>0, <1>2, <2>1, <2>2, <2>6, QuietMirror
  <1>4. CASE SessionExpires
    <2>1. mirror' = Blank
      BY <1>0, <1>4, ExpiresFields
    <2>2. CASE run' = IdleRun
      BY <1>0, <2>1, <2>2, IdleHolds, QuietMirror DEF Collecting
    <2>3. CASE TurnsFrom(run, run', {}, {})
      BY <1>0, <1>2, <2>1, <2>3, QuietMirror
    <2>4. CASE /\ run'.phase = "fetch" /\ KeepsProduct(run', run)
               /\ run'.cache = run.cache /\ run'.items = {} /\ run'.all = run.all
      <3>1. ToDetect' = ToDetect
        BY <1>1, <2>4, SameComing
      <3> QED BY <1>0, <1>1, <2>1, <2>4, <3>1, QuietMirror DEF Collecting
    <2> QED BY <1>0, <1>4, <2>2, <2>3, <2>4, ExpiresFields
  <1> QED BY <1>3, <1>4

\* The detection loop turns: what is to be saved is of a product to come.
LEMMA NextMirror ==
  ASSUME run \in Runs, MirrorInv, NEW allGone, NextSource(run, run', allGone),
         UNCHANGED <<status, mirror>>, run.items = {},
         run.phase \notin {"fetch", "diff"},
         run.phase = "detect" => \A x \in run.all : x[1][1] # run.src
  PROVE  MirrorInv'
PROOF
  <1>1. Among(run.rest) \subseteq ToDetect' /\ (run' = IdleRun => Among(run.rest) = {})
    BY NextComing
  <1>2. \A r : ToSave(r) => ToSave(r)'
    <2>1. ASSUME NEW x \in run.all, x[1][1] \in ToDetect
          PROVE  x \in run'.all /\ x[1][1] \in ToDetect'
      <3>1. x[1][1] \in Among(run.rest)
        BY <2>1 DEF ToDetect, Collecting
      <3> QED BY <1>1, <3>1 DEF NextSource
    <2> QED BY <2>1 DEF ToSave
  <1>3. /\ run'.items \cup run'.all \subseteq run.items \cup run.all
        /\ run'.phase \notin {"fetch", "diff"}
    BY IdleHolds DEF NextSource
  <1> QED BY <1>2, <1>3, QuietMirror DEF Collecting

\* Every step keeps the pages and the table together.
LEMMA MirrorStep ==
  ASSUME CInv, PhasesAreClean, MirrorInv, [Next]_vars
  PROVE  MirrorInv'
PROOF
  <1>0. run \in Runs
    BY Parts DEF Sound
  <1>1. CASE UNCHANGED <<run, status, mirror>>
    <2>1. ToDetect' = ToDetect /\ (Collecting' <=> Collecting) /\ PagesStay
      BY <1>1 DEF ToDetect, Collecting, PagesStay
    <2>2. \A r : ToSave(r) => ToSave(r)'
      BY <1>1, <2>1 DEF ToSave
    <2>3. PagesAreRecorded'
      BY <1>1, <2>1, <2>2, RecordedStays DEF MirrorInv
    <2>4. ItemsAreOfPages'
      BY <1>0, <1>1, <2>1, OfPagesStays DEF MirrorInv
    <2>5. PageIsCompared'
      BY <1>1 DEF MirrorInv, PageIsCompared
    <2> QED BY <2>3, <2>4, <2>5 DEF MirrorInv
  <1>2. CASE RunNow \/ RunForSource
    BY <1>0, <1>2, BeginMirror
  <1>3. ASSUME run' = IdleRun, mirror' = Blank PROVE MirrorInv'
    BY <1>0, <1>3, IdleHolds, QuietMirror DEF Collecting
  <1>4. CASE FullRunFails \/ RunDies
    BY <1>3, <1>4 DEF FullRunFails, RunDies
  <1>5. CASE NothingCollected
    <2>1. /\ run' = IdleRun /\ UNCHANGED <<status, mirror>>
          /\ run.items = {} /\ run.all = {}
      BY <1>5 DEF NothingCollected, db, PhasesAreClean
    <2>2. \A r : ~ToSave(r)
      BY <2>1 DEF ToSave
    <2> QED BY <1>0, <2>1, <2>2, IdleHolds, QuietMirror DEF Collecting
  <1>6. CASE FetchFails \/ DiffFails
    <2>1. /\ run.phase \in {"fetch", "diff"} /\ run'.phase = "fetch" /\ mirror' = Blank
          /\ run'.cache = run.cache /\ KeepsProduct(run', run) /\ KeepsItems(run', run)
      BY <1>0, <1>6, PageFailsFields
    <2>2. ToDetect' = ToDetect
      BY <2>1, SameComing
    <2> QED BY <1>0, <2>1, <2>2, QuietMirror DEF Collecting, KeepsItems
  <1>7. CASE DetectSource
    <2> DEFINE its == {it \in run.all : it[1][1] = run.src}
    <2>1. /\ run.phase = "detect" /\ run.items = {} /\ UNCHANGED <<status, mirror>>
      BY <1>0, <1>7, DetectFields DEF DetectSource, db, PhasesAreClean
    <2>2. CASE run'.phase = "save"
      <3>1. /\ run'.items = its /\ run'.all = run.all /\ KeepsProduct(run', run)
        BY <1>0, <1>7, <2>2, DetectFields, IdleHolds DEF NextSource
      <3>2. Among(run.rest) \subseteq ToDetect'
        <4>1. run.rest \in Seq(Sources)
          BY <1>0 DEF Runs
        <4>2. Among(run.rest) \subseteq Sources
          BY <4>1 DEF Among
        <4> QED BY <3>1, <4>2 DEF ToDetect, KeepsProduct
      <3>3. ASSUME NEW x \in run.all, x[1][1] \in ToDetect
            PROVE  x \in run'.items \/ (x \in run'.all /\ x[1][1] \in ToDetect')
        BY <2>1, <3>1, <3>2, <3>3 DEF ToDetect, Collecting
      <3>4. \A r : ToSave(r) => ToSave(r)'
        BY <2>1, <3>1, <3>3 DEF ToSave
      <3>5. run'.items \cup run'.all \subseteq run.items \cup run.all
        BY <3>1
      <3> QED BY <1>0, <2>1, <2>2, <3>4, <3>5, QuietMirror DEF Collecting
    <2>3. CASE run'.phase # "save"
      <3>1. its = {} /\ NextSource(run, run', run.allGone \ {r \in run.allGone : r[1] = run.src})
        BY <1>0, <1>7, <2>3, DetectFields
      <3>2. PICK g : g = run.allGone \ {r \in run.allGone : r[1] = run.src}
        OBVIOUS
      <3> QED BY <1>0, <2>1, <3>1, <3>2, NextMirror
    <2> QED BY <2>2, <2>3
  <1>8. CASE SaveDone
    <2>1. UNCHANGED status /\ run.phase = "save"
      BY <1>0, <1>8, SaveDoneFields DEF SaveDone, db
    <2>2. CASE /\ run'.phase = "route" /\ KeepsItems(run', run) /\ KeepsProduct(run', run)
               /\ UNCHANGED mirror
      <3>1. ToDetect' = ToDetect
        BY <2>1, <2>2, SameComing
      <3>2. \A r : ToSave(r) => ToSave(r)'
        BY <2>2, <3>1 DEF ToSave, KeepsItems
      <3> QED BY <1>0, <2>1, <2>2, <3>2, QuietMirror DEF Collecting, KeepsItems
    <2> QED BY <1>0, <1>3, <1>8, <2>2, SaveDoneFields
  <1>9. CASE SourceDone
    <2>1. /\ run.phase = "route" /\ NextSource(run, run', run.allGone) /\ run.items = {}
          /\ UNCHANGED <<status, mirror>>
      BY <1>0, <1>9, SourceDoneFields DEF SourceDone, db, PhasesAreClean
    <2>2. PICK g : g = run.allGone
      OBVIOUS
    <2> QED BY <1>0, <2>1, <2>2, NextMirror
  <1>10. ASSUME NEW r \in Rows, Announce(r) \/ Report(r) PROVE MirrorInv'
    <2>1. /\ run.phase = "route" /\ run'.phase = "route" /\ KeepsItems(run', run)
          /\ KeepsProduct(run', run) /\ UNCHANGED <<status, mirror>>
      BY <1>0, <1>10, RouteFields DEF Announce, Report, db
    <2>2. ToDetect' = ToDetect
      BY <2>1, SameComing
    <2>3. \A x : ToSave(x) => ToSave(x)'
      BY <2>1, <2>2 DEF ToSave, KeepsItems
    <2> QED BY <1>0, <2>1, <2>3, QuietMirror DEF Collecting, KeepsItems
  <1> QED BY <1>1, <1>2, <1>4, <1>5, <1>6, <1>7, <1>8, <1>9, <1>10, FetchMirror, DiffMirror,
             PageDoneMirror, CacheHitMirror, ProductMirror, SaveMirror
          DEF Next, Environment, Publish, Pull, Relist, Tick, RunStep, Fault, vars, db

------------------------------------------------------------------------------
(***************************************************************************)
(* What follows of every reachable state.                                  *)
(***************************************************************************)
\* Everything that the accounts need, in one invariant.
AllInv == CInv /\ PhasesAreClean /\ NewsInv /\ WithdrawnAreHeld /\ SilenceInv /\ MirrorInv

\* All invariants hold at first,
LEMMA InitAll == Init => AllInv
PROOF
  <1> SUFFICES ASSUME Init PROVE AllInv
    OBVIOUS
  <1>1. /\ run = IdleRun /\ \A r \in Rows : status[r] = "none" /\ announced[r] = 0
        /\ reported = {} /\ lostGone = {} /\ silenced = {} /\ mirror = Blank
    BY DEF Init
  <1>2. CInv
    BY InitEstablishes
  <1>3. PhasesAreClean
    BY <1>1, IdleHolds DEF PhasesAreClean, Collecting
  <1>4. NewsInv
    BY <1>1, IdleHolds DEF NewsInv, NewsAreHeld, AnnouncedOnce
  <1>5. WithdrawnAreHeld
    BY <1>1, IdleHolds DEF WithdrawnAreHeld
  <1>6. SilenceInv
    BY <1>1, IdleHolds DEF SilenceInv, MarksHaveCause, SilenceHasCause
  <1>7. MirrorInv
    <2>1. ASSUME NEW s \in Sources, NEW u \in Urls PROVE mirror[<<s, u>>] = {}
      BY <1>1 DEF Blank
    <2>2. PagesAreRecorded
      BY <2>1 DEF PagesAreRecorded
    <2>3. ItemsAreOfPages
      BY <1>1, IdleHolds DEF ItemsAreOfPages, Collecting
    <2> QED BY <1>1, <2>2, <2>3, IdleHolds DEF MirrorInv, PageIsCompared
  <1> QED BY <1>2, <1>3, <1>4, <1>5, <1>6, <1>7 DEF AllInv

\* and every step keeps them.
LEMMA StepAll == AllInv /\ [Next]_vars => AllInv'
PROOF
  BY StepPreserves, PhasesStep, NewsStep, GoneStep, SilenceStep, MirrorStep DEF AllInv

\* The whole invariant holds in every reachable state.
THEOREM Accounts == Spec => []AllInv
PROOF
  BY InitAll, StepAll, PTL DEF Spec

\* Between runs every row of the table was announced, kept silent, or lost its event.
THEOREM NewsTold == Spec => []NewsAccounted
PROOF
  <1>1. AllInv => NewsAccounted
    <2> SUFFICES ASSUME AllInv, run.phase = "idle", NEW r \in Rows, status[r] # "none"
                 PROVE  announced[r] > 0 \/ r \in silenced \/ r \in lostNews
      BY DEF NewsAccounted
    <2>1. run.news = {}
      BY DEF AllInv, PhasesAreClean
    <2> QED BY <2>1 DEF AllInv, NewsInv, NewsAreHeld
  <1> QED BY <1>1, Accounts, PTL

\* No row is announced twice but one that was saved twice within a second.
THEOREM NewsOnce == Spec => []AnnouncedOnce
PROOF
  <1>1. AllInv => AnnouncedOnce
    BY DEF AllInv, NewsInv
  <1> QED BY <1>1, Accounts, PTL

\* Notices are of withdrawn rows, and between runs each such row had one or lost it.
THEOREM WithdrawalsTold == Spec => []WithdrawalsAccounted
PROOF
  <1>1. AllInv => WithdrawalsAccounted
    <2> SUFFICES ASSUME AllInv PROVE WithdrawalsAccounted
      OBVIOUS
    <2>1. \A r \in reported : r \in Rows
      BY Parts DEF AllInv, Counters
    <2>2. run.phase = "idle" => run.gone = {} /\ run.allGone = {}
      BY IdleHolds DEF AllInv, PhasesAreClean
    <2> QED BY <2>1, <2>2 DEF AllInv, WithdrawnAreHeld, WithdrawalsAccounted
  <1> QED BY <1>1, Accounts, PTL

\* A row is kept silent only on a page with a withdrawn row, which the vendor pulled or
\* which the comparison of equal or disordered times took for withdrawn.
THEOREM SilenceCaused == Spec => []SilenceHasCause
PROOF
  <1>1. AllInv => SilenceHasCause
    BY DEF AllInv, SilenceInv
  <1> QED BY <1>1, Accounts, PTL

\* Between runs the table mirrors every page that was processed without a fault.
THEOREM Mirrored == Spec => []MirrorsPage
PROOF
  <1>1. AllInv => MirrorsPage
    <2> SUFFICES ASSUME AllInv, run.phase = "idle", NEW s \in Sources, NEW u \in Urls,
                        mirror[<<s, u>>] # {}
                 PROVE  {p \in Packages : UrlOf[p] = u /\ status[<<s, p>>] = "active"}
                           = mirror[<<s, u>>] \ WithdrawnOn(s, u)
      BY DEF MirrorsPage
    <2>1. mirror[<<s, u>>] \subseteq Packages
      BY Parts DEF AllInv, Counters
    <2>2. \A r : ~ToSave(r)
      BY IdleHolds DEF AllInv, PhasesAreClean, ToSave
    <2>3. \A p \in mirror[<<s, u>>] :
             UrlOf[p] = u /\ status[<<s, p>>] \in {"active", "withdrawn"}
      BY <2>2 DEF AllInv, MirrorInv, PagesAreRecorded
    <2>4. \A p \in Packages : UrlOf[p] = u /\ status[<<s, p>>] = "active"
             => p \in mirror[<<s, u>>]
      BY DEF AllInv, MirrorInv, PagesAreRecorded
    <2> QED BY <2>1, <2>3, <2>4 DEF WithdrawnOn
  <1> QED BY <1>1, Accounts, PTL
=============================================================================
