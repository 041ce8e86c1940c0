--------------------------- MODULE CollectionCycle ---------------------------
(***************************************************************************)
(* One collection after another, against a vendor that publishes, pulls    *)
(* and relists packages: the page diff of NsfocusCollector._collect_quick, *)
(* the product loop and the detection loop of run_now / run_for_source,    *)
(* save_snapshot's identity rule and the NEW test of run_detection.        *)
(*                                                                         *)
(* A package is a file name with its md5.  Packages are numbered in the    *)
(* order in which the vendor publishes them on their page.  A row of the   *)
(* snapshots table is a pair <<source, package>>: the URL (and path_id, a  *)
(* hash of it) follows from the package.  Runs are serial here: that two   *)
(* may overlap is the subject of CollectionGuard.                          *)
(***************************************************************************)
EXTENDS Naturals, Sequences, FiniteSets

CONSTANTS
    Packages,       \* numbers, in the order of publication
    SourceOrder,    \* the products, in the order of the collection loop
    UrlsOf,         \* UrlsOf[s]: the page URLs of product s, in order
    UrlOf,          \* UrlOf[p]: the page that lists package p
    Pub,            \* Pub[p]: the publication time shown, 0 when none is
    Chained,        \* the pairs <<s, u>> with a chain in package_type
    Modes,          \* the kinds of run considered
    MaxPulls,       \* bound on the vendor's withdrawals
    MaxFaults,      \* bound on failed requests, database errors and crashes
    MaxExpiries     \* bound on sessions that expire in the middle of a run

Sources == {SourceOrder[i] : i \in 1..Len(SourceOrder)}
Urls    == {UrlOf[p] : p \in Packages}
Rows    == Sources \X Packages

\* Nothing is assumed of the times: they are read to the minute or the day, so
\* that two packages of a page may show the same one, or disagree with the order.
ASSUME CycleAssumption ==
    /\ Packages \subseteq Nat
    /\ SourceOrder \in Seq(Sources) /\ SourceOrder # <<>>
    /\ UrlsOf \in [Sources -> Seq(Urls)]
    /\ Pub \in [Packages -> Nat]
    /\ Modes \subseteq {"quick", "full", "single"}
    /\ MaxPulls \in Nat /\ MaxFaults \in Nat /\ MaxExpiries \in Nat

VARIABLES
    known, listed, pulled,  \* vendor: published, on the site, ever withdrawn
    pulls,                  \* number of withdrawals so far
    status,                 \* snapshots.status of each row, "none" if absent
    fresh,                  \* rows with first_seen_at = the current second
    run,                    \* the local state of the run in progress
    faults, expiries,
    announced,              \* history: NEW events routed for each row (0..2)
    resaved,                \* history: rows saved again within their second
    silenced,               \* history: rows inserted as resurrections
    reported,               \* history: rows whose withdrawal was routed
    lostNews, lostGone,     \* history: rows whose event was dropped
    mirror,                 \* history: last page processed without a fault
    reissued                \* history: published on a page with a withdrawn row

vendor  == <<known, listed, pulled, pulls, reissued>>
db      == <<status, fresh>>
bounds  == <<faults, expiries>>
events  == <<announced, resaved, silenced, reported, lostNews, lostGone>>
vars    == <<known, listed, pulled, pulls, status, fresh, run, faults, expiries,
             announced, resaved, silenced, reported, lostNews, lostGone, mirror,
             reissued>>

Statuses == {"none", "active", "superseded", "withdrawn"}
Phases   == {"idle", "fetch", "diff", "detect", "save", "route"}

\* What an item carries: the row it will be saved to and is_resurrection.
Items == Rows \X BOOLEAN

\* An entry of shared_url_cache with its writer in shared_url_sids.
CacheEntry == [items : SUBSET Packages, writer : Sources, silent : BOOLEAN,
               filled : BOOLEAN]
Missing == [items |-> {}, writer |-> SourceOrder[1], silent |-> FALSE,
            filled |-> FALSE]

Runs == [phase : Phases, mode : {"quick", "full", "single"},
         src : Sources,              \* product being collected or detected
         rest : Seq(Sources),        \* products after it
         urls : Seq(Urls),           \* URLs of src still to visit
         cache : [Urls -> CacheEntry],
         imported : BOOLEAN,         \* hashlib and replace are bound
         page : SUBSET Packages,     \* the page being compared
         silent : BOOLEAN,           \* is_resurrection_path for that page
         missing : SUBSET Packages,  \* old rows not on it, not yet handled
         items : SUBSET Items, gone : SUBSET Rows,      \* of src
         all : SUBSET Items, allGone : SUBSET Rows,     \* of the whole run
         news : SUBSET Rows]         \* NEW rows not yet routed

IdleRun == [phase |-> "idle", mode |-> "quick", src |-> SourceOrder[1],
            rest |-> <<>>, urls |-> <<>>, cache |-> [u \in Urls |-> Missing],
            imported |-> FALSE, page |-> {}, silent |-> FALSE, missing |-> {},
            items |-> {}, gone |-> {}, all |-> {}, allGone |-> {}, news |-> {}]

\* The types of all the state; the phases and statuses are those the code writes.
TypeOK ==
    /\ known \subseteq Packages /\ listed \subseteq known /\ pulled \subseteq known
    /\ pulls \in 0..MaxPulls
    /\ status \in [Rows -> Statuses]
    /\ fresh \subseteq Rows
    /\ run \in Runs
    /\ faults \in 0..MaxFaults /\ expiries \in 0..MaxExpiries
    /\ announced \in [Rows -> 0..2]
    /\ resaved \subseteq Rows /\ silenced \subseteq Rows /\ reported \subseteq Rows
    /\ lostNews \subseteq Rows /\ lostGone \subseteq Rows
    /\ mirror \in [Sources \X Urls -> SUBSET Packages]
    /\ reissued \subseteq Packages

Blank == [su \in Sources \X Urls |-> {}]

Init ==
    /\ known = {} /\ listed = {} /\ pulled = {} /\ pulls = 0
    /\ status = [r \in Rows |-> "none"]
    /\ fresh = {}
    /\ run = IdleRun
    /\ faults = 0 /\ expiries = 0
    /\ announced = [r \in Rows |-> 0]
    /\ resaved = {} /\ silenced = {} /\ reported = {}
    /\ lostNews = {} /\ lostGone = {}
    /\ mirror = Blank
    /\ reissued = {}

------------------------------------------------------------------------------
(***************************************************************************)
(* The vendor's site.  A page shows the newest part of what is listed, of  *)
(* any length, so that withdrawing a package may bring an old one back.    *)
(***************************************************************************)
ListedOn(u) == {p \in listed : UrlOf[p] = u}

IsPage(u, page) ==
    /\ page \subseteq ListedOn(u)
    /\ ListedOn(u) # {} => page # {}
    /\ \A p \in ListedOn(u) \ page, q \in page : p < q

WithdrawnOn(s, u) == {p \in Packages : UrlOf[p] = u /\ status[<<s, p>>] = "withdrawn"}

Publish(p) ==
    /\ p \notin known
    /\ \A q \in Packages : q < p /\ UrlOf[q] = UrlOf[p] => q \in known
    /\ known' = known \cup {p}
    /\ listed' = listed \cup {p}
    /\ reissued' = IF \E s \in Sources : WithdrawnOn(s, UrlOf[p]) # {}
                   THEN reissued \cup {p} ELSE reissued
    /\ UNCHANGED <<pulled, pulls, db, run, bounds, events, mirror>>

Pull(p) ==
    /\ p \in listed /\ pulls < MaxPulls
    /\ listed' = listed \ {p}
    /\ pulled' = pulled \cup {p}
    /\ pulls' = pulls + 1
    /\ UNCHANGED <<known, reissued, db, run, bounds, events, mirror>>

Relist(p) ==
    /\ p \in known \ listed
    /\ listed' = listed \cup {p}
    /\ UNCHANGED <<known, pulled, pulls, reissued, db, run, bounds, events, mirror>>

\* The second ends; timestamps have no finer grain.
Tick ==
    /\ fresh # {}
    /\ fresh' = {}
    /\ UNCHANGED <<vendor, status, run, bounds, events, mirror>>

------------------------------------------------------------------------------
(***************************************************************************)
(* Collecting: the product loop and, for each URL, the page diff.          *)
(***************************************************************************)
Begin(mode, order) ==
    /\ run.phase = "idle" /\ mode \in Modes
    /\ run' = [IdleRun EXCEPT !.phase = "fetch", !.mode = mode,
                              !.src = Head(order), !.rest = Tail(order),
                              !.urls = UrlsOf[Head(order)]]
    /\ UNCHANGED <<vendor, db, bounds, events, mirror>>

\* run_now('quick'), run_now('full')
RunNow == \E mode \in {"quick", "full"} : Begin(mode, SourceOrder)

\* run_for_source
RunForSource == \E s \in Sources : Begin("single", <<s>>)

AtUrl == run.phase = "fetch" /\ run.urls # <<>>
Uncached == AtUrl /\ ~run.cache[Head(run.urls)].filled

\* Mutant: superseded rows count as withdrawn ones.
ResurrectsAfterAny(s, u) ==
    \E p \in Packages : UrlOf[p] = u /\ status[<<s, p>>] \in {"superseded", "withdrawn"}

\* is_resurrection_path: some row of this product and URL is withdrawn.
Resurrects(s, u) == WithdrawnOn(s, u) # {}

\* The GET, and the two queries made before the comparison: the active rows
\* of this product and URL, and whether any row of them is withdrawn.
FetchPage ==
    LET s == run.src
        u == Head(run.urls) IN
    /\ Uncached
    /\ \E page \in SUBSET ListedOn(u) :
          /\ IsPage(u, page)
          /\ run' = [run EXCEPT
                !.phase = "diff", !.imported = TRUE, !.page = page,
                !.silent = Resurrects(s, u),
                !.missing = IF page = {} THEN {}
                            ELSE {p \in Packages \ page :
                                     UrlOf[p] = u /\ status[<<s, p>>] = "active"}]
    /\ mirror' = [mirror EXCEPT ![<<s, u>>] = {}]
    /\ UNCHANGED <<vendor, db, bounds, events>>

\* Mutant: the comparison of times is turned round.
DisplacedByOlder(p, page) ==
    \/ Pub[p] = 0
    \/ \A q \in page : Pub[q] = 0
    \/ \E q \in page : Pub[q] # 0 /\ Pub[q] < Pub[p]

\* An old row that is gone was replaced when a time is missing or when some
\* package on the page is later; otherwise the vendor withdrew it.
Displaced(p, page) ==
    \/ Pub[p] = 0
    \/ \A q \in page : Pub[q] = 0
    \/ \E q \in page : Pub[q] > Pub[p]

\* One old row that is not on the page any more.
DiffRow(p) ==
    LET r == <<run.src, p>>
        gone == IF Displaced(p, run.page) THEN {} ELSE {r} IN
    /\ run.phase = "diff" /\ p \in run.missing
    /\ status' = [status EXCEPT ![r] = IF gone = {} THEN "superseded"
                                       ELSE "withdrawn"]
    /\ run' = [run EXCEPT !.missing = @ \ {p}, !.gone = @ \cup gone]
    /\ UNCHANGED <<vendor, fresh, bounds, events, mirror>>

\* The page goes into the shared cache and its items to this product.
PageDone ==
    LET u == Head(run.urls) IN
    /\ run.phase = "diff" /\ run.missing = {}
    /\ run' = [run EXCEPT
          !.phase = "fetch", !.urls = Tail(@), !.page = {}, !.silent = FALSE,
          !.cache = [@ EXCEPT ![u] = [items |-> run.page, writer |-> run.src,
                                      silent |-> run.silent, filled |-> TRUE]],
          !.items = @ \cup ({run.src} \X run.page) \X {run.silent}]
    /\ mirror' = [mirror EXCEPT ![<<run.src, u>>] = run.page]
    /\ UNCHANGED <<vendor, db, bounds, events>>

\* A URL some product of this run has read: its items come again, under the
\* source that read it.  Before the product's first own fetch the branch uses
\* names that only the fetch imports, and the URL is skipped by the handler.
CacheHit ==
    LET e == run.cache[Head(run.urls)] IN
    /\ AtUrl /\ e.filled
    /\ run' = [run EXCEPT
          !.urls = Tail(@),
          !.items = IF run.imported
                    THEN @ \cup ({e.writer} \X e.items) \X {e.silent} ELSE @]
    /\ UNCHANGED <<vendor, db, bounds, events, mirror>>

\* A request that fails: the URL is skipped and not cached.
FetchFails ==
    /\ Uncached /\ faults < MaxFaults
    /\ faults' = faults + 1
    /\ run' = [run EXCEPT !.urls = Tail(@)]
    /\ mirror' = Blank
    /\ UNCHANGED <<vendor, db, expiries, events>>

\* A database error inside the comparison: what it has written stays written.
DiffFails ==
    /\ run.phase = "diff" /\ run.missing # {} /\ faults < MaxFaults
    /\ faults' = faults + 1
    /\ run' = [run EXCEPT !.phase = "fetch", !.urls = Tail(@), !.missing = {},
                          !.page = {}, !.silent = FALSE]
    /\ mirror' = Blank
    /\ UNCHANGED <<vendor, db, expiries, events>>

\* On to the next product, or to the detection loop after the last one.
AfterProduct(r) ==
    IF r.rest # <<>>
    THEN [r EXCEPT !.phase = "fetch", !.src = Head(r.rest), !.rest = Tail(r.rest),
                   !.urls = UrlsOf[Head(r.rest)], !.imported = FALSE,
                   !.items = {}, !.gone = {}]
    ELSE [r EXCEPT !.phase = "detect", !.urls = <<>>, !.items = {}, !.gone = {},
                   !.cache = IdleRun.cache, !.imported = FALSE,
                   !.src = IF r.mode = "single" THEN @ ELSE Head(SourceOrder),
                   !.rest = IF r.mode = "single" THEN <<>> ELSE Tail(SourceOrder)]

\* Mutant: the withdrawn rows of a product are not handed over.
ForgetsGone ==
    /\ run.phase = "fetch" /\ run.urls = <<>>
    /\ run' = AfterProduct([run EXCEPT !.all = @ \cup run.items])
    /\ UNCHANGED <<vendor, db, bounds, events, mirror>>

ProductDone ==
    /\ run.phase = "fetch" /\ run.urls = <<>>
    /\ run' = AfterProduct([run EXCEPT !.all = @ \cup run.items,
                                       !.allGone = @ \cup run.gone])
    /\ UNCHANGED <<vendor, db, bounds, events, mirror>>

\* A login page: what the product has collected is dropped.  run_for_source
\* ends, run_now goes on, and a full run may start the product again with
\* another session.
SessionExpires ==
    /\ Uncached /\ expiries < MaxExpiries
    /\ expiries' = expiries + 1
    /\ lostGone' = lostGone \cup run.gone
    /\ \/ run.mode = "single" /\ run' = IdleRun
       \/ run.mode # "single" /\ run' = AfterProduct(run)
       \/ /\ run.mode = "full"
          /\ run' = [run EXCEPT !.urls = UrlsOf[run.src], !.imported = FALSE,
                                !.items = {}, !.gone = {}]
    /\ mirror' = Blank
    /\ UNCHANGED <<vendor, db, faults, announced, resaved, silenced, reported,
                   lostNews>>

------------------------------------------------------------------------------
(***************************************************************************)
(* Detection: one product after the other, its items are saved, its NEW    *)
(* rows and then its withdrawn rows are handed to the notification router. *)
(***************************************************************************)
\* Nothing was collected at all: the run ends here.
NothingCollected ==
    /\ run.phase = "detect" /\ run.mode # "full" /\ run.all = {}
    /\ run' = IdleRun
    /\ lostGone' = lostGone \cup run.allGone
    /\ UNCHANGED <<vendor, db, bounds, announced, resaved, silenced, reported,
                   lostNews, mirror>>

\* _collect_full puts the pair that _collect_quick returns among the items;
\* the detection loop fails on the first one.
FullRunFails ==
    /\ run.phase = "detect" /\ run.mode = "full"
    /\ run' = IdleRun
    /\ lostGone' = lostGone \cup run.allGone
    /\ mirror' = Blank
    /\ UNCHANGED <<vendor, db, bounds, announced, resaved, silenced, reported,
                   lostNews>>

AfterSource(r) ==
    IF r.rest = <<>> THEN IdleRun
    ELSE [r EXCEPT !.phase = "detect", !.src = Head(r.rest),
                   !.rest = Tail(r.rest), !.items = {}, !.gone = {}]

\* A product without items is passed over, and so are its withdrawn rows.
DetectSource ==
    LET its  == {it \in run.all : it[1][1] = run.src}
        gone == {r \in run.allGone : r[1] = run.src} IN
    /\ run.phase = "detect" /\ run.mode # "full" /\ run.all # {}
    /\ IF its = {}
       THEN /\ lostGone' = lostGone \cup gone
            /\ run' = AfterSource([run EXCEPT !.allGone = @ \ gone])
       ELSE /\ UNCHANGED lostGone
            /\ run' = [run EXCEPT !.phase = "save", !.items = its,
                                  !.gone = gone, !.allGone = @ \ gone]
    /\ UNCHANGED <<vendor, db, bounds, announced, resaved, silenced, reported,
                   lostNews, mirror>>

\* Mutant: a superseded row that comes back counts as new.
IsNewAgain(it) ==
    IF status[it[1]] \in {"none", "superseded"} THEN ~it[2] ELSE it[1] \in fresh

\* Mutant: only a row that was there before the save can be new.
IsNewIfSeen(it) == status[it[1]] # "none" /\ it[1] \in fresh

\* first_seen_at = last_seen_at after the save: a plain INSERT, or an UPDATE
\* within the second of one.  (A resurrection gets an older first_seen_at.)
IsNew(it) ==
    IF status[it[1]] = "none" THEN ~it[2] ELSE it[1] \in fresh

\* Mutant: a withdrawn package that shows up again becomes active.
ReviveSnapshot(it) ==
    LET r == it[1] IN
    /\ status' = [status EXCEPT ![r] = "active"]
    /\ fresh' = IF status[r] = "none" /\ ~it[2] THEN fresh \cup {r} ELSE fresh
    /\ silenced' = IF status[r] = "none" /\ it[2] THEN silenced \cup {r} ELSE silenced
    /\ resaved' = IF status[r] # "none" /\ r \in fresh THEN resaved \cup {r}
                  ELSE resaved

\* Mutant: a superseded row that is back on the page keeps its status.
KeepsSuperseded(it) ==
    LET r == it[1] IN
    /\ status' = [status EXCEPT ![r] = IF @ = "none" THEN "active" ELSE @]
    /\ fresh' = IF status[r] = "none" /\ ~it[2] THEN fresh \cup {r} ELSE fresh
    /\ silenced' = IF status[r] = "none" /\ it[2] THEN silenced \cup {r} ELSE silenced
    /\ resaved' = IF status[r] # "none" /\ r \in fresh THEN resaved \cup {r}
                  ELSE resaved

\* Mutant: an item taken for a resurrection is not saved at all.
SkipsResurrection(it) ==
    LET r == it[1]
        old == status[r] IN
    /\ status' = IF it[2] THEN status
                 ELSE [status EXCEPT ![r] = IF @ = "withdrawn" THEN @ ELSE "active"]
    /\ fresh' = IF old = "none" /\ ~it[2] THEN fresh \cup {r} ELSE fresh
    /\ resaved' = IF old # "none" /\ r \in fresh THEN resaved \cup {r} ELSE resaved
    /\ UNCHANGED silenced

\* save_snapshot: update the active row, else the superseded or withdrawn one
\* (which revives only if superseded), else insert.
SaveSnapshot(it) ==
    LET r == it[1] IN
    /\ status' = [status EXCEPT ![r] = IF @ = "withdrawn" THEN @ ELSE "active"]
    /\ fresh' = IF status[r] = "none" /\ ~it[2] THEN fresh \cup {r} ELSE fresh
    /\ silenced' = IF status[r] = "none" /\ it[2] THEN silenced \cup {r} ELSE silenced
    /\ resaved' = IF status[r] # "none" /\ r \in fresh THEN resaved \cup {r}
                  ELSE resaved

SaveItem(it) ==
    /\ run.phase = "save" /\ it \in run.items
    /\ SaveSnapshot(it)
    /\ run' = [run EXCEPT !.items = @ \ {it},
                          !.news = IF IsNew(it) THEN @ \cup {it[1]} ELSE @]
    /\ UNCHANGED <<vendor, bounds, announced, reported, lostNews, lostGone,
                   mirror>>

\* An error before the row is written, or after it and before the NEW test.
SaveFails(it) ==
    /\ run.phase = "save" /\ it \in run.items /\ faults < MaxFaults
    /\ faults' = faults + 1
    /\ \/ UNCHANGED <<db, silenced, resaved, lostNews>>
       \/ /\ SaveSnapshot(it)
          /\ lostNews' = IF IsNew(it) THEN lostNews \cup {it[1]} ELSE lostNews
    /\ run' = [run EXCEPT !.items = @ \ {it}]
    /\ mirror' = Blank
    /\ UNCHANGED <<vendor, expiries, announced, reported, lostGone>>

\* push_items = new_chain_items or new_items: NEW rows without a chain are
\* pushed only when no other has one, and then run_now fails to unpack them.
SaveDone ==
    LET chained == {r \in run.news : <<r[1], UrlOf[r[2]]>> \in Chained}
        push    == IF chained # {} THEN chained ELSE run.news IN
    /\ run.phase = "save" /\ run.items = {}
    /\ IF run.mode = "quick" /\ push # {} /\ chained = {}
       THEN /\ run' = IdleRun
            /\ lostNews' = lostNews \cup run.news
            /\ lostGone' = lostGone \cup run.gone \cup run.allGone
            /\ mirror' = Blank
       ELSE /\ run' = [run EXCEPT !.phase = "route", !.news = push]
            /\ lostNews' = lostNews \cup (run.news \ push)
            /\ UNCHANGED <<lostGone, mirror>>
    /\ UNCHANGED <<vendor, db, bounds, announced, resaved, silenced, reported>>

Announce(r) ==
    /\ run.phase = "route" /\ r \in run.news
    /\ announced' = [announced EXCEPT ![r] = IF @ = 2 THEN 2 ELSE @ + 1]
    /\ run' = [run EXCEPT !.news = @ \ {r}]
    /\ UNCHANGED <<vendor, db, bounds, resaved, silenced, reported, lostNews,
                   lostGone, mirror>>

Report(r) ==
    /\ run.phase = "route" /\ run.news = {} /\ r \in run.gone
    /\ reported' = reported \cup {r}
    /\ run' = [run EXCEPT !.gone = @ \ {r}]
    /\ UNCHANGED <<vendor, db, bounds, announced, resaved, silenced, lostNews,
                   lostGone, mirror>>

SourceDone ==
    /\ run.phase = "route" /\ run.news = {} /\ run.gone = {}
    /\ run' = AfterSource(run)
    /\ UNCHANGED <<vendor, db, bounds, events, mirror>>

\* The process dies, or an error in the router or in a query between two
\* products ends the run; whatever it had not handed over is gone with it.
RunDies ==
    /\ run.phase # "idle" /\ faults < MaxFaults
    /\ faults' = faults + 1
    /\ run' = IdleRun
    /\ lostNews' = lostNews \cup run.news
    /\ lostGone' = lostGone \cup run.gone \cup run.allGone
    /\ mirror' = Blank
    /\ UNCHANGED <<vendor, db, expiries, announced, resaved, silenced, reported>>

Environment ==
    \/ \E p \in Packages : Publish(p) \/ Pull(p) \/ Relist(p)
    \/ Tick

\* The steps of a run that meets no fault.
RunStep ==
    \/ FetchPage
    \/ \E p \in Packages : DiffRow(p)
    \/ PageDone
    \/ CacheHit
    \/ ProductDone
    \/ NothingCollected
    \/ FullRunFails
    \/ DetectSource
    \/ \E it \in run.items : SaveItem(it)
    \/ SaveDone
    \/ \E r \in Rows : Announce(r) \/ Report(r)
    \/ SourceDone

Fault ==
    \/ FetchFails
    \/ DiffFails
    \/ SessionExpires
    \/ \E it \in run.items : SaveFails(it)
    \/ RunDies

Next == Environment \/ RunNow \/ RunForSource \/ RunStep \/ Fault

Spec == Init /\ [][Next]_vars

\* A run that has started goes on, and the interval job gets its turn again
\* and again although other runs come in between.
Fairness == WF_vars(RunStep) /\ SF_vars(Begin("quick", SourceOrder))

FairSpec == Spec /\ Fairness

------------------------------------------------------------------------------
(***************************************************************************)
(* Properties.                                                             *)
(***************************************************************************)

\* A package that came later to its page and shows a time that is not later.
Misdated(p) ==
    /\ Pub[p] # 0
    /\ \E q \in known :
          UrlOf[q] = UrlOf[p] /\ p < q /\ Pub[q] # 0 /\ Pub[q] <= Pub[p]

\* A package is called withdrawn only if the vendor did withdraw it at some
\* time, or if the page dates a later package no later than it: being pushed
\* off the page by newer ones looks like a withdrawal in no other case.
NoFalseWithdrawal ==
    \A s \in Sources, p \in Packages :
        status[<<s, p>>] = "withdrawn" => p \in pulled \/ Misdated(p)

\* A withdrawn row stays withdrawn, whatever the vendor lists later.
WithdrawnNeverRevives ==
    [][\A r \in Rows : status[r] = "withdrawn" => status'[r] = "withdrawn"]_vars

\* Between runs, every row in the table was announced, or was taken for one
\* that a withdrawal brought back, or its event was dropped with its run.
NewsAccounted ==
    run.phase = "idle" => \A r \in Rows :
        status[r] # "none" =>
            announced[r] > 0 \/ r \in silenced \/ r \in lostNews

\* No row is announced twice, through all replacements, withdrawals, relistings
\* and restarts, unless it was collected twice in the second of its insertion.
AnnouncedOnce == \A r \in Rows : announced[r] = 2 => r \in resaved

\* Withdrawal notices go out for withdrawn rows, and between runs every
\* withdrawn row has had its notice or lost it with its run.
WithdrawalsAccounted ==
    /\ \A r \in reported : status[r] = "withdrawn"
    /\ run.phase = "idle" => \A r \in Rows :
          status[r] = "withdrawn" => r \in reported \/ r \in lostGone

\* A package is kept silent only on a page from which one was withdrawn, by
\* the vendor or by the comparison of equal or disordered times.
Caused(r) ==
    \E q \in Packages :
        /\ UrlOf[q] = UrlOf[r[2]] /\ status[<<r[1], q>>] = "withdrawn"
        /\ q \in pulled \/ Misdated(q)
SilenceHasCause == \A r \in silenced : Caused(r)

\* Between runs, the active rows of a page that was read and processed without
\* a fault are the packages it showed, less the withdrawn ones.
MirrorsPage ==
    run.phase = "idle" => \A s \in Sources, u \in Urls :
        mirror[<<s, u>>] # {} =>
            {p \in Packages : UrlOf[p] = u /\ status[<<s, p>>] = "active"}
                = mirror[<<s, u>>] \ WithdrawnOn(s, u)

Newest(p) == p \in listed /\ \A q \in ListedOn(UrlOf[p]) : q <= p

\* A package that stays the newest of a visited page gets recorded.
NewestIsRecorded ==
    \A p \in Packages :
        <>[]Newest(p) => <>(\E s \in Sources : status[<<s, p>>] # "none")

\* What is not pulled stays listed; pages, items and rows hold packages that
\* the vendor published.
OnlyPublished ==
    /\ known \ pulled \subseteq listed
    /\ \A r \in Rows : status[r] # "none" => r[2] \in known
    /\ run.page \cup run.missing \subseteq known
    /\ \A u \in Urls : run.cache[u].items \subseteq known
    /\ \A it \in run.items \cup run.all : it[1][2] \in known

\* While a page is compared, an old row that is missing from it is active, and
\* older than all the page shows unless the vendor pulled the package.
DiffIsSound ==
    /\ run.phase = "diff" => run.urls # <<>>
    /\ run.missing # {} => run.phase = "diff" /\ run.page # {}
    /\ \A p \in run.missing : status[<<run.src, p>>] = "active"
    /\ \A p \in run.missing, q \in run.page :
          UrlOf[p] = UrlOf[q] /\ (p \in pulled \/ p < q)

\* What each phase of a run leaves empty; a product in progress holds its own
\* withdrawn rows, and a run for one product no others.
Collecting == run.phase \in {"fetch", "diff"}
PhasesAreClean ==
    /\ run.phase = "idle" => run = IdleRun
    /\ run.phase # "diff" => run.page = {}
    /\ run.phase \notin {"save", "route"} => run.news = {}
    /\ run.phase \in {"detect", "route"} => run.items = {}
    /\ run.phase = "detect" => run.gone = {}
    /\ run.mode = "single" => run.rest = <<>>
    /\ Collecting => /\ \A r \in run.gone : r[1] = run.src
                     /\ run.mode = "single" => run.allGone = {}

\* A row of the table was announced, silenced or lost, or is about to be announced;
\* what is about to be announced again was saved twice.
NewsAreHeld ==
    /\ \A r \in Rows : IF status[r] = "none"
          THEN announced[r] = 0 /\ r \notin run.news
          ELSE announced[r] > 0 \/ r \in silenced \cup lostNews \cup run.news
    /\ \A r \in run.news : announced[r] > 0 => r \in resaved

\* The products that the detection loop has yet to reach.
Among(q) == {q[i] : i \in 1..Len(q)}
ToDetect ==
    {s \in Sources : \/ s \in Among(run.rest)
                     \/ s = run.src /\ (Collecting \/ run.phase = "detect")
                     \/ Collecting /\ run.mode # "single"}

\* The withdrawn rows are those that were reported or lost or that a run holds, and
\* what it holds for later is of a product to come.
WithdrawnAreHeld ==
    /\ \A r \in Rows : status[r] = "withdrawn"
          <=> r \in reported \cup lostGone \cup run.gone \cup run.allGone
    /\ \A r \in run.allGone : r[1] \in ToDetect

\* Whatever is marked as a resurrection, on its way from the page to the table,
\* comes from a page with a withdrawn row.
MarksHaveCause ==
    /\ run.silent => \A p \in run.page : Caused(<<run.src, p>>)
    /\ \A u \in Urls : LET e == run.cache[u] IN
          e.silent => \A p \in e.items : Caused(<<e.writer, p>>)
    /\ \A it \in run.items \cup run.all : it[2] => Caused(it[1])

\* A page that was read is in the table, but for the items that the run has yet to
\* save; the active rows of its URL are on it.
ToSave(r) == \E it \in run.items \cup run.all :
                it[1] = r /\ (it \in run.items \/ r[1] \in ToDetect)
PagesAreRecorded ==
    \A s \in Sources, u \in Urls : LET seen == mirror[<<s, u>>] IN
        seen # {} =>
            /\ \A p \in seen : /\ UrlOf[p] = u
                               /\ \/ status[<<s, p>>] \in {"active", "withdrawn"}
                                  \/ ToSave(<<s, p>>)
            /\ \A p \in Packages :
                  UrlOf[p] = u /\ status[<<s, p>>] = "active" => p \in seen

\* Items are of the page their product read last, which stays in the cache while
\* the run collects.
ItemsAreOfPages ==
    /\ \A it \in run.items \cup run.all :
          LET seen == mirror[<<it[1][1], UrlOf[it[1][2]]>>] IN
          seen = {} \/ it[1][2] \in seen
    /\ Collecting =>
          /\ \A it \in run.items \cup run.all :
                run.cache[UrlOf[it[1][2]]].filled /\ it[1][1] \in ToDetect
          /\ \A u \in Urls : LET e == run.cache[u] IN
                e.filled => /\ e.writer \in ToDetect
                            /\ \A p \in e.items : UrlOf[p] = u
                            /\ mirror[<<e.writer, u>>] \in {{}, e.items}

\* The page being compared: old rows of its URL are on it or still to be handled.
PageIsCompared ==
    run.phase = "diff" =>
        LET u == Head(run.urls) IN
        /\ ~run.cache[u].filled /\ mirror[<<run.src, u>>] = {}
        /\ \A p \in run.page \cup run.missing : UrlOf[p] = u
        /\ run.page # {} => \A p \in Packages :
              UrlOf[p] = u /\ status[<<run.src, p>>] = "active"
                  => p \in run.page \cup run.missing

\* The inductive invariants of CollectionCycleProofs.
CInv == TypeOK /\ OnlyPublished /\ DiffIsSound /\ NoFalseWithdrawal
NewsInv == NewsAreHeld /\ AnnouncedOnce
SilenceInv == MarksHaveCause /\ SilenceHasCause
MirrorInv == PagesAreRecorded /\ ItemsAreOfPages /\ PageIsCompared

==============================================================================
