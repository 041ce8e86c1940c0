----------------------------- MODULE Discovery -----------------------------
(***************************************************************************)
(* The discovery of products and package types, and what is done with its  *)
(* results:                                                                *)
(*                                                                         *)
(*  - discover_products starts a thread that compares the vendor's pages   *)
(*    with content_sources and offers the differences as a result, in      *)
(*    memory and in a file that survives a restart;                        *)
(*  - discover_products_confirm starts a thread that applies the result    *)
(*    which the user's page shows; discover_confirm_discard drops results; *)
(*  - refresh_pkg_type_single and _check_package_types_fresh write what    *)
(*    they find for one product straight to its row.                       *)
(*                                                                         *)
(* All of them read a row, ask the vendor for minutes and write later.  A  *)
(* path stands for its chain, with a package type of its own; its page     *)
(* address, which no comparison looks at, is left out.                     *)
(***************************************************************************)
EXTENDS Naturals, FiniteSets

CONSTANTS
    Products, Paths,
    Starts,        \* the tables to begin with: path sets of the products
    MaxRuns,       \* bound: discoveries
    MaxConfirms,   \* bound: confirmations
    MaxUpsets      \* bound: what the vendor, the user and failures do besides

VARIABLES
    vendor,    \* what the vendor shows: where each product is, and its paths
    row,       \* content_sources; address 0: there is no row
    state,     \* _auto_discover_state
    pending,   \* _PENDING_FILE; 0: there is none
    run,       \* the threads of discover_products
    applying,  \* _confirm_state: active
    confirm,   \* the threads of discover_products_confirm
    job,       \* a refresh by hand, and the check after a full run
    closed,    \* history: results that were discarded, or confirmed to the end
    swept,     \* history: results that something else did away with
    masked,    \* history: the activity flags that were taken down under a thread;
               \* "left": that of a confirmation that failed is still up
    sure,      \* history: what the last step wrote from knowledge nobody overtook
    upsets

vars == <<vendor, row, state, pending, run, applying, confirm, job,
          closed, swept, masked, sure, upsets>>

ASSUME DiscoveryAssumption ==
    /\ IsFiniteSet(Products) /\ IsFiniteSet(Paths)
    /\ Starts \subseteq [Products -> SUBSET Paths]
    /\ MaxRuns \in Nat /\ MaxConfirms \in Nat /\ MaxUpsets \in Nat

Runs == 1..MaxRuns
Confirms == 1..MaxConfirms
Jobs == {"refresh", "fresh"}
Nowhere == 0

NoPlan == [at |-> [p \in Products |-> Nowhere],
           added |-> [p \in Products |-> Nowhere], removed |-> [p \in Products |-> Nowhere],
           add |-> [p \in Products |-> {}], del |-> [p \in Products |-> {}]]
NewRun == [step |-> "new", todo |-> {}, begun |-> {}, base |-> [p \in Products |-> {}],
           plan |-> NoPlan, doubt |-> {}, stops |-> FALSE]
NewConfirm == [step |-> "new", of |-> 0, todo |-> {}, product |-> 0, id |-> 0, cur |-> {}]
NoJob == [step |-> "none", product |-> 0, id |-> 0, old |-> {}, got |-> {}, doubt |-> FALSE]
Ended(how) == [NewRun EXCEPT !.step = how]
\* workers: it has the list of the products at work.
NoState == [active |-> FALSE, result |-> 0, cancel |-> FALSE, workers |-> FALSE]
Row(url, paths, marked, id) == [url |-> url, paths |-> paths, marked |-> marked, id |-> id]

Init ==
    /\ \E table \in Starts :
          /\ vendor = [p \in Products |-> [url |-> 1, paths |-> table[p]]]
          /\ row = [p \in Products |-> Row(1, table[p], FALSE, 1)]
    /\ state = NoState /\ pending = 0 /\ applying = FALSE
    /\ run = [r \in Runs |-> NewRun] /\ confirm = [c \in Confirms |-> NewConfirm]
    /\ job = [k \in Jobs |-> NoJob]
    /\ closed = {} /\ swept = {} /\ masked = {} /\ sure = {} /\ upsets = 0

Upset == upsets < MaxUpsets /\ upsets' = upsets + 1

Discovering(r) == run[r].step \in {"scan", "work", "publish"}
Published(r) == run[r].step \in {"save", "done", "unsaved"}
Applies(c) == confirm[c].step \in {"products", "pick", "write", "end"}
Plan(c) == run[confirm[c].of].plan
Offered(r) == r # 0 /\ (state.result = r \/ pending = r)
There(p) == row[p].url # Nowhere

\* What the pages show of a product.  A page that fails is skipped, and an
\* entry page that fails gives an empty answer.
Shown(p) == IF There(p) /\ row[p].url = vendor[p].url THEN vendor[p].paths ELSE {}
Fetched(p, got) ==
    /\ got \subseteq Shown(p)
    /\ IF got = Shown(p) THEN UNCHANGED upsets ELSE Upset

(***************************************************************************)
(* History: whoever has read about a product is in doubt once its row or   *)
(* its pages change under his hands.                                       *)
(***************************************************************************)
Read(r, p) ==
    /\ run[r].step \in {"work", "publish", "save", "done", "unsaved"}
    /\ p \notin run[r].todo \ run[r].begun
DoubtfulRuns(p) ==
    [r \in Runs |-> IF Read(r, p) THEN [run[r] EXCEPT !.doubt = @ \cup {p}] ELSE run[r]]
DoubtfulJobs(p) ==
    [k \in Jobs |-> IF job[k].product = p THEN [job[k] EXCEPT !.doubt = TRUE] ELSE job[k]]

\* A flag that is taken down under a thread stays so until the thread ends.
MaskedBy(flags, already) ==
    masked' = already \cup (flags \cap ((IF \E r \in Runs : Discovering(r) THEN {"run"} ELSE {})
                                        \cup (IF \E c \in Confirms : Applies(c) THEN {"confirm"} ELSE {})))
Unmasked(r) == masked' = IF \E q \in Runs \ {r} : Discovering(q) THEN masked ELSE masked \ {"run"}

(***************************************************************************)
(* discover_products                                                       *)
(***************************************************************************)
\* Mutant: starting a discovery clears the file.
StartClears == 0
\* What starting leaves in the file.
KeptFile == pending

StartDiscover(r) ==
    /\ run[r].step = "new" /\ \A q \in Runs : q < r => run[q].step # "new"
    /\ ~state.active
    /\ state' = [NoState EXCEPT !.active = TRUE]
    /\ run' = [q \in Runs |-> IF q = r THEN [run[q] EXCEPT !.step = "scan"]
                              ELSE [run[q] EXCEPT !.stops = FALSE]]
    /\ swept' = swept \cup ({state.result} \ {0, pending})
    /\ sure' = {}
    /\ pending' = KeptFile
    /\ UNCHANGED <<vendor, row, applying, confirm, job, closed, masked, upsets>>

\* The index page against the rows, by address.
Listed == {p \in Products : vendor[p].url # Nowhere}
Both == {p \in Products : There(p) /\ row[p].url = vendor[p].url}
Compared == [NoPlan EXCEPT
    !.at = [p \in Products |-> IF p \in Both THEN row[p].url ELSE Nowhere],
    !.added = [p \in Products |-> IF p \in Both THEN Nowhere ELSE vendor[p].url],
    !.removed = [p \in Products |-> IF p \in Both THEN Nowhere ELSE row[p].url]]

Scan(r) ==
    /\ run[r].step = "scan"
    /\ run' = [run EXCEPT ![r] =
           [run[r] EXCEPT !.step = IF Listed = {} THEN "publish" ELSE "work",
                          !.todo = Both, !.stops = run[r].stops /\ Listed # {},
                          !.plan = Compared]]
    /\ state' = [state EXCEPT !.workers = TRUE]
    /\ sure' = {}
    /\ UNCHANGED <<vendor, row, pending, applying, confirm, job, closed, swept, masked, upsets>>

\* A worker reads the row of its product, then asks the vendor.
Begin(r, p) ==
    /\ run[r].step = "work" /\ p \in run[r].todo \ run[r].begun
    /\ run' = [run EXCEPT ![r] = [run[r] EXCEPT !.begun = @ \cup {p}, !.base[p] = row[p].paths]]
    /\ sure' = {}
    /\ UNCHANGED <<vendor, row, state, pending, applying, confirm, job, closed, swept, masked, upsets>>

\* diff_package_types: paths are told apart by chain and type, so that none is
\* ever modified.
Additions(base, got) == got \ base
Deletions(base, got) == base \ got

\* Mutant: the answers are collected without a look.
NeverCancelled(r) == FALSE
\* _run looks for a cancellation whenever it takes a worker's answer.
Cancelled(r) == state.cancel

\* The run with the answer about p.
Answered(r, p, got) ==
    LET base == run[r].base[p]
        left == run[r].todo \ {p}
    IN  [run[r] EXCEPT
            !.todo = left, !.begun = @ \ {p}, !.base[p] = {},
            !.step = IF left = {} THEN "publish" ELSE "work",
            !.plan = [run[r].plan EXCEPT !.add[p] = Additions(base, got),
                                         !.del[p] = Deletions(base, got)],
            !.doubt = IF got = Shown(p) THEN @ ELSE @ \cup {p}]

GivesUp(r) ==
    /\ Cancelled(r)
    /\ run' = [run EXCEPT ![r] = Ended("cancelled")]
    /\ state' = [state EXCEPT !.active = FALSE]
    /\ Unmasked(r) /\ UNCHANGED upsets

\* A worker that raises is noted as failed, and no difference is planned for its
\* product.  All of them raise while the list of the products at work is missing,
\* from the end of a confirmation, which replaces the state, to the next scan.
Raised(r, p) ==
    /\ IF state.workers THEN Upset ELSE UNCHANGED upsets
    /\ run' = [run EXCEPT ![r] = Answered(r, p, run[r].base[p])]
    /\ UNCHANGED <<state, masked>>

Worked(r, p) ==
    /\ run[r].step = "work" /\ p \in run[r].begun
    /\ sure' = {}
    /\ \/ GivesUp(r)
       \/ /\ ~Cancelled(r) /\ state.workers
          /\ \E got \in SUBSET Shown(p) :
                /\ Fetched(p, got)
                /\ run' = [run EXCEPT ![r] = Answered(r, p, got)]
          /\ UNCHANGED <<state, masked>>
       \/ ~Cancelled(r) /\ Raised(r, p)
    /\ UNCHANGED <<vendor, row, pending, applying, confirm, job, closed, swept>>

\* New products have workers too, which ask nobody; where nothing is compared,
\* theirs are the answers at which a cancellation is seen.
OnlyNew(r) ==
    /\ run[r].step = "work" /\ run[r].todo = {}
    /\ sure' = {}
    /\ \/ GivesUp(r)
       \/ /\ ~Cancelled(r)
          /\ run' = [run EXCEPT ![r].step = "publish"]
          /\ UNCHANGED <<state, masked, upsets>>
    /\ UNCHANGED <<vendor, row, pending, applying, confirm, job, closed, swept>>

Publish(r) ==
    /\ run[r].step = "publish"
    /\ run' = [run EXCEPT ![r].step = "save"]
    /\ state' = [state EXCEPT !.active = FALSE, !.result = r]
    /\ swept' = swept \cup ({state.result} \ {0, pending})
    /\ Unmasked(r)
    /\ sure' = {}
    /\ UNCHANGED <<vendor, row, pending, applying, confirm, job, closed, upsets>>

\* _save_pending, after the lock is let go.
Save(r) ==
    /\ run[r].step = "save"
    /\ run' = [run EXCEPT ![r].step = "done"]
    /\ pending' = r
    /\ swept' = swept \cup ({pending} \ {0, state.result})
    /\ sure' = {}
    /\ UNCHANGED <<vendor, row, state, applying, confirm, job, closed, masked, upsets>>

\* An exception: the index page fails, or the database.  The file goes too,
\* whoever wrote it.
Fails(r) ==
    /\ run[r].step \in {"scan", "work"} /\ Upset
    /\ run' = [run EXCEPT ![r] = Ended("failed")]
    /\ state' = [state EXCEPT !.active = FALSE, !.result = 0]
    /\ pending' = 0
    /\ swept' = swept \cup ({state.result, pending} \ {0})
    /\ Unmasked(r)
    /\ sure' = {}
    /\ UNCHANGED <<vendor, row, applying, confirm, job, closed>>

\* discover_products_cancel.
Cancel ==
    /\ state.active /\ ~state.cancel /\ Upset
    /\ state' = [state EXCEPT !.cancel = TRUE]
    /\ run' = [r \in Runs |-> IF run[r].step \in {"scan", "work"}
                              THEN [run[r] EXCEPT !.stops = TRUE] ELSE run[r]]
    /\ sure' = {}
    /\ UNCHANGED <<vendor, row, pending, applying, confirm, job, closed, swept, masked>>

(***************************************************************************)
(* discover_products_confirm.  There must be a result, but what is applied *)
(* is the one that the user's page still shows.                            *)
(***************************************************************************)
\* Mutant: nobody asks whether a confirmation is being applied.
AlwaysConfirms == TRUE
MayConfirm == ~applying

Confirm(c, r) ==
    /\ confirm[c].step = "new" /\ \A d \in Confirms : d < c => confirm[d].step # "new"
    /\ MayConfirm /\ Published(r) /\ (state.result # 0 \/ pending # 0)
    /\ applying' = TRUE
    /\ confirm' = [confirm EXCEPT ![c] = [confirm[c] EXCEPT
           !.step = "products", !.of = r,
           !.todo = {p \in Products : run[r].plan.added[p] # Nowhere \/ run[r].plan.removed[p] # Nowhere}]]
    /\ sure' = {}
    /\ UNCHANGED <<vendor, row, state, pending, run, job, closed, swept, masked, upsets>>

\* upsert_source works by name: the row of a product that has moved loses its
\* paths.  delete_source works by address.
Updated(p, plan) ==
    IF plan.added[p] # Nowhere
    THEN Row(plan.added[p], {}, There(p) /\ row[p].marked, IF There(p) THEN row[p].id ELSE row[p].id + 1)
    ELSE IF row[p].url = plan.removed[p] THEN Row(Nowhere, {}, FALSE, row[p].id) ELSE row[p]

UpdateProduct(c, p) ==
    /\ confirm[c].step = "products" /\ p \in confirm[c].todo
    /\ row' = [row EXCEPT ![p] = Updated(p, Plan(c))]
    /\ confirm' = [confirm EXCEPT ![c].todo = @ \ {p}]
    /\ run' = DoubtfulRuns(p) /\ job' = DoubtfulJobs(p)
    /\ sure' = IF Plan(c).added[p] = Nowhere /\ p \notin run[confirm[c].of].doubt THEN {p} ELSE {}
    /\ UNCHANGED <<vendor, state, pending, applying, closed, swept, masked, upsets>>

\* The thread wants an active session, although it will ask the vendor nothing.
CheckSession(c) ==
    /\ confirm[c].step = "products" /\ confirm[c].todo = {}
    /\ LET todo == {p \in Products : Plan(c).add[p] # {} \/ Plan(c).del[p] # {}}
       IN  confirm' = [confirm EXCEPT ![c] =
               [confirm[c] EXCEPT !.todo = todo, !.step = IF todo = {} THEN "end" ELSE "pick"]]
    /\ sure' = {}
    /\ UNCHANGED <<vendor, row, state, pending, run, applying, job, closed, swept, masked, upsets>>

\* The row as it is now; a product that is no longer at its address is passed
\* over.
Pick(c, p) ==
    LET left == confirm[c].todo \ {p}
        found == row[p].url = Plan(c).at[p]
    IN  /\ confirm[c].step = "pick" /\ p \in confirm[c].todo
        /\ confirm' = [confirm EXCEPT ![c] =
               [confirm[c] EXCEPT
                   !.todo = left,
                   !.step = IF found THEN "write" ELSE IF left = {} THEN "end" ELSE "pick",
                   !.product = IF found THEN p ELSE 0, !.id = IF found THEN row[p].id ELSE 0,
                   !.cur = IF found THEN row[p].paths ELSE {}]]
        /\ sure' = {}
        /\ UNCHANGED <<vendor, row, state, pending, run, applying, job, closed, swept, masked, upsets>>

\* A difference that the row already has is taken for one of wording: the row
\* stays, and its mark goes.
Applied(cur, add, del) == (cur \ del) \cup add
RealChange(cur, add, del) == del \cap cur # {} \/ add \ cur # {}

\* UPDATE ... WHERE id = ?
Stored(p, id, paths, marked) ==
    IF There(p) /\ row[p].id = id THEN [row EXCEPT ![p] = Row(row[p].url, paths, marked, id)] ELSE row
Sure(p, id, doubt) == IF There(p) /\ row[p].id = id /\ ~doubt THEN {p} ELSE {}

Write(c) ==
    LET p == confirm[c].product  id == confirm[c].id  cur == confirm[c].cur
        add == Plan(c).add[p]  del == Plan(c).del[p]
        real == RealChange(cur, add, del)
    IN  /\ confirm[c].step = "write"
        /\ row' = Stored(p, id, IF real THEN Applied(cur, add, del) ELSE cur, real)
        /\ run' = DoubtfulRuns(p) /\ job' = DoubtfulJobs(p)
        /\ sure' = Sure(p, id, p \in run[confirm[c].of].doubt)
        /\ confirm' = [confirm EXCEPT ![c] = [confirm[c] EXCEPT
               !.step = IF confirm[c].todo = {} THEN "end" ELSE "pick", !.product = 0, !.id = 0, !.cur = {}]]
        /\ UNCHANGED <<vendor, state, pending, applying, closed, swept, masked, upsets>>

MaskedWithout(c) == IF \E d \in Confirms \ {c} : Applies(d) THEN masked ELSE masked \ {"confirm"}

\* An exception: no active session, or the database.  What was written stays,
\* and so does the result.  The handler raises in its turn, since _log takes no
\* level here: it does not come to taking the flag down.
ConfirmFails(c) ==
    /\ confirm[c].step \in {"products", "pick", "write"} /\ Upset
    /\ confirm' = [confirm EXCEPT ![c] = [NewConfirm EXCEPT !.step = "failed"]]
    /\ masked' = MaskedWithout(c) \cup (IF applying THEN {"left"} ELSE {})
    /\ sure' = {}
    /\ UNCHANGED <<vendor, row, state, pending, run, applying, job, closed, swept>>

\* The end: the flag, the file and the memory, one after the other and
\* whatever they hold by now.
ConfirmEnds(c) ==
    /\ confirm[c].step = "end"
    /\ confirm' = [confirm EXCEPT ![c].step = "clear"]
    /\ applying' = FALSE
    /\ masked' = MaskedWithout(c) \ {"left"}
    /\ sure' = {}
    /\ UNCHANGED <<vendor, row, state, pending, run, job, closed, swept, upsets>>

ClearFile(c) ==
    /\ confirm[c].step = "clear"
    /\ confirm' = [confirm EXCEPT ![c].step = "reset"]
    /\ pending' = 0
    /\ swept' = swept \cup ({pending} \ {0, state.result, confirm[c].of})
    /\ sure' = {}
    /\ UNCHANGED <<vendor, row, state, run, applying, job, closed, masked, upsets>>

\* The state that the confirmation leaves behind.
Cleared == NoState

Reset(c) ==
    /\ confirm[c].step = "reset"
    /\ confirm' = [confirm EXCEPT ![c].step = "done"]
    /\ state' = Cleared
    /\ MaskedBy({"run"}, masked)
    /\ run' = [r \in Runs |-> [run[r] EXCEPT !.stops = FALSE]]
    /\ closed' = closed \cup {r \in {confirm[c].of} : run[r].step = "done" /\ pending # r}
    /\ swept' = swept \cup ({state.result} \ {0, pending, confirm[c].of})
    /\ sure' = {}
    /\ UNCHANGED <<vendor, row, pending, applying, job, upsets>>

\* Mutant: the file is left alone.
FileStays == pending
\* discover_confirm_discard.
Dropped == 0

Discard ==
    /\ Upset
    /\ pending' = Dropped
    /\ state' = [state EXCEPT !.active = FALSE, !.result = 0]
    /\ applying' = FALSE
    /\ MaskedBy({"run", "confirm"}, masked \ {"left"})
    /\ closed' = closed \cup {r \in Runs : Offered(r) /\ run[r].step = "done"}
    /\ sure' = {}
    /\ UNCHANGED <<vendor, row, run, confirm, job, swept>>

(***************************************************************************)
(* refresh_pkg_type_single and _check_package_types_fresh, for one product *)
(***************************************************************************)
StartJob(k, p) ==
    /\ job[k].step = "none" /\ There(p) /\ Upset
    /\ job' = [job EXCEPT ![k] = [NoJob EXCEPT !.step = "crawl", !.product = p, !.id = row[p].id,
                                               !.old = row[p].paths]]
    /\ sure' = {}
    /\ UNCHANGED <<vendor, row, state, pending, run, applying, confirm, closed, swept, masked>>

Crawl(k) ==
    LET p == job[k].product
    IN  /\ job[k].step = "crawl"
        /\ \E got \in SUBSET Shown(p) :
              /\ Fetched(p, got)
              /\ job' = [job EXCEPT ![k] = [job[k] EXCEPT !.step = "write", !.got = got,
                                                          !.doubt = @ \/ got # Shown(p)]]
        /\ sure' = {}
        /\ UNCHANGED <<vendor, row, state, pending, run, applying, confirm, closed, swept, masked>>

\* An empty answer is not for refresh_pkg_type_single; the check takes it, and
\* writes only what differs.
Keeps(k, old, got) == IF k = "refresh" THEN got # {} ELSE got # old
\* Mutant: the mark as it used to be.
NeverMarks(old, got) == FALSE
\* package_type_changed after the write.
Marks(old, got) == old # got

JobWrites(k) ==
    LET p == job[k].product  old == job[k].old  got == job[k].got
    IN  /\ job[k].step = "write"
        /\ IF Keeps(k, old, got)
           THEN /\ row' = Stored(p, job[k].id, got, Marks(old, got))
                /\ run' = DoubtfulRuns(p)
                /\ job' = [DoubtfulJobs(p) EXCEPT ![k] = NoJob]
                /\ sure' = Sure(p, job[k].id, job[k].doubt)
           ELSE UNCHANGED <<row, run>> /\ job' = [job EXCEPT ![k] = NoJob] /\ sure' = {}
        /\ UNCHANGED <<vendor, state, pending, applying, confirm, closed, swept, masked, upsets>>

(***************************************************************************)
(* The vendor, the user and the service                                    *)
(***************************************************************************)
\* A product moves, leaves the index or returns; a path comes or goes.
Changes(p) ==
    /\ Upset
    /\ \/ \E url \in 0..2 : url # vendor[p].url /\ vendor' = [vendor EXCEPT ![p].url = url]
       \/ \E q \in Paths : vendor' = [vendor EXCEPT ![p].paths = (@ \ {q}) \cup ({q} \ @)]
    /\ run' = DoubtfulRuns(p) /\ job' = DoubtfulJobs(p)
    /\ sure' = {}
    /\ UNCHANGED <<row, state, pending, applying, confirm, closed, swept, masked>>

\* update_product (the mark is acknowledged), delete_product, create_product.
Edits(p) ==
    /\ Upset
    /\ \/ /\ There(p) /\ row[p].marked
          /\ row' = [row EXCEPT ![p].marked = FALSE]
       \/ There(p) /\ row' = [row EXCEPT ![p] = Row(Nowhere, {}, FALSE, row[p].id)]
       \/ /\ ~There(p) /\ vendor[p].url # Nowhere
          /\ row' = [row EXCEPT ![p] = Row(vendor[p].url, {}, FALSE, row[p].id + 1)]
    /\ run' = DoubtfulRuns(p) /\ job' = DoubtfulJobs(p)
    /\ sure' = {}
    /\ UNCHANGED <<vendor, state, pending, applying, confirm, closed, swept, masked>>

\* The threads are gone; the file is read back.
Restart ==
    /\ Upset
    /\ state' = [NoState EXCEPT !.result = pending]
    /\ applying' = FALSE /\ masked' = {}
    /\ run' = [r \in Runs |-> IF Discovering(r)
                              THEN Ended("gone")
                              ELSE IF run[r].step = "save" THEN [run[r] EXCEPT !.step = "unsaved"]
                              ELSE run[r]]
    /\ confirm' = [c \in Confirms |-> IF confirm[c].step \in {"new", "done"} THEN confirm[c]
                                      ELSE [NewConfirm EXCEPT !.step = "gone"]]
    /\ job' = [k \in Jobs |-> NoJob]
    /\ swept' = swept \cup ({state.result} \ {0, pending})
    /\ closed' = closed \cup {r \in Runs : run[r].step = "done" /\ pending # r
                                     /\ \E c \in Confirms : confirm[c].step = "reset" /\ confirm[c].of = r}
    /\ sure' = {}
    /\ UNCHANGED <<vendor, row, pending>>

DiscoverThread(r) ==
    \/ Scan(r) \/ OnlyNew(r) \/ Publish(r) \/ Save(r) \/ Fails(r)
    \/ \E p \in Products : Begin(r, p) \/ Worked(r, p)
ConfirmThread(c) ==
    \/ CheckSession(c) \/ Write(c) \/ ConfirmFails(c) \/ ConfirmEnds(c) \/ ClearFile(c) \/ Reset(c)
    \/ \E p \in Products : UpdateProduct(c, p) \/ Pick(c, p)
User ==
    \/ \E r \in Runs : StartDiscover(r) \/ \E c \in Confirms : Confirm(c, r)
    \/ Cancel \/ Discard
    \/ \E p \in Products : Edits(p) \/ \E k \in Jobs : StartJob(k, p)

Next ==
    \/ User \/ Restart
    \/ \E r \in Runs : DiscoverThread(r)
    \/ \E c \in Confirms : ConfirmThread(c)
    \/ \E k \in Jobs : Crawl(k) \/ JobWrites(k)
    \/ \E p \in Products : Changes(p)

Spec == Init /\ [][Next]_vars

(***************************************************************************)
(* Properties                                                              *)
(***************************************************************************)
PathSets == SUBSET Paths
Plans == [at : [Products -> 0..2], added : [Products -> 0..2], removed : [Products -> 0..2],
          add : [Products -> PathSets], del : [Products -> PathSets]]
Rows == [url : 0..2, paths : PathSets, marked : BOOLEAN, id : Nat]
RunStates == [step : {"new", "scan", "work", "publish", "save", "done",
                      "unsaved", "cancelled", "failed", "gone"},
              todo : SUBSET Products, begun : SUBSET Products, base : [Products -> PathSets],
              plan : Plans, doubt : SUBSET Products, stops : BOOLEAN]
ConfirmStates == [step : {"new", "products", "pick", "write", "end", "clear", "reset", "done",
                          "failed", "gone"},
                  of : 0..MaxRuns, todo : SUBSET Products, product : Products \cup {0},
                  id : Nat, cur : PathSets]
JobStates == [step : {"none", "crawl", "write"}, product : Products \cup {0}, id : Nat,
              old : PathSets, got : PathSets, doubt : BOOLEAN]

\* The tables and the threads keep their types.
TypeOK ==
    /\ vendor \in [Products -> [url : 0..2, paths : PathSets]]
    /\ row \in [Products -> Rows]
    /\ state \in [active : BOOLEAN, result : 0..MaxRuns, cancel : BOOLEAN, workers : BOOLEAN]
    /\ pending \in 0..MaxRuns /\ applying \in BOOLEAN
    /\ run \in [Runs -> RunStates]
    /\ \A r \in Runs : /\ run[r].begun \subseteq run[r].todo
                       /\ run[r].todo # {} => run[r].step = "work"
    /\ confirm \in [Confirms -> ConfirmStates]
    /\ job \in [Jobs -> JobStates]
    /\ closed \subseteq Runs /\ swept \subseteq Runs
    /\ masked \subseteq {"run", "confirm", "left"} /\ sure \subseteq Products /\ upsets \in 0..MaxUpsets

\* One discovery and one confirmation at a time, and their flags say so, unless
\* a flag was taken down under a thread: discarding does that to both kinds,
\* the end of a confirmation to a discovery.  Once all threads have ended the
\* flag of discoveries is down, whatever happened; that of confirmations is up
\* only if one failed and left it up, and then it stays up, so that nothing can be
\* confirmed, until something is discarded or the service restarts.
FlagsTellThreads ==
    LET working == {r \in Runs : Discovering(r)}
        writing == {c \in Confirms : Applies(c)}
        left == "left" \in masked
    IN  /\ state.active => working # {}
        /\ applying => writing # {} \/ left
        /\ left => applying
        /\ "run" \notin masked => Cardinality(working) = IF state.active THEN 1 ELSE 0
        /\ "confirm" \notin masked => Cardinality(writing) = IF applying /\ ~left THEN 1 ELSE 0

\* Who writes the paths of a product, and has not been overtaken by a change of
\* the row or of the pages since he read them, and whose fetches all worked,
\* leaves the row as the vendor's pages are, and marks it when that changed it.
\* All the rest is lost and forgotten only through a failed fetch, a stale
\* result, two writers that cross, or a product that moved.
CleanWriteMirrors ==
    [][\A p \in sure' :
          /\ row'[p].url # Nowhere =>
                 row'[p].url # vendor[p].url \/ row'[p].paths = vendor[p].paths
          /\ row'[p].url = Nowhere => vendor[p].url # row[p].url
          /\ row'[p].url # Nowhere /\ row'[p].paths # row[p].paths => row'[p].marked]_vars

\* A result that was saved stays on offer until the user discards it or
\* confirms it to the end, through failed confirmations (after which it is shown,
\* but cannot be confirmed before a restart), cancelled discoveries and restarts.
\* Only another discovery that fails or delivers, the end of another confirmation,
\* and two saves that cross take it away.
ResultStaysOffered ==
    \A r \in Runs : run[r].step = "done" /\ r \notin closed \cup swept =>
        Offered(r) \/ \E c \in Confirms : confirm[c].step = "reset" /\ confirm[c].of = r

\* A result that was confirmed to the end or discarded is never on offer
\* again; for one that was discarded before _save_pending had written it this
\* does not hold.
ClosedStaysClosed == \A r \in closed : ~Offered(r)

\* A discovery that was cancelled with products still to be looked at delivers
\* no result, unless its state was replaced before it saw the cancellation.
CancelIsHeeded == \A r \in Runs : run[r].stops => ~Published(r) /\ run[r].step # "publish"

(***************************************************************************)
(* The inductive invariant of DiscoveryProofs                              *)
(***************************************************************************)
\* FlagsTellThreads without counting.
FlagsAreTrue ==
    /\ state.active => \E r \in Runs : Discovering(r)
    /\ applying => "left" \in masked \/ \E c \in Confirms : Applies(c)
    /\ "left" \in masked => applying
    /\ "run" \notin masked =>
          \A r \in Runs : Discovering(r) => /\ state.active
                                           /\ \A q \in Runs : Discovering(q) => q = r
    /\ "confirm" \notin masked =>
          \A c \in Confirms : Applies(c) => /\ applying /\ "left" \notin masked
                                           /\ \A d \in Confirms : Applies(d) => d = c

\* Only saved results are closed.
ClosedAreDone == \A r \in closed : run[r].step = "done"

\* A run that a cancellation must stop is not past its answers, and will see it.
StopsAreSeen ==
    \A r \in Runs : run[r].stops => state.cancel /\ run[r].step \in {"scan", "work"}

\* What a run in state h knows about product p, with its row and the vendor's pages.
Knows(h, p, known, shown) ==
    /\ p \in h.todo => h.plan.removed[p] = Nowhere
    /\ (/\ h.step \in {"work", "publish", "save", "done", "unsaved"}
        /\ p \notin h.todo \ h.begun /\ p \notin h.doubt) =>
          /\ (h.plan.added[p] = Nowhere /\ h.plan.removed[p] # Nowhere) =>
                known.url = h.plan.removed[p] /\ shown.url = Nowhere
          /\ p \in h.begun => h.base[p] = known.paths
          /\ (p \notin h.todo /\ known.url # Nowhere /\ known.url = shown.url) =>
                /\ h.plan.add[p] = shown.paths \ known.paths
                /\ h.plan.del[p] = known.paths \ shown.paths
PlansAreTrue == \A r \in Runs, p \in Products : Knows(run[r], p, row[p], vendor[p])

\* What a confirmation applies is a published plan, and what it picked is the row.
ConfirmsAreTrue ==
    \A c \in Confirms :
        LET h == confirm[c] IN
        h.step \in {"products", "pick", "write", "end", "clear", "reset"} =>
            /\ h.of \in Runs /\ Published(h.of)
            /\ h.step = "products" =>
                  \A p \in h.todo : Plan(c).added[p] # Nowhere \/ Plan(c).removed[p] # Nowhere
            /\ h.step = "write" =>
                  /\ h.product \in Products
                  /\ h.product \notin run[h.of].doubt => h.cur = row[h.product].paths

\* What a refresh or the check has at hand is the row, and then the pages.
JobsAreTrue ==
    \A k \in Jobs :
        LET h == job[k] IN
        h.step # "none" =>
            /\ h.product \in Products
            /\ ~ h.doubt => There(h.product) /\ h.old = row[h.product].paths
            /\ (~ h.doubt /\ h.step = "write") => h.got = Shown(h.product)

KInv ==
    /\ TypeOK /\ FlagsAreTrue /\ ResultStaysOffered /\ ClosedStaysClosed /\ ClosedAreDone
    /\ StopsAreSeen /\ PlansAreTrue /\ ConfirmsAreTrue /\ JobsAreTrue
=============================================================================
