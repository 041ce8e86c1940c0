----------------------------- MODULE ChainCache -----------------------------
(***************************************************************************)
(* The chains of every source, which content_sources holds and the         *)
(* scheduler keeps in memory (_url_chain_cache) for the matching of new    *)
(* packages against rules.  _build_url_chain_cache puts an empty           *)
(* dictionary in place of the old one, reads the table, and fills in one   *)
(* source after the other; nobody holds a lock.  It is called at the       *)
(* start, by invalidate_chain_cache, and by a look-up that finds nothing   *)
(* loaded.                                                                 *)
(*                                                                         *)
(* The chains of a source are the number of the write that put them there; *)
(* Missing, if the table has no active row of it.                          *)
(***************************************************************************)
EXTENDS Naturals, FiniteSets

CONSTANTS
    Sources,
    Savers,      \* requests and confirmations: they write, then invalidate
    Lookers,     \* threads that match new packages against rules
    MaxWrites,   \* bound: writes to content_sources
    MaxFaults    \* bound: queries that fail

VARIABLES
    chains,    \* content_sources: the chains of each source
    cache,     \* _url_chain_cache; Missing where a source has no entry
    loaded,    \* _chain_cache_loaded
    thread,    \* what each thread is doing
    unseen,    \* history: sources written since a build last read the table
    come,      \* history: those of them that were not in it before
    spoiled,   \* history: builds have crossed, or one broke off under a loaded cache
    writes, faults

vars == <<chains, cache, loaded, thread, unseen, come, spoiled, writes, faults>>

ASSUME CacheAssumption ==
    /\ IsFiniteSet(Sources) /\ Savers \cap Lookers = {}
    /\ MaxWrites \in Nat \ {0} /\ MaxFaults \in Nat

Threads == Savers \cup Lookers
Missing == 0
Versions == 1..MaxWrites
NoEntries == [s \in Sources |-> Missing]
Idle == [step |-> "idle", rows |-> NoEntries, left |-> {}]

Building(t) == thread[t].step \in {"read", "fill"}
OthersBuild(t) == \E u \in Threads \ {t} : Building(u)

\* The scheduler has started and built the cache.
Init ==
    /\ \E rows \in SUBSET Sources : chains = [s \in Sources |-> IF s \in rows THEN 1 ELSE Missing]
    /\ cache = chains /\ loaded = TRUE
    /\ thread = [t \in Threads |-> Idle]
    /\ unseen = {} /\ come = {} /\ spoiled = FALSE
    /\ writes = 1 /\ faults = 0

\* A source gets other chains, comes or goes.
Written(s) ==
    /\ writes < MaxWrites /\ writes' = writes + 1
    /\ \E new \in {Missing, writes + 1} \ {chains[s]} : chains' = [chains EXCEPT ![s] = new]
    /\ unseen' = unseen \cup {s}
    /\ come' = IF chains[s] = Missing THEN come \cup {s} ELSE come

(***************************************************************************)
(* Writers of content_sources                                              *)
(***************************************************************************)
\* update_product, and a confirmation that reaches its end.
Save(t, s) ==
    /\ thread[t].step = "idle"
    /\ Written(s)
    /\ thread' = [thread EXCEPT ![t].step = "invalidate"]
    /\ UNCHANGED <<cache, loaded, spoiled, faults>>

\* Those that leave the cache alone: create_product and delete_product, a
\* refresh, the check after a full run, a confirmation that fails half-way.
WriteSilently(s) ==
    /\ Written(s)
    /\ UNCHANGED <<cache, loaded, thread, spoiled, faults>>

\* invalidate_chain_cache, before the build.
Invalidate(t) ==
    /\ thread[t].step = "invalidate"
    /\ loaded' = FALSE
    /\ thread' = [thread EXCEPT ![t].step = "bind"]
    /\ UNCHANGED <<chains, cache, unseen, come, spoiled, writes, faults>>

(***************************************************************************)
(* _build_url_chain_cache                                                  *)
(***************************************************************************)
Bind(t) ==
    /\ thread[t].step = "bind"
    /\ cache' = NoEntries
    /\ thread' = [thread EXCEPT ![t].step = "read"]
    /\ spoiled' = OthersBuild(t)
    /\ UNCHANGED <<chains, loaded, unseen, come, writes, faults>>

ReadTable(t) ==
    /\ thread[t].step = "read"
    /\ thread' = [thread EXCEPT ![t] = [step |-> "fill", rows |-> chains,
                                        left |-> {s \in Sources : chains[s] # Missing}]]
    /\ unseen' = {} /\ come' = {}
    /\ UNCHANGED <<chains, cache, loaded, spoiled, writes, faults>>

\* The query fails; the dictionary stays as it is, and so does the flag.
ReadFails(t) ==
    /\ thread[t].step = "read" /\ faults < MaxFaults
    /\ faults' = faults + 1
    /\ thread' = [thread EXCEPT ![t] = Idle]
    /\ spoiled' = (spoiled \/ loaded)
    /\ UNCHANGED <<chains, cache, loaded, unseen, come, writes>>

\* Each entry goes to whatever dictionary is in place by now.
Fill(t, s) ==
    /\ thread[t].step = "fill" /\ s \in thread[t].left
    /\ cache' = [cache EXCEPT ![s] = thread[t].rows[s]]
    /\ thread' = [thread EXCEPT ![t].left = @ \ {s}]
    /\ UNCHANGED <<chains, loaded, unseen, come, spoiled, writes, faults>>

\* Mutant: a build that is over early.
EndsEarly(t) == Cardinality(thread[t].left) <= 1
\* All rows are in.
Filled(t) == thread[t].left = {}

EndBuild(t) ==
    /\ thread[t].step = "fill" /\ Filled(t)
    /\ loaded' = TRUE
    /\ thread' = [thread EXCEPT ![t] = IF t \in Lookers THEN [Idle EXCEPT !.step = "look"] ELSE Idle]
    /\ UNCHANGED <<chains, cache, unseen, come, spoiled, writes, faults>>

(***************************************************************************)
(* _get_chain                                                              *)
(***************************************************************************)
LookUp(t) ==
    /\ thread[t].step = "idle"
    /\ thread' = [thread EXCEPT ![t].step = IF loaded THEN "look" ELSE "bind"]
    /\ UNCHANGED <<chains, cache, loaded, unseen, come, spoiled, writes, faults>>

\* The entry of s is taken from the dictionary that is in place; without one
\* the package matches no rule with conditions on chains.
Look(t, s) ==
    /\ thread[t].step = "look"
    /\ thread' = [thread EXCEPT ![t] = Idle]
    /\ UNCHANGED <<chains, cache, loaded, unseen, come, spoiled, writes, faults>>

Step(t) ==
    \/ Invalidate(t) \/ Bind(t) \/ ReadTable(t) \/ EndBuild(t)
    \/ \E s \in Sources : Fill(t, s) \/ Look(t, s)

Next ==
    \/ \E t \in Threads : Step(t) \/ ReadFails(t)
    \/ \E t \in Savers, s \in Sources : Save(t, s)
    \/ \E s \in Sources : WriteSilently(s)
    \/ \E t \in Lookers : LookUp(t)

Spec == Init /\ [][Next]_vars

(***************************************************************************)
(* Properties                                                              *)
(***************************************************************************)
Steps == {"idle", "invalidate", "bind", "read", "fill", "look"}
TypeOK ==
    /\ chains \in [Sources -> Versions \cup {Missing}]
    /\ cache \in [Sources -> Versions \cup {Missing}]
    /\ loaded \in BOOLEAN /\ spoiled \in BOOLEAN
    /\ thread \in [Threads -> [step : Steps, rows : [Sources -> Versions \cup {Missing}],
                               left : SUBSET Sources]]
    /\ unseen \subseteq Sources /\ come \subseteq Sources
    /\ writes \in Versions /\ faults \in Nat

\* A cache that counts as loaded, with no build under way, has the chains that
\* the table has, save those of sources which were written without a build
\* since.  It takes two builds that cross, or one that breaks off under a
\* loaded cache, to leave old or missing entries behind.
CacheIsCurrent ==
    loaded /\ ~spoiled /\ (\A t \in Threads : ~Building(t)) =>
        \A s \in Sources \ unseen : cache[s] = chains[s]

\* A look-up that finds no entry for a source of the table, so that no rule with
\* conditions on chains can match, is for one that came without a build since
\* (create_product makes none), falls into somebody else's build, or comes after
\* builds that crossed or failed.  New chains alone, whoever wrote them, never
\* leave a source without an entry.
BlindForACause ==
    [][\A t \in Lookers, s \in Sources : Look(t, s) =>
          \/ chains[s] = Missing \/ cache[s] # Missing
          \/ s \in come \/ OthersBuild(t) \/ spoiled \/ ~loaded]_vars

(***************************************************************************)
(* The inductive invariant                                                 *)
(***************************************************************************)
\* Builds that do not cross follow each other, and read into nothing.
OneBuild ==
    ~spoiled => \A t, u \in Threads : Building(t) /\ Building(u) => t = u
ReadsIntoNothing ==
    ~spoiled => \A t \in Threads : thread[t].step = "read" => cache = NoEntries
\* A build has read every source, and what it read is current, except for what
\* was written since; what it has filled in is there.
RowsAreThere ==
    ~spoiled => \A t \in Threads : thread[t].step = "fill" =>
        \A s \in Sources \ come : chains[s] # Missing => thread[t].rows[s] # Missing
BuildIsCurrent ==
    ~spoiled => \A t \in Threads : thread[t].step = "fill" =>
        \A s \in Sources : /\ s \notin unseen => thread[t].rows[s] = chains[s]
                           /\ s \notin thread[t].left => cache[s] = thread[t].rows[s]
CacheIsComplete ==
    loaded /\ ~spoiled /\ (\A t \in Threads : ~Building(t)) =>
        \A s \in Sources \ come : chains[s] # Missing => cache[s] # Missing
IInv ==
    /\ TypeOK /\ OneBuild /\ ReadsIntoNothing /\ RowsAreThere /\ BuildIsCurrent
    /\ CacheIsComplete /\ CacheIsCurrent
=============================================================================
