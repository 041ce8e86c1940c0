---------------------------- MODULE SessionPool ----------------------------
(***************************************************************************)
(* The pool of vendor sessions (cookies) that collections work with, and   *)
(* the three judges of them:                                               *)
(*                                                                         *)
(*  - the pre-flight of run_now, which probes every active session and     *)
(*    picks the first good one that is meant for collecting;               *)
(*  - _session_heartbeat, which probes every active session in the         *)
(*    background;                                                          *)
(*  - the user, who adds, re-validates, edits and deletes sessions.        *)
(*                                                                         *)
(* A judge asks the vendor first and writes status and heartbeat result in *)
(* two later statements, then tells the administrators: verdicts cross.    *)
(* Nobody writes last_valid, so that the order of the sessions is open.    *)
(***************************************************************************)
EXTENDS Naturals, FiniteSets, Sequences, SequencesExt

CONSTANTS
    Sessions, None,
    Modes,        \* collect_mode, in alphabetical order
    Starts,       \* the tables to begin with
    MaxTurns,     \* bound: sessions that the vendor gives up
    MaxUpsets     \* bound: failures, misleading pages, and what the user does

VARIABLES
    vendor,   \* what the vendor thinks of each cookie
    row,      \* user_sessions
    hand,     \* what each judge has at hand
    round,    \* _session_heartbeat: the sessions still to probe, with their purpose
    run,      \* run_now and run_for_source
    told,     \* history: the loss of the session was told, or the notice was lost
    cause,    \* history: why the session left the pool
    mixed,    \* history: status and heartbeat result stem from two verdicts
    edited,   \* history: edited or deleted by the user since the run began
    upsets

vars == <<vendor, row, hand, round, run, told, cause, mixed, edited, upsets>>

Judges == {"preflight", "heartbeat", "user"}
Purposes == {"collect", "discover"}
Statuses == {"absent", "unknown", "active", "expired", "polluted"}
Beats == {"ok", "expired", "polluted", "error"}

\* What a probe is taken for: "marked" is pollution judged by the page alone.
Verdicts == Beats \cup {"marked"}
Row == [status : Statuses, purpose : Purposes, mode : ToSet(Modes), beat : Beats \cup {""}]

\* (A table to begin with is one that create_session and good heartbeats left.)
ASSUME PoolAssumption ==
    /\ IsFiniteSet(Sessions) /\ None \notin Sessions
    /\ MaxUpsets \in Nat /\ MaxTurns \in Nat
    /\ Modes # <<>> /\ Modes \in Seq(ToSet(Modes))
    /\ \A start \in Starts :
          /\ start \in [Sessions -> Row]
          /\ \A s \in Sessions : /\ start[s].status \in {"absent", "active"}
                                 /\ start[s].beat \notin {"expired", "polluted"}

\* What the vendor answers, and in trouble an error page or nothing at all. The
\* page of a session that works may carry the marker of a polluted one: those of
\* some products, and HEALTH_URL belongs to one of them, do so by design.
Answers(s) ==
    CASE vendor[s] = "good" -> {"page", "marker"}
      [] vendor[s] = "polluted" -> {"marker", "license"}
      [] OTHER -> {"portal"}
Bad == {"odd", "nothing"}
Misleads(s, a) == a \in Bad \/ (a = "marker" /\ vendor[s] = "good")

Unread == [s \in Sessions |-> "none"]
Free == [step |-> "none", sid |-> None, verdict |-> "ok"]
NoRun == [phase |-> "idle", kind |-> "", todo |-> Unread, pool |-> <<>>, chosen |-> None,
          jar |-> None, at |-> 1, seen |-> {}]
NoEntry == [status |-> "absent", purpose |-> "collect", mode |-> Modes[1], beat |-> ""]
Entry(status, purpose, mode, beat) ==
    [status |-> status, purpose |-> purpose, mode |-> mode, beat |-> beat]

Active(s) == row[s].status = "active"
Out(s) == row[s].status \in {"expired", "polluted"}

\* get_active_sessions: a list of rows, read once.
ActiveSessions == [s \in Sessions |-> IF Active(s) THEN row[s].purpose ELSE "none"]

\* get_active_collect_sessions: the first session of each mode.
CollectPools ==
    LET of(m) == {s \in Sessions : /\ Active(s) /\ row[s].purpose = "collect"
                                   /\ row[s].mode = Modes[m]}
        used == {m \in 1 .. Len(Modes) : of(m) # {}}
    IN  {list \in [1 .. Cardinality(used) -> Sessions] :
            \E mode \in [DOMAIN list -> used] :
                \A i, k \in DOMAIN list : list[i] \in of(mode[i]) /\ (i < k => mode[i] < mode[k])}

Init ==
    /\ row \in Starts
    /\ vendor = [s \in Sessions |-> IF Active(s) THEN "good" ELSE "none"]
    /\ hand = [j \in Judges |-> Free] /\ round = Unread /\ run = NoRun
    /\ told = [s \in Sessions |-> ""] /\ cause = [s \in Sessions |-> ""]
    /\ mixed = {} /\ edited = {} /\ upsets = 0

Upset == upsets < MaxUpsets /\ upsets' = upsets + 1
SetStatus(s, status) ==
    row' = IF row[s].status = "absent" THEN row ELSE [row EXCEPT ![s].status = status]
SetBeat(s, beat) ==
    row' = IF row[s].status = "absent" THEN row ELSE [row EXCEPT ![s].beat = beat]

-----------------------------------------------------------------------------
(* The verdicts *)

\* check_session_status follows redirects.
PreflightVerdict(a) ==
    CASE a = "page" -> "ok" [] a = "marker" -> "marked" [] a = "license" -> "polluted"
      [] a = "portal" -> "expired" [] OTHER -> "error"

\* Mutant: the redirect is looked at for collecting sessions only.
NestedRedirect(a, purpose) ==
    CASE a = "marker" /\ purpose = "collect" -> "marked"
      [] a = "portal" /\ purpose = "collect" -> "expired"
      [] a = "nothing" -> "error" [] OTHER -> "ok"

\* Mutant: every answer but a page counts as expired.
OddIsExpired(a, purpose) ==
    CASE a = "marker" /\ purpose = "collect" -> "marked" [] a \in {"portal", "odd"} -> "expired"
      [] a = "nothing" -> "error" [] OTHER -> "ok"

\* _session_heartbeat looks for the marker in the pages of collecting sessions
\* only, and takes any answer but a redirect to the portal as a sign of life.
HeartbeatVerdict(a, purpose) ==
    CASE a = "marker" /\ purpose = "collect" -> "marked" [] a = "portal" -> "expired"
      [] a = "nothing" -> "error" [] OTHER -> "ok"

\* validate_session does not look at the page.
UserVerdict(a) ==
    CASE a \in {"page", "marker"} -> "ok" [] a = "portal" -> "expired" [] OTHER -> "error"

\* Probing is one request; its answer may be old when it is written down.
Probe(j, s, a, verdict) ==
    /\ hand[j] = Free
    /\ hand' = [hand EXCEPT ![j] = [step |-> "status", sid |-> s, verdict |-> verdict]]
    /\ IF Misleads(s, a) \/ j = "user" THEN Upset ELSE UNCHANGED upsets

\* The new status, or none.
StatusFor(j, v) ==
    IF v = "ok" THEN IF j = "heartbeat" THEN "none" ELSE "active"
    ELSE IF j = "preflight" THEN IF v \in {"polluted", "marked"} THEN "polluted" ELSE "expired"
    ELSE IF v = "error" THEN "none" ELSE "expired"

\* History: why a status is written.
CauseFor(j, v) ==
    CASE v = "ok" -> "" [] v = "error" -> "network" [] v = "marked" -> "marker"
      [] OTHER -> IF j = "user" THEN "validated" ELSE "seen"

\* Mutant: every probe counts as a heartbeat.
AlwaysOk(j, v) == "ok"

\* The new heartbeat result: the pre-flight writes every failure as expired.
BeatFor(j, v) ==
    IF j = "preflight" /\ v = "error" THEN "expired"
    ELSE IF v = "marked" THEN "polluted" ELSE v

\* Another judge, of another opinion, is between its probe and its last write.
Crossed(j, s) == \E k \in Judges \ {j} : hand[k].sid = s /\ hand[k].verdict # hand[j].verdict

\* A heartbeat that finds a lost session alive changes one of the two columns.
Mixes(j, s) ==
    mixed' = IF Crossed(j, s) \/ (j = "heartbeat" /\ Out(s)) THEN mixed \cup {s} ELSE mixed

\* update_status
WriteStatus(j) ==
    LET s == hand[j].sid
        v == hand[j].verdict
        new == StatusFor(j, v)
    IN
    /\ hand[j].step = "status"
    /\ IF new = "none" THEN UNCHANGED <<row, told, cause>>
       ELSE /\ SetStatus(s, new)
            /\ told' = [told EXCEPT ![s] = ""]
            /\ cause' = [cause EXCEPT ![s] = CauseFor(j, v)]
    /\ Mixes(j, s)
    /\ hand' = [hand EXCEPT ![j].step = "beat"]
    /\ UNCHANGED <<vendor, round, run, edited, upsets>>

\* Mutant: heartbeats tell of sessions for collecting only.
TellsCollectors(j) == j # "user" /\ hand[j].verdict # "ok" /\ row[hand[j].sid].purpose = "collect"

\* The user sees the answer, nobody else is told.
Tells(j) == j # "user" /\ hand[j].verdict # "ok"

\* Mutant: a session for discovery may be chosen.
PicksAny(s) == run.chosen = None

Picks(s) == run.chosen = None /\ run.todo[s] = "collect"

\* The judge turns to the next session.
Turned(j, s) ==
    IF j = "preflight"
    THEN [run EXCEPT !.todo[s] = "none",
                     !.seen = IF hand[j].verdict = "ok" /\ run.todo[s] = "collect"
                              THEN @ \cup {s} ELSE @,
                     !.chosen = IF hand[j].verdict = "ok" /\ Picks(s) THEN s ELSE run.chosen]
    ELSE run

\* The judge is done with its session. A notice that no channel takes is passed over.
Notice(j, s, sent) ==
    /\ IF Tells(j) /\ ~ sent THEN Upset ELSE UNCHANGED upsets
    /\ told' = [told EXCEPT ![s] = IF ~ Tells(j) THEN @ ELSE IF sent THEN "told" ELSE "lost"]
    /\ hand' = [hand EXCEPT ![j] = Free]
    /\ run' = Turned(j, s)

\* update_heartbeat; emit_session_error or emit_session_expired
WriteBeat(j, sent) ==
    LET s == hand[j].sid IN
    /\ hand[j].step = "beat"
    /\ SetBeat(s, BeatFor(j, hand[j].verdict))
    /\ Mixes(j, s)
    /\ Tells(j) \/ sent
    /\ Notice(j, s, sent)
    /\ UNCHANGED <<vendor, round, cause, edited>>

\* The sessions whose loss the judges J have written down and not told.
Untold(J) == {hand[j].sid : j \in {k \in J : hand[k].step = "beat" /\ Tells(k)}}
Drops(J) ==
    /\ hand' = [j \in Judges |-> IF j \in J THEN Free ELSE hand[j]]
    /\ run' = IF "preflight" \in J THEN NoRun ELSE run
    /\ round' = IF "heartbeat" \in J THEN Unread ELSE round
    /\ told' = [s \in Sessions |-> IF s \in Untold(J) THEN "lost" ELSE told[s]]
    /\ mixed' = mixed \cup {hand[j].sid : j \in {k \in J : hand[k].step = "beat"}}

\* A write fails, or the notice raises: heartbeats, and the pre-flight about
\* polluted sessions, pass over a write that fails and go on to the notice.
PassesOver(j) ==
    j = "heartbeat" \/ (j = "preflight" /\ hand[j].verdict \in {"polluted", "marked"})

WriteFails(j) ==
    LET s == hand[j].sid IN
    /\ hand[j].step # "none" /\ PassesOver(j)
    /\ mixed' = mixed \cup {s}
    /\ Upset
    /\ told' = [told EXCEPT ![s] = IF Tells(j) THEN "told" ELSE @]
    /\ hand' = [hand EXCEPT ![j] = Free]
    /\ run' = Turned(j, s)
    /\ UNCHANGED <<vendor, row, round, cause, edited>>

\* Any other failure ends the request, the round or the run.
ThrownOut(j) ==
    /\ hand[j].step # "none" /\ Upset
    /\ ~ PassesOver(j) \/ (hand[j].step = "beat" /\ Tells(j))
    /\ Drops({j})
    /\ UNCHANGED <<vendor, row, cause, edited>>

Crash ==
    /\ Upset
    /\ Drops(Judges)
    /\ UNCHANGED <<vendor, row, cause, edited>>

Judge(j) == WriteStatus(j) \/ (\E sent \in BOOLEAN : WriteBeat(j, sent))
Trips(j) == WriteFails(j) \/ ThrownOut(j)

-----------------------------------------------------------------------------
(* Heartbeats *)

\* The only look at _is_running.
StartRound ==
    /\ round = Unread /\ hand["heartbeat"] = Free /\ run.phase = "idle"
    /\ round' = ActiveSessions
    /\ UNCHANGED <<vendor, row, hand, run, told, cause, mixed, edited, upsets>>

Heartbeat(s) ==
    /\ round[s] # "none"
    /\ \E a \in Answers(s) \cup Bad : Probe("heartbeat", s, a, HeartbeatVerdict(a, round[s]))
    /\ round' = [round EXCEPT ![s] = "none"]
    /\ UNCHANGED <<vendor, row, run, told, cause, mixed, edited>>

-----------------------------------------------------------------------------
(* Runs *)

\* The list and the pool are read in one go, before the pre-flight.
StartRun(kind) ==
    /\ run.phase = "idle" /\ ActiveSessions # Unread
    /\ \E list \in CollectPools :
          run' = [NoRun EXCEPT !.phase = "preflight", !.kind = kind, !.todo = ActiveSessions,
                               !.pool = IF kind = "full" THEN list ELSE <<>>]
    /\ edited' = {}
    /\ UNCHANGED <<vendor, row, hand, round, told, cause, mixed, upsets>>

\* run_for_source takes the first of the pool without a pre-flight.
StartSingle ==
    /\ run.phase = "idle"
    /\ \E list \in CollectPools :
          list # <<>> /\ run' = [NoRun EXCEPT !.phase = "collect", !.kind = "single", !.jar = list[1]]
    /\ edited' = {}
    /\ UNCHANGED <<vendor, row, hand, round, told, cause, mixed, upsets>>

Preflight(s) ==
    /\ run.phase = "preflight" /\ run.todo[s] # "none"
    /\ \E a \in Answers(s) \cup Bad : Probe("preflight", s, a, PreflightVerdict(a))
    /\ UNCHANGED <<vendor, row, round, run, told, cause, mixed, edited>>

\* Without a good session for collecting the collection is aborted.
BeginCollecting ==
    /\ run.phase = "preflight" /\ run.todo = Unread /\ hand["preflight"] = Free
    /\ run' = IF run.chosen = None THEN NoRun
              ELSE [run EXCEPT !.phase = "collect", !.jar = run.chosen, !.seen = @ \cap {run.chosen}]
    /\ UNCHANGED <<vendor, row, hand, round, told, cause, mixed, edited, upsets>>

Stale == run.phase = "collect" /\ run.kind = "full" /\ vendor[run.jar] = "expired"

\* The next product begins with the cookie that the last one left behind. In
\* quick and single runs an expired session fails the product and no more.
NextProduct ==
    /\ run.phase = "collect" /\ ~ Stale
    /\ run' \in {[run EXCEPT !.at = 1], NoRun}
    /\ UNCHANGED <<vendor, row, hand, round, told, cause, mixed, edited, upsets>>

\* _collect_full: the session expired, the next one of the pool is tried ...
FallBack ==
    /\ Stale /\ run.at < Len(run.pool)
    /\ run' = [run EXCEPT !.at = @ + 1, !.jar = run.pool[run.at + 1]]
    /\ UNCHANGED <<vendor, row, hand, round, told, cause, mixed, edited, upsets>>

\* ... and after the last one the first of the pool is marked, and no one told.
GiveUp ==
    /\ Stale /\ run.at >= Len(run.pool)
    /\ run' \in {[run EXCEPT !.at = 1], NoRun}
    /\ IF run.pool = <<>> THEN UNCHANGED <<row, told, cause>>
       ELSE LET s == run.pool[1] IN
            /\ SetStatus(s, "expired")
            /\ told' = [told EXCEPT ![s] = ""]
            /\ cause' = [cause EXCEPT ![s] = "blamed"]
    /\ UNCHANGED <<vendor, hand, round, mixed, edited, upsets>>

-----------------------------------------------------------------------------
(* The user and the vendor *)

Validate(s) ==
    /\ row[s].status # "absent"
    /\ \E a \in Answers(s) \cup Bad : Probe("user", s, a, UserVerdict(a))
    /\ UNCHANGED <<vendor, row, round, run, told, cause, mixed, edited>>

\* create_session: probe, INSERT, then the two writes of every judge.
Create(s, purpose, mode) ==
    /\ vendor[s] = "none" /\ hand["user"] = Free /\ Upset
    /\ vendor' = [vendor EXCEPT ![s] = "good"]
    /\ row' = [row EXCEPT ![s] = Entry("unknown", purpose, mode, "")]
    /\ hand' = [hand EXCEPT !["user"] = [step |-> "status", sid |-> s, verdict |-> "ok"]]
    /\ UNCHANGED <<round, run, told, cause, mixed, edited>>

Repurpose(s, purpose, mode) ==
    /\ row[s].status # "absent" /\ Upset
    /\ row' = [row EXCEPT ![s].purpose = purpose, ![s].mode = mode]
    /\ edited' = IF run.phase = "idle" THEN edited ELSE edited \cup {s}
    /\ UNCHANGED <<vendor, hand, round, run, told, cause, mixed>>

Delete(s) ==
    /\ row[s].status # "absent" /\ Upset
    /\ row' = [row EXCEPT ![s] = NoEntry]
    /\ edited' = IF run.phase = "idle" THEN edited ELSE edited \cup {s}
    /\ UNCHANGED <<vendor, hand, round, run, told, cause, mixed>>

\* Sessions run out, or their context is switched to that of virtual machines.
Turns(s, state) ==
    /\ vendor[s] = "good" \/ (vendor[s] = "polluted" /\ state = "expired")
    /\ Cardinality({r \in Sessions : vendor[r] \in {"polluted", "expired"}}) < MaxTurns
    /\ vendor' = [vendor EXCEPT ![s] = state]
    /\ UNCHANGED <<row, hand, round, run, told, cause, mixed, edited, upsets>>

-----------------------------------------------------------------------------
RunThread ==
    \/ BeginCollecting \/ NextProduct \/ FallBack \/ GiveUp
    \/ \E s \in Sessions : Preflight(s)
    \/ Judge("preflight")

HeartbeatThread == (\E s \in Sessions : Heartbeat(s)) \/ Judge("heartbeat")

EndRun == (NextProduct \/ GiveUp) /\ run' = NoRun

User(s) ==
    \/ Validate(s) \/ Delete(s)
    \/ \E p \in Purposes, m \in ToSet(Modes) : Create(s, p, m) \/ Repurpose(s, p, m)

Next ==
    \/ StartRound \/ HeartbeatThread
    \/ \E kind \in {"quick", "full"} : StartRun(kind)
    \/ StartSingle
    \/ RunThread
    \/ Judge("user") \/ (\E j \in Judges : Trips(j))
    \/ \E s \in Sessions : User(s) \/ Turns(s, "polluted") \/ Turns(s, "expired")
    \/ Crash

Spec == Init /\ [][Next]_vars

\* The threads make progress, products come to an end and heartbeats come
\* every half hour, once heartbeat_enabled is set: some of them find no run going on.
Fairness ==
    /\ WF_vars(RunThread) /\ WF_vars(HeartbeatThread)
    /\ SF_vars(EndRun) /\ SF_vars(StartRound)

FairSpec == Spec /\ Fairness

-----------------------------------------------------------------------------
(* Properties *)

Hands == [step : {"none", "status", "beat"}, sid : Sessions \cup {None}, verdict : Verdicts]
Runs == [phase : {"idle", "preflight", "collect"}, kind : {"", "quick", "full", "single"},
         todo : [Sessions -> Purposes \cup {"none"}], pool : Seq(Sessions),
         chosen : Sessions \cup {None}, jar : Sessions \cup {None}, at : Nat,
         seen : SUBSET Sessions]

\* The tables and the judges keep their types.
TypeOK ==
    /\ vendor \in [Sessions -> {"none", "good", "polluted", "expired"}]
    /\ row \in [Sessions -> Row]
    /\ hand \in [Judges -> Hands]
    /\ round \in [Sessions -> Purposes \cup {"none"}]
    /\ run \in Runs
    /\ told \in [Sessions -> {"", "told", "lost"}] /\ mixed \subseteq Sessions
    /\ cause \in [Sessions -> {"", "seen", "marker", "network", "blamed", "validated"}]
    /\ edited \subseteq Sessions
    /\ upsets \in 0..MaxUpsets

\* Meant for collecting, unless the user edited it since the run began.
Meant(s) == s \in edited \/ row[s].purpose = "collect"

\* "Collection MUST use a collect-purpose session" (scheduler.py:535): the session
\* at work is one at this moment, unless the user took it away during this very run,
\* and for quick and full runs one that their own pre-flight saw working. A quick run
\* never leaves it; a full run falls back on the pool only.
CollectsWithSeen ==
    run.phase = "collect" =>
        /\ Meant(run.jar)
        /\ run.kind # "single" =>
              /\ run.chosen \in run.seen
              /\ run.jar # run.chosen => run.kind = "full" /\ run.jar \in ToSet(run.pool)

\* A session that the vendor still takes is out of the pool only because the
\* pre-flight could not reach the vendor (or met an error page), because a full run
\* blamed it, or because the page it got carries the marker, as good pages of some
\* products do: a verdict by redirect is not wrong, however old when it is written.
MarksAreTrue ==
    \A s \in Sessions :
        (Out(s) /\ vendor[s] = "good") => cause[s] \in {"marker", "network", "blamed"}

LossIsPassedOn ==
    \A s \in Sessions :
        (Out(s) /\ cause[s] \in {"seen", "marker", "network"}) =>
            told[s] # "" \/ s \in Untold(Judges)
Lost == {s \in Sessions : told[s] = "lost"}
FewAreLost == Cardinality(Lost) <= 2 * upsets

\* Every loss that a judge of the program wrote down was told, or is about to be,
\* or the notice itself was lost, and a failure or a crash loses only what the
\* pre-flight and the heartbeat had in hand, one session each. Losses that a full
\* run blames on a session, and those the user finds out, are not told.
LossIsTold == LossIsPassedOn /\ FewAreLost

\* get_expired_active_count counts the active sessions with one of three results.
Counted(s) == Active(s) /\ row[s].beat \in {"expired", "polluted", "error"}

\* Status and heartbeat result of a session agree, unless verdicts crossed, a write
\* was lost, or the second write of a verdict is still to come: the sessions that
\* get_expired_active_count counts are those whose last heartbeat or validation got
\* no proper answer (which leaves them active), none is known to be lost, and a
\* session that is out has no good result.
ResultAgrees ==
    \A s \in Sessions \ mixed :
        (\A j \in Judges : hand[j].sid = s => hand[j].step # "beat") =>
            /\ Counted(s) => row[s].beat = "error"
            /\ (Out(s) /\ cause[s] # "blamed") => row[s].beat # "ok"

\* What is probed was in the table, and a bad verdict is not wrong.
ProbesAreReal ==
    /\ \A s \in Sessions :
          (row[s].status # "absent" \/ run.todo[s] # "none" \/ round[s] # "none") =>
              vendor[s] # "none"
    /\ \A j \in Judges : hand[j].step # "none" =>
          /\ hand[j].sid \in Sessions /\ vendor[hand[j].sid] # "none"
          /\ hand[j].verdict \in {"expired", "polluted"} =>
                vendor[hand[j].sid] \in {"polluted", "expired"}
          /\ j = "user" => hand[j].verdict # "marked"

\* Chosen is who was seen working; only a full run leaves it.
RunsAreSeen ==
    /\ run.chosen # None => run.chosen \in run.seen
    /\ (run.phase = "collect" /\ run.kind # "single") =>
          /\ run.chosen # None
          /\ run.jar # run.chosen => run.kind = "full" /\ run.jar \in ToSet(run.pool)

\* Whoever a run may turn to was in the table for collecting when it began.
RunsAreMeant ==
    /\ run.phase = "collect" => run.jar \in Sessions
    /\ run.phase # "idle" =>
          \A s \in Sessions :
              \/ run.todo[s] = "collect" \/ s \in ToSet(run.pool) \/ s = run.chosen
              \/ run.phase = "collect" /\ s = run.jar
              => vendor[s] # "none" /\ Meant(s)

Fits(s, beat) ==
    /\ Active(s) => beat \notin {"expired", "polluted"}
    /\ (Out(s) /\ cause[s] # "blamed") => beat # "ok"

\* The second write of a verdict will fit the status as it is.
WritesWillFit ==
    \A s \in Sessions \ mixed, j \in Judges :
        (hand[j].sid = s /\ hand[j].step = "beat") => Fits(s, BeatFor(j, hand[j].verdict))

\* The inductive invariant of SessionPoolProofs.
PInv ==
    /\ TypeOK /\ ProbesAreReal /\ RunsAreSeen /\ RunsAreMeant /\ WritesWillFit
    /\ MarksAreTrue /\ LossIsTold /\ ResultAgrees

\* Sessions that have expired do not stay in the pool for ever, whatever they are
\* meant for: time and again the heartbeats have found them all.
ExpiryIsNoticed == []<>(\A s \in Sessions : vendor[s] = "expired" => ~ Active(s))

=============================================================================
