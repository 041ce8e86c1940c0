----------------------------- MODULE LogScanner -----------------------------
(***************************************************************************)
(* The scanner thread of src/core/log_scanner.py, the log files it reads   *)
(* while other threads write and rotate them, and the endpoint that turns  *)
(* a finding into an alert (ingest_log_alert of system_routes.py), with    *)
(* the fallback to emit_log_error when the endpoint does not answer.       *)
(*                                                                         *)
(* A line is a record in "log", numbered by the order of writing; lines    *)
(* that no pattern matches are left out, and one that patterns of two      *)
(* types match, so that it gives two findings, stands for two.  Positions, *)
(* byte offsets in the code, count the lines of the current file.  What a  *)
(* scan has found and not yet sent is a set: its order is that of the      *)
(* files and their lines.                                                  *)
(***************************************************************************)
EXTENDS Integers, Sequences, SequencesExt, FiniteSetsExt

CONSTANTS
    Files,         \* the files of a scan, in the order in which they are read
    Audit, Heartbeat,   \* audit.log and heartbeat.log, scanned by rules of their own
    Errors,        \* what a pattern can match: keyword and type of an alert
    Alarming,      \* bound of failed logins: 3
    Quiet,         \* _DEDUP_TTL, in ticks
    MaxLines, FileSize, MaxClock, MaxTroubles   \* bounds

FileSet == ToSet(Files)
Alerts == FileSet \X Errors    \* the keys of _log_alert_dedup

ASSUME ScannerAssumption ==
    /\ Files \in Seq(FileSet) /\ Audit # Heartbeat
    /\ Alarming \in Nat \ {0} /\ Quiet \in Nat \ {0}
    /\ {MaxLines, FileSize, MaxClock, MaxTroubles} \subseteq Nat

VARIABLES
    log,        \* every line ever written
    content,    \* file -> the lines of the current file
    pos,        \* _positions
    saved,      \* .log_scanner_positions.json
    scan,       \* the scanner thread
    requests,   \* calls of the endpoint in progress
    seen,       \* _log_alert_dedup: alert -> time it stays silent
    stamps,     \* _HB_NOTIFY_KEY: error -> time of the last heartbeat notified
    failures,   \* _LOGIN_FAIL_COUNT: length of the list
    enabled,    \* is_event_enabled('log_error')
    clock, restarts, troubles,
    handled,    \* history: lines that were handed to the endpoint or the fallback
    dropped,    \* history: findings of a scan that was broken off, or answered by an error
    told,       \* history: line -> notifications sent
    again,      \* history: line -> calls without an answer
    ringing,    \* history: alert -> how often it rang in this window
    rotated     \* history: files that were rotated

scannerVars == <<log, content, pos, saved, scan, requests, seen, stamps, failures, enabled,
                 clock, restarts, troubles, handled, dropped, told, again, ringing, rotated>>
world == <<log, content, enabled, clock, restarts, rotated>>
memory == <<seen, stamps, failures>>
history == <<handled, dropped, told, again, ringing>>

Lines == DOMAIN log
NoLine == 0

\* phase; files to read; findings to send; the one that is being sent.
NoScan == [phase |-> "idle", todo |-> <<>>, found |-> {}, line |-> NoLine]

ScannerInit ==
    /\ log = <<>>
    /\ content = [f \in FileSet |-> <<>>] /\ rotated = {}
    /\ pos = [f \in FileSet |-> 0] /\ saved = pos
    /\ scan = NoScan
    /\ requests = {}
    /\ seen = [a \in Alerts |-> 0]
    /\ stamps = [e \in Errors |-> -1]
    /\ failures = 0
    /\ enabled = TRUE
    /\ clock = 0 /\ restarts = 0 /\ troubles = 0
    /\ handled = {} /\ dropped = {}
    /\ told = [i \in 1 .. MaxLines |-> 0]
    /\ again = [i \in 1 .. MaxLines |-> 0]
    /\ ringing = [a \in Alerts |-> 0]

-----------------------------------------------------------------------------
(* The writers *)

Write(f, key) ==
    /\ Len(log) < MaxLines
    /\ log' = Append(log, [file |-> f, key |-> key, at |-> clock])
    /\ content' = [content EXCEPT ![f] = Append(@, Len(log) + 1)]
    /\ UNCHANGED <<pos, saved, scan, requests, memory, enabled, clock, restarts, troubles,
                   history, rotated>>

\* RotatingFileHandler: a full file becomes a backup, which no scan opens.
Rotate(f) ==
    /\ Len(content[f]) >= FileSize
    /\ content' = [content EXCEPT ![f] = <<>>] /\ rotated' = rotated \cup {f}
    /\ UNCHANGED <<log, pos, saved, scan, requests, memory, enabled, clock, restarts, troubles, history>>

-----------------------------------------------------------------------------
(* The scanner *)

\* _do_scan: nothing is scanned, of any file, while log_error is switched off.
StartScan ==
    /\ scan.phase = "idle" /\ enabled
    /\ scan' = [NoScan EXCEPT !.phase = "busy", !.todo = Files]
    /\ UNCHANGED <<world, pos, saved, requests, memory, troubles, history>>

\* What the scan reads of a file: a file shorter than the position was rotated.
Start(f) == IF Len(content[f]) < pos[f] THEN 0 ELSE pos[f]
From(f, n) == {content[f][k] : k \in n .. Len(content[f])}
Unread(f) == From(f, Start(f) + 1)

\* heartbeat.log: a line not newer than the last notified of its key is skipped.
Notified(lines, i) == \E j \in lines : j < i /\ log[j].key = log[i].key /\ log[j].at >= log[i].at
NewHeartbeats(lines) == {i \in lines : stamps[log[i].key] < log[i].at /\ ~ Notified(lines, i)}
LastStamp(e, lines) == Max({stamps[e]} \cup {log[i].at : i \in {j \in lines : log[j].key = e}})

\* Mutant: a finished file is read again.
ForgetsPosition(f) == pos' = pos

Advance(f) == pos' = [pos EXCEPT ![f] = Len(content[f])]
Reads(f) == scan.phase = "busy" /\ scan.todo # <<>> /\ Head(scan.todo) = f

\* Mutant: the findings of a file replace those of the files before it.
KeepsLast(found) == scan' = [scan EXCEPT !.todo = Tail(@), !.found = found]

Goes(found) == scan' = [scan EXCEPT !.todo = Tail(@), !.found = @ \cup found]

\* _scan_file, _scan_access_log
ReadLog(f) ==
    /\ Reads(f) /\ f \notin {Audit, Heartbeat}
    /\ Advance(f) /\ Goes(Unread(f))
    /\ UNCHANGED <<world, saved, requests, memory, troubles, history>>

\* _scan_heartbeat_log
ReadHeartbeats(f) ==
    /\ Reads(f) /\ f = Heartbeat
    /\ Advance(f) /\ Goes(NewHeartbeats(Unread(f)))
    /\ stamps' = [e \in Errors |-> LastStamp(e, Unread(f))]
    /\ UNCHANGED <<world, saved, requests, seen, failures, troubles, history>>

\* _scan_audit_log: the failures that bring the list to 3 entries raise an alarm; the last 2 are
\* kept, so that the next failure raises one again.  The alarm is sent at once, as the others are
\* by the fallback.
Alarmed(f) == From(f, Start(f) + Alarming - failures)
Kept(n) == Min({n, Alarming - 1})

ReadAudit(f) ==
    /\ Reads(f) /\ f = Audit
    /\ Advance(f) /\ Goes({})
    /\ failures' = Kept(failures + Len(content[f]) - Start(f))
    /\ handled' = handled \cup Unread(f)
    /\ \/ told' = [i \in DOMAIN told |-> IF i \in Alarmed(f) THEN told[i] + 1 ELSE told[i]]
       \/ UNCHANGED told
    /\ UNCHANGED <<world, saved, requests, seen, stamps, troubles, dropped, again, ringing>>

\* All files are read; the findings are sent one after the other.
Sends == scan.phase = "busy" /\ scan.todo = <<>>
Place(i) == CHOOSE n \in DOMAIN Files : Files[n] = log[i].file
Before(i, j) == Place(i) < Place(j) \/ (Place(i) = Place(j) /\ i < j)
IsNext(i) == Sends /\ i \in scan.found /\ \A j \in scan.found : ~ Before(j, i)
Takes(i, phase) ==
    /\ IsNext(i)
    /\ scan' = [scan EXCEPT !.phase = phase, !.found = @ \ {i}, !.line = i]

Post(i) ==
    /\ Takes(i, "waiting")
    /\ requests' = requests \cup {[line |-> i, stage |-> "new"]}
    /\ handled' = handled \cup {i}
    /\ UNCHANGED <<world, pos, saved, memory, troubles, dropped, told, again, ringing>>

\* No answer within 5 seconds (the endpoint itself waits 10 for the webhook), or no server.
GivesUp(i) ==
    /\ \/ scan.phase = "waiting" /\ scan.line = i /\ scan' = [scan EXCEPT !.phase = "fallback"]
       \/ Takes(i, "fallback")
    /\ again' = [again EXCEPT ![i] = @ + 1]
    /\ troubles < MaxTroubles /\ troubles' = troubles + 1
    /\ UNCHANGED <<world, pos, saved, requests, memory, handled, dropped, told, ringing>>

\* An answer other than 200, as that of _api_localhost_guard when its query raises, before the
\* endpoint is called: a warning is logged, and the next finding is sent.
IsRefused(i) ==
    /\ IsNext(i) /\ scan' = [scan EXCEPT !.found = @ \ {i}]
    /\ troubles < MaxTroubles /\ troubles' = troubles + 1
    /\ dropped' = dropped \cup {i}
    /\ UNCHANGED <<world, pos, saved, requests, memory, handled, told, again, ringing>>

NextFinding == scan' = [scan EXCEPT !.phase = "busy", !.line = NoLine]

\* emit_log_error: the row of system_event_log, then the webhook, which may fail.
Fallback ==
    /\ scan.phase = "fallback"
    /\ NextFinding
    /\ handled' = handled \cup {scan.line}
    /\ \/ enabled /\ told' = [told EXCEPT ![scan.line] = @ + 1]
       \/ UNCHANGED told
    /\ UNCHANGED <<world, pos, saved, requests, memory, troubles, dropped, again, ringing>>

\* is_event_enabled raises (the database is locked, the usual reason of the alert): the scan
\* is broken off, its positions stay advanced and are written by the next one.
FallbackRaises ==
    /\ scan.phase = "fallback"
    /\ troubles < MaxTroubles /\ troubles' = troubles + 1
    /\ dropped' = dropped \cup scan.found \cup {scan.line}
    /\ scan' = NoScan
    /\ UNCHANGED <<world, pos, saved, requests, memory, handled, told, again, ringing>>

\* Mutant: the positions are written as soon as the files are read.
SavesEarly ==
    /\ Sends
    /\ \/ pos # saved /\ saved' = pos /\ UNCHANGED scan
       \/ scan.found = {} /\ scan' = NoScan /\ UNCHANGED saved
    /\ UNCHANGED <<world, pos, requests, memory, troubles, history>>

SavePositions ==
    /\ Sends /\ scan.found = {}
    /\ saved' = pos
    /\ scan' = NoScan
    /\ UNCHANGED <<world, pos, requests, memory, troubles, history>>

-----------------------------------------------------------------------------
(* The endpoint *)

Alert(i) == <<log[i].file, log[i].key>>
Answer(r) == IF scan.phase = "waiting" /\ scan.line = r.line THEN NextFinding ELSE UNCHANGED scan

\* The same alert was seen in the last five minutes.
Skip(r) ==
    /\ r.stage = "new" /\ seen[Alert(r.line)] > 0
    /\ requests' = requests \ {r}
    /\ Answer(r)
    /\ UNCHANGED <<world, pos, saved, memory, troubles, history>>

\* Mutant: the alert is remembered when it has been sent.
RemembersLate(r) ==
    /\ r.stage = "new" /\ seen[Alert(r.line)] = 0
    /\ requests' = (requests \ {r}) \cup {[r EXCEPT !.stage = "send"]}
    /\ ringing' = [ringing EXCEPT ![Alert(r.line)] = @ + 1]
    /\ UNCHANGED <<world, pos, saved, scan, memory, troubles, handled, dropped, told, again>>

\* Remembered under the lock, before the row and the webhook.
Remember(r) ==
    /\ r.stage = "new" /\ seen[Alert(r.line)] = 0
    /\ seen' = [seen EXCEPT ![Alert(r.line)] = Quiet]
    /\ requests' = (requests \ {r}) \cup {[r EXCEPT !.stage = "send"]}
    /\ ringing' = [ringing EXCEPT ![Alert(r.line)] = @ + 1]
    /\ UNCHANGED <<world, pos, saved, scan, stamps, failures, troubles, handled, dropped, told, again>>

\* The webhook accepts the alert or not; the answer is 200 in either case.
Notify(r) ==
    /\ r.stage = "send"
    /\ requests' = requests \ {r}
    /\ Answer(r)
    /\ \/ told' = [told EXCEPT ![r.line] = @ + 1]
       \/ UNCHANGED told
    /\ UNCHANGED <<world, pos, saved, memory, troubles, handled, dropped, again, ringing>>

-----------------------------------------------------------------------------
(* Time, configuration, restarts *)

Tick ==
    /\ clock < MaxClock
    /\ clock' = clock + 1
    /\ seen' = [a \in Alerts |-> IF seen[a] = 0 THEN 0 ELSE seen[a] - 1]
    /\ ringing' = [a \in Alerts |-> IF seen[a] = 1 THEN 0 ELSE ringing[a]]
    /\ UNCHANGED <<log, content, pos, saved, scan, requests, stamps, failures, enabled, restarts,
                   troubles, handled, dropped, told, again, rotated>>

Toggle ==
    /\ troubles < MaxTroubles /\ troubles' = troubles + 1
    /\ enabled' = ~ enabled
    /\ UNCHANGED <<log, content, pos, saved, scan, requests, memory, clock, restarts, history, rotated>>

\* The process ends and starts again: _load_positions, empty dictionaries.
Restart ==
    /\ troubles < MaxTroubles /\ troubles' = troubles + 1
    /\ restarts' = restarts + 1
    /\ pos' = saved
    /\ scan' = NoScan /\ requests' = {}
    /\ seen' = [a \in Alerts |-> 0] /\ ringing' = [a \in Alerts |-> 0]
    /\ stamps' = [e \in Errors |-> -1]
    /\ failures' = 0
    /\ UNCHANGED <<log, content, saved, enabled, clock, handled, dropped, told, again, rotated>>

ScanStep ==
    \/ StartScan \/ Fallback \/ FallbackRaises \/ SavePositions
    \/ \E f \in FileSet : ReadLog(f) \/ ReadHeartbeats(f) \/ ReadAudit(f)
    \/ \E i \in scan.found : Post(i)
EndpointStep == \E r \in requests : Skip(r) \/ Remember(r) \/ Notify(r)

ScannerNext ==
    \/ \E f \in FileSet : Rotate(f) \/ \E key \in Errors : Write(f, key)
    \/ ScanStep \/ EndpointStep \/ \E i \in Lines : GivesUp(i) \/ IsRefused(i)
    \/ Tick \/ Toggle \/ Restart

\* The loop wakes every 30 minutes; requests have timeouts.
Fairness == WF_scannerVars(ScanStep) /\ WF_scannerVars(EndpointStep)
ScannerSpec == ScannerInit /\ [][ScannerNext]_scannerVars /\ Fairness

-----------------------------------------------------------------------------
(* Properties *)

\* The lines of f that a position covers, as far as the file was not rotated since.
Covered(f, p) == {content[f][k] : k \in {k \in DOMAIN content[f] : k <= p}}
Skipped(i) == log[i].file = Heartbeat /\
              \E j \in Lines : j # i /\ log[j].file = Heartbeat /\ log[j].key = log[i].key /\ log[j].at >= log[i].at

\* What the file of positions calls scanned has been handed over, so that a restart between
\* the scan and the alerts loses nothing; only a scan that was broken off loses its rest, and a
\* finding that was answered by an error is lost.
\* (Not of a file that has been rotated: the backup is not read, and a new file that is already
\* longer than the position is read from there.)
SavedIsHandled ==
    \A f \in FileSet \ rotated :
        \A i \in Covered(f, saved[f]) : i \in handled \cup dropped \/ Skipped(i)

\* A line is told again only after a call without answer, or a restart before the positions
\* were written.
ToldAgainForACause == \A i \in Lines : told[i] <= 1 + again[i] + restarts

\* The endpoint rings once per alert and five minutes, although calls overlap when the
\* scanner has given up on an earlier one.
OneRingPerWindow == \A a \in Alerts : ringing[a] <= 1

\* An error that is written is handed over sooner or later, unless its file has been rotated, the scan
\* is broken off or answered by an error, alerts are switched off, or a later heartbeat of its kind
\* stands for it.
ErrorsGetOut ==
    \A i \in 1 .. MaxLines :
        i \in Lines ~>
            (i \in Lines /\ (i \in handled \cup dropped \/ log[i].file \in rotated \/ ~ enabled \/ Skipped(i)))
-----------------------------------------------------------------------------
(* The inductive invariant *)

ScannerTypes ==
    /\ log \in Seq([file : FileSet, key : Errors, at : Nat]) /\ Len(log) <= MaxLines
    /\ content \in [FileSet -> Seq(Lines)] /\ rotated \subseteq FileSet
    /\ pos \in [FileSet -> Nat] /\ saved \in [FileSet -> Nat]
    /\ scan \in [phase : {"idle", "busy", "waiting", "fallback"}, todo : Seq(FileSet),
                 found : SUBSET Lines, line : Lines \cup {NoLine}]
    /\ requests \subseteq [line : Lines, stage : {"new", "send"}]
    /\ seen \in [Alerts -> Nat] /\ stamps \in [Errors -> Nat \cup {-1}]
    /\ failures \in 0 .. Alarming - 1 /\ enabled \in BOOLEAN
    /\ clock \in Nat /\ restarts \in Nat /\ troubles \in Nat
    /\ handled \subseteq Lines /\ dropped \subseteq Lines
    /\ told \in [1 .. MaxLines -> Nat] /\ again \in [1 .. MaxLines -> Nat]
    /\ ringing \in [Alerts -> Nat]

\* A file holds its own lines, written until now.
LinesAreOwn ==
    /\ \A i \in Lines : log[i].at <= clock
    /\ \A f \in FileSet : \A k \in DOMAIN content[f] : log[content[f][k]].file = f

\* Between two scans nothing is in hand, and a line is in hand while it is sent.
ScanIsTidy ==
    /\ scan.phase = "idle" => scan = NoScan
    /\ IF scan.phase \in {"waiting", "fallback"} THEN scan.line \in Lines ELSE scan.line = NoLine

\* What is found or sent has been read, and nothing is in two hands: in one life of the
\* process a line is found once and posted once.
IsUnread(i) == i \in Unread(log[i].file)
LinesAreReadOnce ==
    /\ \A i \in scan.found : ~ IsUnread(i) /\ i # scan.line
    /\ scan.line # NoLine => ~ IsUnread(scan.line)
    /\ \A r \in requests : ~ IsUnread(r.line) /\ r.line \notin scan.found
    /\ \A r, q \in requests : r.line = q.line => r = q

\* What was told of a line and may still be told of it.
MayBeTold(i) == IsUnread(i) \/ i \in scan.found \/ (scan.phase = "fallback" /\ scan.line = i)
IsPosted(i) == \E r \in requests : r.line = i
TellsAreCounted ==
    /\ \A i \in 1 .. MaxLines : i \notin Lines => told[i] = 0
    /\ \A i \in Lines :
          told[i] + (IF MayBeTold(i) THEN 1 ELSE 0) + (IF IsPosted(i) THEN 1 ELSE 0)
              <= 1 + again[i] + restarts

\* A stamp is that of a line which has been read.
StampsAreLines ==
    \A e \in Errors : stamps[e] >= 0 =>
        \E j \in Lines : /\ log[j] = [file |-> Heartbeat, key |-> e, at |-> stamps[e]]
                         /\ ~ IsUnread(j)

\* What a position covers is handed over, or the scan has it in hand.
PositionsAreHandled ==
    /\ scan.phase = "waiting" => scan.line \in handled
    /\ \A f \in FileSet \ rotated :
          /\ pos[f] <= Len(content[f]) /\ saved[f] <= Len(content[f])
          /\ \A i \in Covered(f, pos[f]) :
                i \in handled \cup dropped \cup scan.found \cup {scan.line} \/ Skipped(i)

\* Without an entry of the last five minutes an alert has not rung.
RingsAreRemembered == \A a \in Alerts : seen[a] = 0 => ringing[a] = 0

ScannerInv ==
    /\ ScannerTypes /\ LinesAreOwn /\ ScanIsTidy /\ LinesAreReadOnce
    /\ TellsAreCounted /\ StampsAreLines
    /\ PositionsAreHandled /\ SavedIsHandled
    /\ RingsAreRemembered /\ OneRingPerWindow
=============================================================================
