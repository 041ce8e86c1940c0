--------------------------- MODULE MCDigestQueue ---------------------------
(* Instance of DigestQueue: the days around a New Year that falls into an   *)
(* ISO week, a weekly rule with a robot and a mail channel, which may       *)
(* become a quarterly one.                                                  *)
EXTENDS DigestQueue

CONSTANTS robot, mail, rule

Day(y, m, d, wd, w, last) ==
    [year |-> y, month |-> m, day |-> d, weekday |-> wd, week |-> w, lastDay |-> last]

\* 2026-12-31 (Thursday), 2027-01-03 and -10 (Sundays).
MCCalendar == << Day(2026, 12, 31, 3, 53, 31), Day(2027, 1, 3, 6, 53, 31),
                 Day(2027, 1, 10, 6, 1, 31) >>

Schedule(mode, at, d, m) == [mode |-> mode, at |-> at, day |-> d, month |-> m]
Sundays == Schedule("weekly", "day", 6, 0)
MCSchedules == {Sundays, Schedule("quarterly", "day", 5, 1)}
MCFirst == [r \in Rules |-> Sundays]
MCBound == [r \in Rules |-> {robot, mail}]

\* Two full packages of one group, of which the weekly rule gets both.
MCPackages == {1, 2}
MCGroup == [p \in MCPackages |-> "g"]
MCEvent(r, p) == [rule |-> r, pkg |-> p, chain |-> "c"]
MCEvents == {MCEvent(rule, 1), MCEvent(rule, 2)}

=============================================================================
