-------------------------------- MODULE Cron --------------------------------
(***************************************************************************)
(* Cron expressions and the fire times of a recurring job                  *)
(* (packages/jobs/src/cron.ts and the two callers of nextRun in            *)
(* scheduler.ts).  Time is in whole minutes since the epoch; the text of   *)
(* an expression is abstracted to its fields, each a sequence of parts     *)
(* (`*`, a number, a range, with or without a step; a day name is its      *)
(* number).  A zone is an offset, with another one between two instants.   *)
(***************************************************************************)
EXTENDS Integers, Sequences, FiniteSetsExt

CONSTANTS Expressions,   \* the expressions recur is called with
          Zones,         \* the time zones, [std, dst, from, to]
          Starts,        \* the instants recur is called at
          Delays,        \* how long after its fire time a run may end
          MaxRuns

VARIABLES row            \* the row of the recurring job
Day == 1440
Ranges == << <<0, 59>>, <<0, 23>>, <<1, 31>>, <<1, 12>>, <<0, 6>> >>
Invalid == {-1}

-----------------------------------------------------------------------------
\* One part of a field: its bounds, then every step-th value between them.
Bounds(part, min, max) == CASE part.form = "*" -> <<min, max>>
                            [] part.form = "range" -> <<part.from, part.to>>
                            [] part.form = "one" -> <<part.from, part.from>>

ParsePart(part, min, max) ==
    LET b == Bounds(part, min, max) IN
    IF part.step < 1 \/ b[1] < min \/ b[2] > max \/ b[1] > b[2] THEN Invalid
    ELSE {v \in b[1] .. b[2] : (v - b[1]) % part.step = 0}

ParseField(field, min, max) ==
    LET sets == {ParsePart(field[i], min, max) : i \in DOMAIN field} IN
    IF Invalid \in sets THEN Invalid ELSE UNION sets

Seven == << [form |-> "one", from |-> 7, to |-> 7, step |-> 1] >>
Zero == << [form |-> "one", from |-> 0, to |-> 0, step |-> 1] >>

\* parseCron: a field that is "7" and nothing else is read as "0", whichever field it is.
ParseCron(fields) ==
    [i \in 1 .. 5 |-> ParseField(IF fields[i] = Seven THEN Zero ELSE fields[i], Ranges[i][1], Ranges[i][2])]

Parses(fields) == Len(fields) = 5 /\ \A i \in 1 .. 5 : ParseCron(fields)[i] # Invalid

-----------------------------------------------------------------------------
(***************************************************************************)
(* External: Intl.DateTimeFormat and Date.UTC.  The wall clock of an       *)
(* instant, and the month, day and weekday of a day number.                *)
(***************************************************************************)
Offset(zone, i) == IF i >= zone.from /\ i < zone.to THEN zone.dst ELSE zone.std
WallClockOf(zone, i) == i + Offset(zone, i)
Weekday(d) == (d + 4) % 7
YearDay(d) == LET e == (d + 719468) % 146097
                  y == (e - e \div 1460 + e \div 36524 - e \div 146096) \div 365
              IN e - (365 * y + y \div 4 - y \div 100)
MonthIndex(d) == (5 * YearDay(d) + 2) \div 153
Month(d) == IF MonthIndex(d) < 10 THEN MonthIndex(d) + 3 ELSE MonthIndex(d) - 9
DayOfMonth(d) == YearDay(d) - (153 * MonthIndex(d) + 2) \div 5 + 1

\* instantFromWallClock: the offset is the one in force when UTC shows that wall clock.
InstantFromWallClock(zone, wall) == wall - Offset(zone, wall)

DayMatchesBoth(d, f) == /\ Month(d) \in f[4]
                        /\ DayOfMonth(d) \in f[3] /\ Weekday(d) \in f[5]

\* Either day field may match when both are restricted; an unrestricted one holds every day.
DayMatches(d, f) ==
    LET restricted == {i \in {3, 5} : Cardinality(f[i]) # (IF i = 3 THEN 31 ELSE 7)} IN
    /\ Month(d) \in f[4]
    /\ \/ restricted = {}
       \/ 3 \in restricted /\ DayOfMonth(d) \in f[3]
       \/ 5 \in restricted /\ Weekday(d) \in f[5]

SearchLimitDays == 400
Never == -1

(***************************************************************************)
(* nextRun: walk the days from the one `after` falls on, 24 hours at a     *)
(* time from its first instant; on the first day with a candidate after    *)
(* `after`, the first in the order of hours and minutes.                   *)
(***************************************************************************)
CandidatesOn(d, after, f, zone) ==
    {t \in {60 * h + m : h \in f[2], m \in f[1]} : InstantFromWallClock(zone, d * Day + t) > after}

NextRun(after, f, zone) ==
    LET first == InstantFromWallClock(zone, (WallClockOf(zone, after) \div Day) * Day)
        day(o) == WallClockOf(zone, first + o * Day) \div Day
        fires(o) == DayMatches(day(o), f) /\ CandidatesOn(day(o), after, f, zone) # {}
        o == CHOOSE n \in 0 .. SearchLimitDays + 1 :
                (n > SearchLimitDays \/ fires(n)) /\ \A k \in 0 .. n - 1 : ~fires(k)
        d == day(o) IN
    IF o > SearchLimitDays THEN Never
    ELSE InstantFromWallClock(zone, d * Day + Min(CandidatesOn(d, after, f, zone)))

-----------------------------------------------------------------------------
CronInit == row = [status |-> "absent"]

\* recur: refused when the expression does not parse or never fires.
RecurAt ==
    /\ row.status = "absent"
    /\ \E e \in Expressions, zone \in Zones, now \in Starts :
         LET f == ParseCron(e)   next == NextRun(now, f, zone) IN
         row' = IF ~Parses(e) \/ next = Never THEN [status |-> "refused", expr |-> e]
                ELSE [status |-> "queued", expr |-> e, zone |-> zone, after |-> now, runAt |-> next, runs |-> 0]

\* completeSuccess: the next fire is after the later of the scheduled time and now.
FromLater(runAt, now) == IF runAt > now THEN runAt ELSE now

CompleteRun ==
    /\ row.status = "queued" /\ row.runs < MaxRuns
    /\ \E late \in Delays :
         LET after == FromLater(row.runAt, row.runAt + late)
             next == NextRun(after, ParseCron(row.expr), row.zone) IN
         row' = IF next = Never THEN [row EXCEPT !.status = "deleted", !.after = after]
                ELSE [row EXCEPT !.after = after, !.runAt = next, !.runs = @ + 1]

CronNext == RecurAt \/ CompleteRun

-----------------------------------------------------------------------------
\* Whether the job is due in the minute i, read off the expression.
Due(i, f, zone) ==
    LET w == WallClockOf(zone, i)   d == w \div Day IN
    /\ (w % Day) \div 60 \in f[2] /\ w % 60 \in f[1] /\ Month(d) \in f[4]
    /\ LET everyDay == f[3] = 1 .. 31   everyWeekday == f[5] = 0 .. 6 IN
       IF everyDay \/ everyWeekday THEN DayOfMonth(d) \in f[3] /\ Weekday(d) \in f[5]
       ELSE DayOfMonth(d) \in f[3] \/ Weekday(d) \in f[5]

(***************************************************************************)
(* In a zone without clock changes, a recurring job is queued for the      *)
(* first minute after its last completion that its expression names:       *)
(* across midnights, ends of months and leap days no fire is early, missed *)
(* or repeated, and runs that end late skip what passed meanwhile          *)
(* (packages/jobs/src/cron.ts nextRun, scheduler.ts completeSuccess).      *)
(***************************************************************************)
FiresAtTheNextDueMinute ==
    row.status = "queued" =>
        LET f == ParseCron(row.expr) IN
        /\ row.runAt > row.after /\ Due(row.runAt, f, row.zone)
        /\ \A i \in row.after + 1 .. row.runAt - 1 : ~Due(i, f, row.zone)
=============================================================================
