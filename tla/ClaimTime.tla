----------------------------- MODULE ClaimTime -----------------------------
(***************************************************************************)
(* Civil time as claims carry it (aicortex-types, claim_time.rs) and the   *)
(* instants the projection reads it as (aicortex-claims, projection.rs).   *)
(*                                                                         *)
(* A date is [year, month, day] with 0 for a part that is not stated, a    *)
(* time of day has -1 for a part that is not stated: both orders are the   *)
(* ones Rust derives for Option.  A window holds the instants every        *)
(* reading of a point agrees on (definite) and those some reading reaches  *)
(* (possible); None stands for a time that does not resolve.               *)
(***************************************************************************)
EXTENDS Integers, Sequences

CONSTANTS
    None,
    EpochYear,          \* the year instants are counted from
    FloatingWindow,     \* ProjectionPolicy::floating_window_seconds
    Instants(_, _)      \* the instants of a wall time in a named zone

Sets == INSTANCE FiniteSetsExt

IsLeap(year) == year % 4 = 0 /\ (year % 100 # 0 \/ year % 400 = 0)

DaysIn(year, month) ==
    CASE month = 2 -> IF IsLeap(year) THEN 29 ELSE 28
      [] month \in {4, 6, 9, 11} -> 30
      [] OTHER -> 31

ValidDate(d) ==
    /\ d.year \in 1..9999
    /\ d.month \in 0..12
    /\ d.day # 0 => d.month # 0 /\ d.day \in 1..DaysIn(d.year, d.month)

DatePrecision(d) ==
    IF d.day # 0 THEN "day" ELSE IF d.month # 0 THEN "month" ELSE "year"

ValidZone(z) == z.form = "offset" => z.of \in -(18 * 3600)..(18 * 3600)

ValidTimeOfDay(t) ==
    /\ ValidDate(t.date) /\ DatePrecision(t.date) = "day"
    /\ t.hour \in 0..23
    /\ t.minute \in -1..59 /\ t.second \in -1..59
    /\ t.second # -1 => t.minute # -1
    /\ ValidZone(t.zone)

TimePrecision(t) ==
    IF t.second # -1 THEN "second" ELSE IF t.minute # -1 THEN "minute" ELSE "hour"

\* The lexicographic order of tuples of integers.
Before(s, t) ==
    \E k \in DOMAIN s : s[k] < t[k] /\ \A j \in 1..(k - 1) : s[j] = t[j]

DateOrder(d) == <<d.year, d.month, d.day>>

Wall(t) == DateOrder(t.date) \o <<t.hour, t.minute, t.second>>

ValidUncertainty(u) ==
    /\ ValidTimeOfDay(u.earliest) /\ ValidTimeOfDay(u.latest)
    /\ u.earliest.zone = u.latest.zone => ~Before(Wall(u.latest), Wall(u.earliest))

ValidPoint(p) ==
    /\ p.kind = "date" => ValidDate(p.value)
    /\ p.kind = "datetime" => ValidTimeOfDay(p.value)
    /\ p.uncertainty # None => ValidUncertainty(p.uncertainty)

\* Dates of one precision compare, and wall times of one zone.
KnownAfter(p, q) ==
    \/ /\ p.kind = "date" /\ q.kind = "date"
       /\ DatePrecision(p.value) = DatePrecision(q.value)
       /\ Before(DateOrder(q.value), DateOrder(p.value))
    \/ /\ p.kind = "datetime" /\ q.kind = "datetime"
       /\ p.value.zone = q.value.zone
       /\ Before(Wall(q.value), Wall(p.value))

Open == [kind |-> "open", point |-> None]

ValidInterval(i) ==
    /\ \A b \in {i.start, i.end} : b.kind # "open" => ValidPoint(b.point)
    /\ i.start.kind # "open" /\ i.end.kind # "open" =>
        /\ i.start.point.kind = i.end.point.kind
        /\ ~KnownAfter(i.start.point, i.end.point)

-----------------------------------------------------------------------------
(***************************************************************************)
(* The instants of a point.                                                *)
(***************************************************************************)

\* The days from the first of January of the epoch to a civil day.
DayNumber(year, month, day) ==
    LET Years(y) == 365 * (y - 1) + (y - 1) \div 4 - (y - 1) \div 100 + (y - 1) \div 400
        Months == <<0, 31, 59, 90, 120, 151, 181, 212, 243, 273, 304, 334>>[month]
                  + (IF month > 2 /\ IsLeap(year) THEN 1 ELSE 0)
    IN  Years(year) - Years(EpochYear) + Months + day - 1

Stated(part) == IF part > 0 THEN part ELSE 1

DateStart(d) == 86400 * DayNumber(d.year, Stated(d.month), Stated(d.day))

DateEnd(d) ==
    CASE DatePrecision(d) = "year" -> 86400 * DayNumber(d.year + 1, 1, 1)
      [] DatePrecision(d) = "month" /\ d.month = 12 -> 86400 * DayNumber(d.year + 1, 1, 1)
      [] DatePrecision(d) = "month" /\ d.month # 12 -> 86400 * DayNumber(d.year, d.month + 1, 1)
      [] OTHER -> DateStart(d) + 86400

Naive(t) ==
    LET Part(n) == IF n = -1 THEN 0 ELSE n
    IN  DateStart(t.date) + 3600 * t.hour + 60 * Part(t.minute) + Part(t.second)

PrecisionDuration(t) ==
    CASE TimePrecision(t) = "hour" -> 3600
      [] TimePrecision(t) = "minute" -> 60
      [] OTHER -> 1

Exactly(lo, hi) == [definite |-> <<lo, hi>>, possible |-> <<lo, hi>>]

\* The window between the instants a start and an end may be.
Resolved(starts, ends) ==
    IF starts = {} \/ ends = {} THEN None
    ELSE [definite |-> IF Sets!Min(starts) = Sets!Max(starts)
                          /\ Sets!Min(ends) = Sets!Max(ends)
                       THEN <<Sets!Min(starts), Sets!Min(ends)>> ELSE None,
          possible |-> <<Sets!Min(starts), Sets!Max(ends)>>]

InZone(zone, lo, hi) ==
    CASE zone.form = "offset" -> Exactly(lo - zone.of, hi - zone.of)
      [] zone.form = "floating" ->
            [definite |-> None, possible |-> <<lo - FloatingWindow, hi + FloatingWindow>>]
      [] OTHER -> Resolved(Instants(zone.of, lo), Instants(zone.of, hi))

ZonedWindow(t) == InZone(t.zone, Naive(t), Naive(t) + PrecisionDuration(t))

\* Mutant: the stated value is trusted although the point is uncertain.
PointWindowTrusted(p) ==
    IF p.kind = "date" THEN Exactly(DateStart(p.value), DateEnd(p.value))
    ELSE ZonedWindow(p.value)

\* From the earliest to the latest an uncertain point may be.
Uncertain(first, last) ==
    IF first = None \/ last = None THEN None
    ELSE [definite |-> None,
          possible |-> <<Sets!Min({first.possible[1], last.possible[1]}),
                         Sets!Max({first.possible[2], last.possible[2]})>>]

PointWindow(p) ==
    IF p.uncertainty # None
    THEN Uncertain(ZonedWindow(p.uncertainty.earliest), ZonedWindow(p.uncertainty.latest))
    ELSE IF p.kind = "date"
    THEN Exactly(DateStart(p.value), DateEnd(p.value))
    ELSE ZonedWindow(p.value)

Earliest == -(2^30)
Latest == 2^30

\* The end k of a bound's window: 1 for its first instant, 2 for its last.
EdgeOf(w, k) == [definite |-> IF w.definite = None THEN None ELSE w.definite[k],
                 possible |-> w.possible[k]]

StartEdge(b) ==
    IF b.kind = "open" THEN [definite |-> Earliest, possible |-> Earliest]
    ELSE EdgeOf(PointWindow(b.point), IF b.kind = "inclusive" THEN 1 ELSE 2)

\* An exclusive end surely ends where its point starts, and possibly where it ends.
ClosingEdge(w, inclusive) ==
    IF inclusive THEN EdgeOf(w, 2) ELSE [EdgeOf(w, 1) EXCEPT !.possible = w.possible[2]]

EndEdge(b) ==
    IF b.kind = "open" THEN [definite |-> Latest, possible |-> Latest]
    ELSE ClosingEdge(PointWindow(b.point), b.kind = "inclusive")

Resolves(b) == b.kind # "open" => PointWindow(b.point) # None

Joined(s, e) ==
    [definite |-> IF s.definite = None \/ e.definite = None THEN None
                  ELSE <<s.definite, e.definite>>,
     possible |-> <<s.possible, e.possible>>]

IntervalWindow(start, end) ==
    IF Resolves(start) /\ Resolves(end) THEN Joined(StartEdge(start), EndEdge(end)) ELSE None

=============================================================================
