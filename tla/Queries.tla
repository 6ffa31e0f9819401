------------------------------- MODULE Queries -------------------------------
(***************************************************************************)
(* The dashboard's queries about local usage: periods and their comparison *)
(* windows, the exact rolling window, the breakdowns, the time series and  *)
(* the session trees, each built from the aggregates of EffectiveSource.   *)
(*                                                                         *)
(* A query is a record [acct, proj] of filters.  Its model filter behaves  *)
(* as the account filter does and is left out.                             *)
(***************************************************************************)
EXTENDS EffectiveSource, Integers

CONSTANTS
    NoTime,          \* an absent instant or day
    WeekDays,        \* days in a week
    RollingLength,   \* the length of rolling7, and of raw retention
    LongLength       \* the length of rolling30

ASSUME QueriesAssumption ==
    /\ NoTime \notin Int
    /\ WeekDays \in Nat \ {0} /\ RollingLength \in Nat /\ LongLength \in Nat

-----------------------------------------------------------------------------
(* Periods.  month, weeks12 and months12 differ from week in the calendar  *)
(* unit alone and are left out.                                            *)

PeriodLabels == {"today", "week", "rolling7", "rolling30", "lifetime"}

CalendarUnit(label) == IF label = "today" THEN DayLength ELSE WeekDays * DayLength

\* A time before the beginning is as good as the beginning.
Before(t, length) == IF t < length THEN 0 ELSE t - length

CalendarPeriod(label, now) ==
    LET unit  == CalendarUnit(label)
        start == (now \div unit) * unit
        prev  == Before(start, unit)
    IN  [label |-> label, start |-> start, end |-> now, grain |-> IF label = "today" THEN "hour" ELSE "day",
         cstart |-> prev, cend |-> Min({prev + (now - start), start})]

RollingPeriod(label, now) ==
    LET length == IF label = "rolling7" THEN RollingLength ELSE LongLength
        start  == Before(now, length)
    IN  [label |-> label, start |-> start, end |-> now, grain |-> "day",
         cstart |-> Before(start, length), cend |-> start]

ResolvePeriod(label, now) ==
    CASE label \in {"today", "week"}         -> CalendarPeriod(label, now)
      [] label \in {"rolling7", "rolling30"} -> RollingPeriod(label, now)
      [] label = "lifetime" -> [label |-> label, start |-> NoTime, end |-> now, grain |-> "month",
                                cstart |-> NoTime, cend |-> NoTime]

TimeOr(t, default) == IF t = NoTime THEN default ELSE t

FilterOf(query, quality, from, to) ==
    [acct |-> query.acct, proj |-> query.proj, quality |-> quality,
     from |-> TimeOr(from, 0), to |-> TimeOr(to, MaxTime + 1)]

PeriodFilter(query, quality, p) == FilterOf(query, quality, p.start, p.end)

AllQuery == [acct |-> Unfiltered, proj |-> Unfiltered]

\* The first day of the plain rollups, whatever the quality.
EarliestRollupDay == IF sampled = {} THEN NoTime ELSE Min({Day(f.time) : f \in sampled})
EarliestEventAt == IF sampled = {} THEN NoTime ELSE EarliestRollupDay * DayLength

LocalCoverageComplete(p) ==
    p.start = NoTime \/ EarliestEventAt = NoTime \/ p.start >= EarliestEventAt

-----------------------------------------------------------------------------
(* A period is read by one statement or, for the rolling window, by up to  *)
(* three: the raw rows of its two partial hours and the hour rollups       *)
(* between them.                                                           *)

FloorHour(t) == Hour(t) * HourLength
CeilHour(t)  == IF t = FloorHour(t) THEN t ELSE FloorHour(t) + HourLength

Statement(table, from, to) == [table |-> table, from |-> from, to |-> to]
Reading(table, from, to) == IF from < to THEN <<Statement(table, from, to)>> ELSE <<>>

\* Mutant: the hour that holds the end is read whole, and its rows again.
OverlappingHourWindow(from, to) ==
    LET first == Min({CeilHour(from), to})
        last  == Max({FloorHour(to), first})
    IN  Reading("raw", from, first) \o Reading("hour", first, to) \o Reading("raw", last, to)

ExactHourWindow(from, to) ==
    LET first == Min({CeilHour(from), to})
        last  == Max({FloorHour(to), first})
    IN  Reading("raw", from, first) \o Reading("hour", first, last) \o Reading("raw", last, to)

StatementsOf(p) ==
    CASE p.label = "rolling7" -> ExactHourWindow(p.start, p.end)
      [] p.grain = "hour"     -> <<Statement("hour", TimeOr(p.start, 0), p.end)>>
      [] OTHER                -> <<Statement("day", TimeOr(p.start, 0), p.end)>>

Narrowed(filter, s) == [filter EXCEPT !.from = s.from, !.to = s.to]

ReadStatement(s, filter) ==
    CASE s.table = "raw"  -> AggregateUsage(Narrowed(filter, s))
      [] s.table = "hour" -> AggregateHourlyUsage(Narrowed(filter, s))
      [] s.table = "day"  -> AggregateRollupUsage(Narrowed(filter, s))

ReadSeries(s, dim, filter) ==
    CASE s.table = "raw"  -> AggregateExactTimeSeries("hour", dim, Narrowed(filter, s))
      [] s.table = "hour" -> AggregateTimeSeries("hour", dim, Narrowed(filter, s))
      [] s.table = "day"  -> AggregateTimeSeries("day", dim, Narrowed(filter, s))

AggregateSelectedPeriod(filter, p) ==
    SumFunction([i \in DOMAIN StatementsOf(p) |-> Tokens(ReadStatement(StatementsOf(p)[i], filter))])

\* Buckets of several statements are merged by adding those of one key.
Merged(series) ==
    [k \in UNION {DOMAIN series[i] : i \in DOMAIN series} |->
        SumFunction([i \in DOMAIN series |-> IF k \in DOMAIN series[i] THEN Tokens(series[i][k]) ELSE 0])]

Rekeyed(buckets, Key(_)) ==
    [k \in {Key(j) : j \in DOMAIN buckets} |->
        SumFunctionOnSet(buckets, {j \in DOMAIN buckets : Key(j) = k})]

AggregateSelectedPeriodSeries(dim, filter, p) ==
    Merged([i \in DOMAIN StatementsOf(p) |-> ReadSeries(StatementsOf(p)[i], dim, filter)])

AggregateSelectedPeriodBy(dim, filter, p) ==
    IF p.label = "rolling7"
    THEN Rekeyed(AggregateSelectedPeriodSeries(dim, filter, p), LAMBDA k : k[2])
    ELSE LET rows == AggregateRollupBy(dim, filter) IN [k \in DOMAIN rows |-> Tokens(rows[k])]

-----------------------------------------------------------------------------
(* The parts of a bundle.                                                  *)

AggregateForQuality(query, quality, p) ==
    Tokens(AggregateRollupUsage(PeriodFilter(query, quality, p)))

\* The comparison reads whole days, also for the exact rolling window.
PreviousUsage(query, p) ==
    IF p.cstart = NoTime THEN 0
    ELSE Tokens(AggregateRollupUsage(FilterOf(query, "confirmed", p.cstart, p.cend)))

AggregateDateKey(day, grain) == IF grain = "week" THEN (day \div WeekDays) * WeekDays ELSE day

\* confirmed_series_points by day or week, for the comparison of the chart
ComparisonPoints(query, p, grain) ==
    LET daily == AggregateRollupBy("day", FilterOf(query, "confirmed", p.cstart, p.cend))
    IN  IF p.cstart = NoTime THEN [d \in {} |-> 0]
        ELSE Rekeyed([d \in DOMAIN daily |-> Tokens(daily[d])], LAMBDA d : AggregateDateKey(d, grain))

\* http_timeseries: points by day or week, or by hour.
TimeseriesPoints(query, quality, p, grain) ==
    LET filter == PeriodFilter(query, quality, p)
        hourly == AggregateSelectedPeriodSeries("quality", filter, p)
        daily  == AggregateRollupBy("day", filter)
    IN  IF p.label = "rolling7"
        THEN Rekeyed(hourly, LAMBDA k : IF grain = "hour" THEN k[1]
                              ELSE AggregateDateKey((k[1] * HourLength) \div DayLength, grain))
        ELSE IF grain = "hour"
        THEN Rekeyed(Merged(<<AggregateTimeSeries("hour", "quality", filter)>>), LAMBDA k : k[1])
        ELSE Rekeyed([d \in DOMAIN daily |-> Tokens(daily[d])], LAMBDA d : AggregateDateKey(d, grain))

\* local_project_series, without its grouping by time
LocalProjectSeries(query, p) ==
    LET filter == PeriodFilter(query, "confirmed", p)
    IN  IF p.label = "rolling7"
        THEN Rekeyed(AggregateSelectedPeriodSeries("project", filter, p), LAMBDA k : k[2])
        ELSE Rekeyed(Merged(<<AggregateTimeSeries("day", "project", filter)>>), LAMBDA k : k[2])

BreakdownRows(query, dim, p) ==
    AggregateSelectedPeriodBy(dim, PeriodFilter(query, "confirmed", p), p)

-----------------------------------------------------------------------------
(* The catalog and the session trees.                                      *)

\* The projects a filter offers: those known, and the two reserved ones
\* when something belongs to them.
FilterCatalogProjects ==
    Projects
    \cup {x \in {StandaloneProject} :
            \E r \in Roots(catalog) : catalog[r].native /\ catalog[r].proj = NoProject}
    \cup {x \in {UnassignedProject} :
            AggregateRollupUsage([FilterOf(AllQuery, Unfiltered, NoTime, NoTime)
                                    EXCEPT !.proj = UnassignedProject]) # {}}

CatalogRoots(proj) ==
    {r \in Roots(catalog) :
        \/ proj = Unfiltered
        \/ proj = StandaloneProject /\ catalog[r].native /\ catalog[r].proj = NoProject
        \/ proj \in Projects /\ catalog[r].proj = proj}

\* explorer_sessions: whole days for every period, and no project filter
\* on the facts of a listed tree.
ExplorerSessions(query, p) ==
    LET filter == [PeriodFilter(query, "confirmed", p) EXCEPT !.proj = Unfiltered]
        roots  == CatalogRoots(query.proj)
        usage  == AggregateRollupByRootThreads(roots, filter)
    IN  [r \in roots |->
            IF r \in DOMAIN usage
            THEN [own |-> Tokens(usage[r].own), tree |-> Tokens(usage[r].tree)]
            ELSE [own |-> 0, tree |-> 0]]

RelativeDepth(root, t) == Min({n \in 0 .. TreeDepth : t \in Descendants(catalog, {root}, n)})

\* The usage of every thread when those of depth order[1], order[2] and so on
\* have in turn added what they have to their parents.
Gathered(root, own, order) ==
    LET use[i \in 0 .. Len(order)] ==
            IF i = 0 THEN own
            ELSE [t \in DOMAIN own |-> use[i - 1][t]
                     + SumFunctionOnSet(use[i - 1], {c \in DOMAIN own : /\ catalog[c].parent = t
                                                                       /\ RelativeDepth(root, c) = order[i]})]
    IN  use[Len(order)]

\* Mutant: parents are added up before their children.
TopDownSubtrees(root, own) == Gathered(root, own, [i \in 1 .. TreeDepth + 1 |-> i - 1])

\* The deepest threads first.
SubtreeUsage(root, own) == Gathered(root, own, [i \in 1 .. TreeDepth + 1 |-> TreeDepth + 1 - i])

\* explorer_session_detail: the tree is read from the catalog itself, not
\* from the membership the list uses.
SessionDetail(query, root, p) ==
    LET ids    == SessionTree(catalog, root)
        filter == [PeriodFilter(query, "confirmed", p) EXCEPT !.proj = Unfiltered]
        usage  == AggregateRollupByThreadIds(ids, filter)
        own    == [t \in ids |-> IF t \in DOMAIN usage THEN Tokens(usage[t]) ELSE 0]
        points == AggregateTimeSeriesForThreads("day", ids, filter)
    IN  [own |-> own[root], tree |-> SubtreeUsage(root, own)[root],
         timeline |-> SumFunction([k \in DOMAIN points |-> Tokens(points[k])])]

\* explorer_projects: period and lifetime usage of every project
ExplorerProjects(query, p) ==
    LET everything == [query EXCEPT !.proj = Unfiltered]
        now        == p.end
        lifetime   == BreakdownRows(everything, "project", ResolvePeriod("lifetime", now))
        period     == BreakdownRows(everything, "project", p)
        value(m, k) == IF k \in DOMAIN m THEN m[k] ELSE 0
    IN  [k \in Projects \cup DOMAIN lifetime |->
            [lifetime |-> value(lifetime, k), period |-> value(period, k)]]
=============================================================================
