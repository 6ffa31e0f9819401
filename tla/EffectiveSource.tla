--------------------------- MODULE EffectiveSource ---------------------------
(***************************************************************************)
(* What the ledger answers: the daily and hourly rollups and the raw rows  *)
(* of two kinds of evidence, the choice between them for every thread and  *)
(* day (effective_thread_day_source), the views that apply it, and the     *)
(* aggregate queries of usage_repository.rs on those views.                *)
(*                                                                         *)
(* An answer is the set of facts that it counts: COUNT and every SUM of    *)
(* the code are functions of that set.  That a rollup row is the sum of    *)
(* its facts is UsageLedger's matter and taken from there.                 *)
(***************************************************************************)
EXTENDS Naturals, Sequences, FiniteSets, SequencesExt

CONSTANTS
    Facts,          \* every fact either kind of evidence may bring
    Threads,
    Accounts,
    NoAccount,
    Projects,
    NoParent,
    NoProject,
    StandaloneProject, \* STANDALONE_CONVERSATIONS_PROJECT_ID
    UnassignedProject, \* UNASSIGNED_PROJECT_ID
    Unfiltered,     \* an absent filter
    HourLength,     \* time units in an hour
    DayLength,      \* time units in a day
    TreeDepth,      \* the depth of a session tree: 32
    MaxTime         \* bound: the last instant

Sources   == {"sampling", "reconstruction"}
Qualities == {"confirmed", "quarantined", "unknown"}

\* The disjoint parts of a usage: cached, cache-write and uncached input,
\* reasoning and other output.
Parts == 1 .. 5

Fact == [id : Nat, source : Sources, thread : Threads, parent : Threads \cup {NoParent},
         time : 0 .. MaxTime, acct : Accounts \cup {NoAccount}, proj : Projects \cup {NoProject},
         quality : Qualities, usage : [Parts -> Nat]]

\* A row of thread_catalog; native is source_kind = 'state_5' and depth 0.
CatalogRow == [parent : Threads \cup {NoParent}, proj : Projects \cup {NoProject},
               native : BOOLEAN, updated : 0 .. MaxTime]
IsCatalog(cat) == DOMAIN cat \subseteq Threads /\ \A t \in DOMAIN cat : cat[t] \in CatalogRow

Hour(t) == t \div HourLength
Day(t)  == t \div DayLength

ASSUME EffectiveSourceAssumption ==
    /\ Facts \subseteq Fact /\ IsFiniteSet(Facts) /\ IsFiniteSet(Threads)
    /\ \A f, g \in Facts : f.id = g.id => f = g
    /\ \A f \in Facts : f.source = "reconstruction" => f.quality = "confirmed"
    /\ NoParent \notin Threads /\ {Unfiltered, NoAccount} \cap Accounts = {}
    /\ {NoProject, StandaloneProject, UnassignedProject, Unfiltered} \cap Projects = {}
    /\ Cardinality({NoProject, StandaloneProject, UnassignedProject, Unfiltered}) = 4
    /\ HourLength \in Nat \ {0} /\ DayLength \in Nat \ {0} /\ DayLength % HourLength = 0
    /\ TreeDepth \in Nat /\ MaxTime \in Nat

VARIABLES
    sampled,  \* log samples in daily_usage_rollups and hourly_usage_rollups
    raw,      \* those whose usage_events row is retained
    rebuilt,  \* reconstruction_usage_events, and the rollups of them
    dirty,    \* effective_source_selection_state.dirty
    choice,   \* effective_thread_day_source: its rows, as a function of their key
    catalog,  \* thread_catalog
    standalone, \* standalone_thread_membership: its threads
    rootOf    \* thread_root_membership: the root of every thread that has one

-----------------------------------------------------------------------------
(* Thread trees, as rebuild_standalone_membership_in finds them.           *)

Roots(cat) == {t \in DOMAIN cat : cat[t].parent = NoParent}

\* The threads at most n steps below a set of threads.
Descendants(cat, S, n) ==
    LET gen[i \in 0 .. n] ==
            IF i = 0 THEN S ELSE gen[i - 1] \cup {t \in DOMAIN cat : cat[t].parent \in gen[i - 1]}
    IN  gen[n]

\* However deep: there are no more steps than threads.
StandaloneMembership(cat) ==
    Descendants(cat, {r \in Roots(cat) : cat[r].proj = NoProject /\ cat[r].native},
                Cardinality(Threads))

\* The tree of a thread, to the depth at which the recursive queries stop
SessionTree(cat, r) == Descendants(cat, {r}, TreeDepth)

\* A thread whose ancestors end in an unknown thread has no root, nor has one too deep.
RootMembership(cat) ==
    [t \in Descendants(cat, Roots(cat), TreeDepth) |->
        CHOOSE r \in Roots(cat) : t \in SessionTree(cat, r)]

TreeOf(root) == {t \in DOMAIN rootOf : rootOf[t] = root}

-----------------------------------------------------------------------------
(* The choice of evidence.                                                 *)

TotalOf(u)  == SumFunction(u)
Tokens(S)   == SumFunction([f \in S |-> TotalOf(f.usage)])

KeyOf(f) == <<Day(f.time), f.thread>>
OfKey(S, k) == {f \in S : KeyOf(f) = k}
Confirmed(S) == {f \in S : f.quality = "confirmed"}

BestSource(k) ==
    IF Tokens(OfKey(rebuilt, k)) > Tokens(OfKey(Confirmed(sampled), k))
    THEN "reconstruction" ELSE "sampling"

BestChoice == [k \in {KeyOf(f) : f \in Confirmed(sampled) \cup rebuilt} |-> BestSource(k)]

\* Mutant: only rows that come are noticed, not rows that go.
DirtiedByInserts(before, after) == dirty \/ after \ before # {}

\* The effective_* triggers: any write to a confirmed row of either daily rollup.
Dirtied(before, after) == dirty \/ before # after

RefreshEffectiveSourceSelection ==
    IF dirty
    THEN choice' = BestChoice /\ dirty' = FALSE
    ELSE UNCHANGED <<choice, dirty>>

-----------------------------------------------------------------------------
(* The views: what a query about confirmed usage reads, and what any other *)
(* query reads.                                                            *)

Chosen(S) == {f \in S : KeyOf(f) \in DOMAIN choice /\ choice[KeyOf(f)] = f.source}

\* effective_usage_events, or usage_events
RawTable(quality) ==
    IF quality = "confirmed" THEN Chosen(Confirmed(raw) \cup rebuilt) ELSE raw

\* effective_daily_usage_rollups, or daily_usage_rollups
DailyTable(quality) ==
    IF quality = "confirmed" THEN Chosen(Confirmed(sampled) \cup rebuilt) ELSE sampled

\* effective_hourly_usage_rollups, or hourly_usage_rollups: the day of an
\* hour is the day its facts are chosen by, so the same facts.
HourlyTable(quality) == DailyTable(quality)

-----------------------------------------------------------------------------
(* Filters.  An absent start is 0, an absent end MaxTime + 1.              *)

ProjectKey(f) ==
    IF f.thread \in standalone THEN StandaloneProject
    ELSE IF f.proj = NoProject THEN UnassignedProject
    ELSE f.proj

\* Mutant: a named project keeps the usage of standalone conversations.
NamedTakesStandalone(f, proj) ==
    \/ proj = Unfiltered
    \/ proj = StandaloneProject /\ f.thread \in standalone
    \/ proj = UnassignedProject /\ f.proj = NoProject /\ f.thread \notin standalone
    \/ proj = f.proj

ProjectMatches(f, proj) ==
    \/ proj = Unfiltered
    \/ proj = StandaloneProject /\ f.thread \in standalone
    \/ proj = UnassignedProject /\ f.proj = NoProject /\ f.thread \notin standalone
    \/ proj \in Projects /\ f.proj = proj /\ f.thread \notin standalone

Matches(f, filter) ==
    /\ filter.acct \in {Unfiltered, f.acct}
    /\ filter.quality \in {Unfiltered, f.quality}
    /\ ProjectMatches(f, filter.proj)

WithinExactly(t, filter) == filter.from <= t /\ t < filter.to

\* Rollup filters widen the window to whole hours and days; the last instant
\* before the end names the last one.
WithinHours(t, filter) == filter.to > 0 /\ Hour(t) \in Hour(filter.from) .. Hour(filter.to - 1)
WithinDays(t, filter)  == filter.to > 0 /\ Day(t) \in Day(filter.from) .. Day(filter.to - 1)

BuildFilter(filter) ==
    {f \in RawTable(filter.quality) : Matches(f, filter) /\ WithinExactly(f.time, filter)}
BuildHourlyFilter(filter) ==
    {f \in HourlyTable(filter.quality) : Matches(f, filter) /\ WithinHours(f.time, filter)}
BuildRollupFilter(filter) ==
    {f \in DailyTable(filter.quality) : Matches(f, filter) /\ WithinDays(f.time, filter)}

OfThreads(S, threads) == {f \in S : f.thread \in threads}

-----------------------------------------------------------------------------
(* The aggregates.                                                         *)

GroupBy(S, Key(_)) == [k \in {Key(f) : f \in S} |-> {f \in S : Key(f) = k}]

DimensionKey(dim, f) ==
    CASE dim = "account" -> f.acct
      [] dim = "project" -> ProjectKey(f)
      [] dim = "thread"  -> f.thread
      [] dim = "day"     -> Day(f.time)
      [] dim = "quality" -> f.quality

AggregateUsage(filter)       == BuildFilter(filter)
AggregateHourlyUsage(filter) == BuildHourlyFilter(filter)
AggregateRollupUsage(filter) == BuildRollupFilter(filter)

AggregateBy(dim, filter) ==
    GroupBy(BuildFilter(filter), LAMBDA f : DimensionKey(dim, f))
AggregateByDay(filter) ==
    GroupBy(BuildFilter(filter), LAMBDA f : Day(f.time))
AggregateRollupBy(dim, filter) ==
    GroupBy(BuildRollupFilter(filter), LAMBDA f : DimensionKey(dim, f))

\* A series is keyed by the hour or day and the dimension.
TimeKey(grain, f) == IF grain = "hour" THEN Hour(f.time) ELSE Day(f.time)
SeriesBy(S, grain, dim) == GroupBy(S, LAMBDA f : <<TimeKey(grain, f), DimensionKey(dim, f)>>)
TimeTable(grain, filter) ==
    IF grain = "hour" THEN BuildHourlyFilter(filter) ELSE BuildRollupFilter(filter)

AggregateTimeSeries(grain, dim, filter)      == SeriesBy(TimeTable(grain, filter), grain, dim)
AggregateExactTimeSeries(grain, dim, filter) == SeriesBy(BuildFilter(filter), grain, dim)

AggregateUsageForThreads(threads, filter) == OfThreads(BuildFilter(filter), threads)
AggregateByThreadIds(threads, filter) ==
    GroupBy(OfThreads(BuildFilter(filter), threads), LAMBDA f : f.thread)
AggregateRollupUsageForThreads(threads, filter) == OfThreads(BuildRollupFilter(filter), threads)
AggregateRollupByThreadIds(threads, filter) ==
    GroupBy(OfThreads(BuildRollupFilter(filter), threads), LAMBDA f : f.thread)
AggregateTimeSeriesForThreads(grain, threads, filter) ==
    GroupBy(OfThreads(TimeTable(grain, filter), threads), LAMBDA f : TimeKey(grain, f))

\* A root is answered only if a fact joins its tree.
AggregateRollupByRootThreads(roots, filter) ==
    LET tree(r) == OfThreads(BuildRollupFilter(filter), TreeOf(r))
    IN  [r \in {x \in roots : tree(x) # {}} |->
            [nodes |-> Cardinality(TreeOf(r)), own |-> OfThreads(tree(r), {r}),
             tree |-> tree(r)]]

-----------------------------------------------------------------------------
(* The transactions that write the tables.                                 *)

\* upsert_thread_catalog_in: what a row lacks does not erase what is known.
Known(new, old, none) == IF new = none THEN old ELSE new
MergedRow(old, row) ==
    [parent  |-> Known(row.parent, old.parent, NoParent),
     proj    |-> Known(row.proj, old.proj, NoProject),
     native  |-> old.native \/ row.native,
     updated |-> Max({old.updated, row.updated})]

\* by where it is defined, f elsewhere
Updated(f, by) == [x \in DOMAIN f \cup DOMAIN by |-> IF x \in DOMAIN by THEN by[x] ELSE f[x]]

CatalogWith(rows) ==
    Updated(catalog, [t \in DOMAIN rows |->
                         IF t \in DOMAIN catalog THEN MergedRow(catalog[t], rows[t]) ELSE rows[t]])

Latest(S) == CHOOSE f \in S : \A g \in S : g.id <= f.id

\* upsert_event_thread_catalog_in: every sampled event names its thread.  The
\* events of a thread in the order of their ids, a row upserted for each,
\* leave what the last of them knows.
EventRow(events) ==
    LET childs == {f \in events : f.parent # NoParent}
        placed == {f \in events : f.proj # NoProject}
    IN  [parent  |-> IF childs = {} THEN NoParent ELSE Latest(childs).parent,
         proj    |-> IF placed = {} THEN NoProject ELSE Latest(placed).proj,
         native  |-> FALSE,
         updated |-> Max({f.time : f \in events})]

CatalogAfter(batch) ==
    CatalogWith([t \in {f.thread : f \in batch} |-> EventRow({f \in batch : f.thread = t})])

\* upsert_verified_events_and_cursor, with the rollup triggers; the
\* memberships are left as they are.
InsertSamples(batch) ==
    /\ batch \cap sampled = {}
    /\ sampled' = sampled \cup batch
    /\ raw' = raw \cup batch
    /\ dirty' = Dirtied(Confirmed(sampled), Confirmed(sampled'))
    /\ catalog' = CatalogAfter(batch)
    /\ UNCHANGED <<rebuilt, choice, standalone, rootOf>>

\* upsert_reconstruction_events_and_cursor
InsertRebuilt(batch) ==
    /\ rebuilt' = rebuilt \cup batch
    /\ rebuilt' # rebuilt
    /\ dirty' = Dirtied(rebuilt, rebuilt')
    /\ UNCHANGED <<sampled, raw, choice, catalog, standalone, rootOf>>

\* replace_reconstruction_sources: the facts of a replaced file are deleted
\* and the rollups are rebuilt from the rest.
WithdrawRebuilt(thread) ==
    /\ rebuilt' = {f \in rebuilt : f.thread # thread}
    /\ rebuilt' # rebuilt
    /\ dirty' = Dirtied(rebuilt, rebuilt')
    /\ UNCHANGED <<sampled, raw, choice, catalog, standalone, rootOf>>

\* compact_expired_raw_events: the rollups keep what the raw rows held.
CompactRaw(before) ==
    /\ raw' = {f \in raw : f.time >= before}
    /\ raw' # raw
    /\ UNCHANGED <<sampled, rebuilt, dirty, choice, catalog, standalone, rootOf>>

\* sync_native_thread_catalog_batch: rows upserted, then both memberships rebuilt.
SyncCatalog(rows) ==
    /\ catalog' = CatalogWith(rows)
    /\ standalone' = StandaloneMembership(catalog')
    /\ rootOf' = RootMembership(catalog')
    /\ UNCHANGED <<sampled, raw, rebuilt, dirty, choice>>

Refresh ==
    /\ RefreshEffectiveSourceSelection
    /\ UNCHANGED <<sampled, raw, rebuilt, catalog, standalone, rootOf>>

tables == <<sampled, raw, rebuilt, dirty, choice, catalog, standalone, rootOf>>
=============================================================================
