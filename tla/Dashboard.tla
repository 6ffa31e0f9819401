------------------------------- MODULE Dashboard -------------------------------
(***************************************************************************)
(* The dashboard over the ledger: the transactions that write the ledger,  *)
(* the HTTP requests that read it statement by statement on a connection   *)
(* of their own, the query cache of the server, and the page with its      *)
(* change events, its refresh timer and its manual refreshes.              *)
(*                                                                         *)
(* The page shows one query; navigation to other queries and back is       *)
(* Navigate.  Time has two scales: now is the clock of the facts, and a    *)
(* tick is a share of the ten seconds of cache and timer.                  *)
(***************************************************************************)
EXTENDS Reconciliation

CONSTANTS
    PageQuery, PageLabel,  \* what the page shows
    Slots,          \* computations the server may have under way
    Batches,        \* the batches of log samples
    RebuiltBatches, \* the batches of reconstructed facts
    Scans,          \* the rows a catalog scan may bring
    Answers,        \* pairs of an account and an answer of account/usage/read
    Counts,         \* account counts the user may confirm
    CacheTtl,       \* QUERY_CACHE_TTL in ticks
    Debounce,       \* the page's timer in ticks
    FirstNow,       \* the clock at the beginning
    MaxWrites,      \* bound: writes to the ledger
    MaxPageWrites,  \* bound: writes to the ledger with the page open
    MaxFetches,     \* bound: fetches of the page
    None

ASSUME DashboardAssumption ==
    /\ PageLabel \in PeriodLabels /\ IsFiniteSet(Slots)
    /\ \A b \in Batches : b \subseteq {f \in Facts : f.source = "sampling"}
    /\ \A b \in RebuiltBatches : b \subseteq {f \in Facts : f.source = "reconstruction"}
    /\ \A x \in Answers : x[1] \in Accounts /\ IsOfficialUsage(x[2])
    /\ \A rows \in Scans : IsCatalog(rows)
    /\ Counts \subseteq 0 .. 64
    /\ CacheTtl \in Nat \ {0} /\ Debounce \in Nat \ {0} /\ FirstNow \in 0 .. MaxTime
    /\ MaxWrites \in Nat /\ MaxPageWrites \in 1 .. MaxWrites /\ MaxFetches \in Nat

VARIABLES
    now,
    writes,   \* ghost: the writes so far, which number the versions of the ledger
    requests, \* what the server computes, per slot
    cache,    \* query_cache at the page's query
    client    \* the page

views == <<now, writes, requests, cache, client>>
vars  == <<tables, official, views>>

\* An answer: the version its last statement saw, and the total shown.
Answer == [version : 0 .. MaxWrites, sum : Nat]

Statements == [table : {"raw", "hour", "day"}, from : 0 .. MaxTime, to : 0 .. MaxTime + 1]

Request ==
    [phase : {"idle", "sent", "reading", "done"}, period : {None} \cup [start : 0 .. MaxTime, end : 0 .. MaxTime],
     todo : Seq(Statements), refreshed : BOOLEAN, answer : Answer, disturbed : BOOLEAN]

Idle == [phase |-> "idle", period |-> None, todo |-> <<>>, refreshed |-> FALSE,
         answer |-> [version |-> 0, sum |-> 0], disturbed |-> FALSE]

-----------------------------------------------------------------------------
(* Writes.  Every write numbers a version, and disturbs the requests that  *)
(* are being read.                                                         *)

Writes ==
    /\ writes < IF client.open THEN MaxPageWrites ELSE MaxWrites
    /\ writes' = writes + 1
    /\ requests' = [s \in Slots |->
                       IF requests[s].phase = "reading" THEN [requests[s] EXCEPT !.disturbed = TRUE]
                       ELSE requests[s]]

\* The log is read in its order.
Ingest(batch) ==
    /\ Writes
    /\ \A f \in batch : f.time < now
    /\ \A f \in UNION Batches, g \in batch : f.id < g.id => f \in sampled \cup batch
    /\ InsertSamples(batch)
    /\ UNCHANGED <<official, now, cache, client>>

Rebuild(batch) ==
    /\ Writes
    /\ \A f \in batch : f.time < now
    /\ InsertRebuilt(batch)
    /\ UNCHANGED <<official, now, cache, client>>

Withdraw(thread) ==
    /\ Writes
    /\ WithdrawRebuilt(thread)
    /\ UNCHANGED <<official, now, cache, client>>

\* compact_expired_raw_events when the daemon starts
Compact ==
    /\ Writes
    /\ CompactRaw(Before(now, RollingLength))
    /\ UNCHANGED <<official, now, cache, client>>

Scan(rows) ==
    /\ Writes
    /\ SyncCatalog(rows)
    /\ UNCHANGED <<official, now, cache, client>>

\* The time of an answer: later than those before.
Stamp == 1 + Max({0} \cup {snapshot[a].observed : a \in DOMAIN snapshot})

\* The daemon stores an answer of the backend and tells nobody.
StoreOfficial(answer) ==
    /\ Writes
    /\ UpsertOfficialAccountUsage(answer[1], answer[2], Stamp)
    /\ UNCHANGED <<tables, now, cache, client>>

\* update_account_registry for another page
Confirm(n) ==
    /\ Writes
    /\ SetUserConfirmedAccountCount(n)
    /\ confirmedCount' # confirmedCount
    /\ cache' = None
    /\ UNCHANGED <<tables, now, client>>

\* A unit of this clock is long beside what a page does: it passes between pages.
PassTime ==
    /\ now < MaxTime /\ ~client.open
    /\ now' = now + 1
    /\ UNCHANGED <<tables, official, writes, requests, cache, client>>

\* Another reader, such as the snapshot command, refreshes the selection.
OtherReader ==
    /\ dirty
    /\ Refresh
    /\ UNCHANGED <<official, views>>

\* dashboard_revision.  The stamps of quota rows, collector status and
\* rollup backfill move with these or are left out; reconstruction has none.
Revision ==
    [event    |-> Max({0} \cup {f.id : f \in raw}),
     catalog  |-> Max({0} \cup {catalog[t].updated : t \in DOMAIN catalog}),
     official |-> Max({0} \cup {snapshot[a].observed : a \in DOMAIN snapshot})]

-----------------------------------------------------------------------------
(* The page.                                                               *)

\* due is a ghost: the version that the fetch of the timer is to show.
Closed == [open |-> FALSE, fetch |-> None, fetches |-> 0, shown |-> None,
           seen |-> None, wanted |-> 0, due |-> None, timer |-> None, post |-> None]

Free == {s \in Slots : requests[s].phase = "idle"}

\* A new fetch takes the place of the one before, whose computation goes on.
Fetching(page, s, due) ==
    /\ page.fetches < MaxFetches
    /\ requests' = [requests EXCEPT ![s] = [Idle EXCEPT !.phase = "sent"]]
    /\ client' = [page EXCEPT !.open = TRUE, !.fetch = s, !.due = due,
                              !.fetches = page.fetches + 1]

OpenPage(s) ==
    /\ ~client.open /\ writes < MaxPageWrites
    /\ Fetching(client, s, None)
    /\ UNCHANGED <<tables, official, now, writes, cache>>

\* To another query and back to this one.
Navigate(s) ==
    /\ client.open
    /\ Fetching([client EXCEPT !.shown = None], s, None)
    /\ UNCHANGED <<tables, official, now, writes, cache>>

\* A ledger-change event.  The first one only says where the page begins.
Change ==
    /\ client.open
    /\ client.seen # Revision
    /\ client' = [client EXCEPT !.seen = Revision, !.wanted = writes,
                                !.timer = IF client.seen # None /\ @ = None THEN Debounce ELSE @]
    /\ UNCHANGED <<tables, official, now, writes, requests, cache>>

TimerFires(s) ==
    /\ client.timer = 0
    /\ Fetching([client EXCEPT !.timer = None], s, client.wanted)
    /\ UNCHANGED <<tables, official, now, writes, cache>>

\* retry, and confirmAccountCount
Post(kind) ==
    /\ client.open /\ client.post = None /\ client.fetches < MaxFetches
    /\ client' = [client EXCEPT !.post = kind]
    /\ UNCHANGED <<tables, official, now, writes, requests, cache>>

\* refresh_official_usage and set_user_confirmed_account_count on the server
PostStores ==
    /\ Writes
    /\ \/ client.post = "official"
          /\ \E answer \in Answers : UpsertOfficialAccountUsage(answer[1], answer[2], Stamp)
       \/ client.post = "count"
          /\ \E n \in Counts : SetUserConfirmedAccountCount(n)
    /\ client' = [client EXCEPT !.post = "stored"]
    /\ UNCHANGED <<tables, now, cache>>

\* A failed refresh fetches all the same, a failed count shows the error.
PostFails ==
    /\ client.post \in {"official", "count"}
    /\ client' = IF client.post = "official" THEN [client EXCEPT !.post = "answered"]
                 ELSE [client EXCEPT !.post = None]
    /\ UNCHANGED <<tables, official, now, writes, requests, cache>>

\* invalidate_query_cache, after the transaction
Invalidate ==
    /\ client.post = "stored"
    /\ cache' = None
    /\ client' = [client EXCEPT !.post = "answered"]
    /\ UNCHANGED <<tables, official, now, writes, requests>>

PostReturns(s) ==
    /\ client.post = "answered"
    /\ Fetching([client EXCEPT !.post = None], s, None)
    /\ UNCHANGED <<tables, official, now, writes, cache>>

\* Mutant: an expired entry goes on being served.
TickKeepsExpired ==
    /\ client.timer \notin {None, 0} \/ cache # None
    /\ client' = [client EXCEPT !.timer = IF @ \in {None, 0} THEN @ ELSE @ - 1]
    /\ cache' = IF cache = None THEN None
                ELSE [cache EXCEPT !.age = @ + 1]
    /\ UNCHANGED <<tables, official, now, writes, requests>>

Tick ==
    /\ client.timer \notin {None, 0} \/ cache # None
    /\ client' = [client EXCEPT !.timer = IF @ \in {None, 0} THEN @ ELSE @ - 1]
    /\ cache' = IF cache = None \/ cache.age = CacheTtl THEN None
                ELSE [cache EXCEPT !.age = @ + 1]
    /\ UNCHANGED <<tables, official, now, writes, requests>>

-----------------------------------------------------------------------------
(* A request on the server.                                                *)

\* cached_query_value: a hit, or the statements of the confirmed total.
Start(s) ==
    /\ requests[s].phase = "sent"
    /\ requests' = [requests EXCEPT ![s] =
            IF cache # None THEN [@ EXCEPT !.phase = "done", !.answer = cache.answer]
            ELSE LET p == ResolvePeriod(PageLabel, now)
                 IN  [@ EXCEPT !.phase = "reading", !.period = [start |-> TimeOr(p.start, 0), end |-> p.end],
                               !.todo = StatementsOf(p)]]
    /\ UNCHANGED <<tables, official, now, writes, cache, client>>

\* Each statement refreshes the selection in a transaction of its own ...
RefreshFirst(s) ==
    /\ requests[s].phase = "reading" /\ requests[s].todo # <<>> /\ ~requests[s].refreshed
    /\ Refresh
    /\ requests' = [requests EXCEPT ![s].refreshed = TRUE]
    /\ UNCHANGED <<official, now, writes, cache, client>>

\* ... and reads after it.
Read(s) ==
    LET filter == FilterOf(PageQuery, "confirmed", NoTime, NoTime)
    IN  /\ requests[s].refreshed
        /\ requests' = [requests EXCEPT
                ![s].todo = Tail(@), ![s].refreshed = FALSE,
                ![s].answer.sum = @ + Tokens(ReadStatement(Head(requests[s].todo), filter))]
        /\ UNCHANGED <<tables, official, now, writes, cache, client>>

\* The rest of the bundle refreshes again; then the value is cached.
Finish(s) ==
    /\ requests[s].phase = "reading" /\ requests[s].todo = <<>>
    /\ Refresh
    /\ requests' = [requests EXCEPT ![s].phase = "done", ![s].answer.version = writes]
    /\ cache' = [age |-> 1, answer |-> requests'[s].answer]
    /\ UNCHANGED <<official, now, writes, client>>

\* A statement fails, or the request of an aborted fetch is dropped.
Fail(s) ==
    /\ requests[s].phase \in {"sent", "reading"}
    /\ requests' = [requests EXCEPT ![s] = Idle]
    /\ client' = IF client.fetch = s THEN [client EXCEPT !.fetch = None, !.due = None] ELSE client
    /\ UNCHANGED <<tables, official, now, writes, cache>>

Deliver(s) ==
    /\ requests[s].phase = "done"
    /\ requests' = [requests EXCEPT ![s] = Idle]
    /\ client' = IF client.fetch = s THEN [client EXCEPT !.fetch = None, !.shown = requests[s].answer]
                 ELSE client
    /\ UNCHANGED <<tables, official, now, writes, cache>>

-----------------------------------------------------------------------------
Init ==
    /\ sampled = {} /\ raw = {} /\ rebuilt = {} /\ dirty = TRUE
    /\ choice = [k \in {} |-> "sampling"]
    /\ catalog = [t \in {} |-> NoParent] /\ standalone = {} /\ rootOf = [t \in {} |-> t]
    /\ snapshot = [a \in {} |-> 0] /\ buckets = [a \in {} |-> 0] /\ confirmedCount = 0
    /\ now = FirstNow /\ writes = 0
    /\ requests = [s \in Slots |-> Idle]
    /\ cache = None /\ client = Closed

Write ==
    \/ \E batch \in Batches : Ingest(batch)
    \/ \E batch \in RebuiltBatches : Rebuild(batch)
    \/ \E thread \in Threads : Withdraw(thread)
    \/ \E rows \in Scans : Scan(rows)
    \/ \E answer \in Answers : StoreOfficial(answer)
    \/ \E n \in Counts : Confirm(n)
    \/ Compact

Page ==
    \/ \E s \in Free : OpenPage(s) \/ Navigate(s) \/ TimerFires(s) \/ PostReturns(s)
    \/ \E kind \in {"official", "count"} : Post(kind)
    \/ Change \/ PostStores \/ PostFails \/ Invalidate \/ Tick

Serve == \E s \in Slots : Start(s) \/ RefreshFirst(s) \/ Read(s) \/ Finish(s) \/ Fail(s) \/ Deliver(s)

Next == Write \/ PassTime \/ OtherReader \/ Page \/ Serve

Spec == Init /\ [][Next]_vars

-----------------------------------------------------------------------------
(* Properties.                                                             *)

\* The variables keep their types.
DashboardTypeOK ==
    /\ sampled \subseteq Facts /\ raw \subseteq sampled /\ rebuilt \subseteq Facts
    /\ dirty \in BOOLEAN /\ choice \in [DOMAIN choice -> Sources]
    /\ \A k \in DOMAIN choice : k[1] \in Days /\ k[2] \in Threads
    /\ IsCatalog(catalog)
    /\ standalone \subseteq Threads /\ DOMAIN rootOf \subseteq Threads
    /\ \A t \in DOMAIN rootOf : rootOf[t] \in Threads
    /\ DOMAIN snapshot \subseteq Accounts /\ DOMAIN buckets = DOMAIN snapshot
    /\ \A a \in DOMAIN snapshot :
          /\ snapshot[a].observed \in 1 .. MaxWrites /\ snapshot[a].lifetime \in Nat \cup {NoValue}
          /\ DOMAIN buckets[a] \subseteq Days /\ \A d \in DOMAIN buckets[a] : buckets[a][d] \in Nat
    /\ confirmedCount \in 0 .. 64
    /\ now \in FirstNow .. MaxTime /\ writes \in 0 .. MaxWrites
    /\ requests \in [Slots -> Request]
    /\ cache # None => cache.age \in 1 .. CacheTtl /\ cache.answer \in Answer
    /\ client.open \in BOOLEAN
    /\ client.fetch \in Slots \cup {None}
    /\ client.fetches \in 0 .. MaxFetches /\ client.shown \in Answer \cup {None}
    /\ client.wanted \in 0 .. MaxWrites /\ client.due \in 0 .. MaxWrites \cup {None} /\ client.timer \in 0 .. Debounce \cup {None}
    /\ client.post \in {None, "official", "count", "stored", "answered"}

\* A clean marker means that the stored choice is the one the rollups of this
\* moment call for: no write of confirmed usage slips past the triggers of
\* effective_source_selection_state, whatever inserts, withdraws or compacts.
SelectionCurrent == ~dirty => choice = BestChoice

\* What the ledger's evidence says of a window, each thread's day counted
\* from the kind of evidence that holds more of it.
Evidence(from, to) ==
    {f \in Confirmed(sampled) \cup rebuilt :
        BestChoice[KeyOf(f)] = f.source /\ from <= f.time /\ f.time < to}

\* A request that no write disturbed has counted every fact of its period
\* exactly once, although its rolling window is put together from raw rows
\* and hour rollups by several statements, and compaction removes raw rows of
\* the same age: aggregate_exact_hour_window.
WindowCountsOnce ==
    \A s \in Slots :
        LET r == requests[s]
        IN  r.phase = "reading" /\ r.todo = <<>> /\ ~r.disturbed =>
                LET from == IF PageLabel = "rolling7" THEN r.period.start
                            ELSE Day(r.period.start) * DayLength
                IN  r.answer.sum = Tokens({f \in Evidence(from, r.period.end) : Matches(f,
                                       FilterOf(PageQuery, "confirmed", NoTime, NoTime))})

\* What the next ones say of the ledger alone is looked at when no page is open.
AtRest == ~client.open /\ ~dirty
Period(label) == ResolvePeriod(label, now)

LocalQueries ==
    {AllQuery} \cup {[acct |-> a, proj |-> Unfiltered] : a \in Accounts}
    \cup {[acct |-> Unfiltered, proj |-> x] : x \in Projects \cup {StandaloneProject, UnassignedProject}}

Grains(label) == {"day", "week"} \cup (IF label \in {"today", "rolling7"} THEN {"hour"} ELSE {})

\* The raw rows that compaction keeps answer for whole days as the rollups do,
\* for the days that it cannot have touched.
RawMatchesRollups ==
    LET cut    == Before(now, RollingLength)
        first  == IF cut % DayLength = 0 THEN cut ELSE (Day(cut) + 1) * DayLength
        filter == FilterOf(AllQuery, "confirmed", first, MaxTime + 1)
    IN  /\ AggregateByDay(filter) = AggregateRollupBy("day", filter)
        /\ AggregateBy("project", filter) = AggregateRollupBy("project", filter)
        /\ AggregateByThreadIds(Threads, filter) = AggregateRollupByThreadIds(Threads, filter)
        /\ AggregateUsageForThreads(standalone, filter) = AggregateRollupUsageForThreads(standalone, filter)

\* The parts of one bundle agree about local usage: the total, the points of
\* the chart, the project series and every breakdown add up to the same
\* number for every period and filter, the row of a project shows what its
\* filter selects, and named, standalone and unassigned usage share out the
\* whole.  Only usage of unknown quality is counted by whole days where the
\* chart has the exact rolling window.  Each part reads different tables by different statements.
SameAnswerEveryWay ==
    AtRest => RawMatchesRollups /\ \A label \in PeriodLabels, q \in LocalQueries :
        LET p      == Period(label)
            filter == PeriodFilter(q, "confirmed", p)
            total  == AggregateSelectedPeriod(filter, p)
            cover  == AttributionCoverage(q.acct, p)
            shown  == ExplorerProjects(q, p)
            doubt  == SumFunction(TimeseriesPoints(q, "unknown", p, "day"))
        IN  /\ \A grain \in Grains(label) :
                  SumFunction(TimeseriesPoints(q, "confirmed", p, grain)) = total
            /\ \A dim \in {"account", "project", "thread"} : SumFunction(BreakdownRows(q, dim, p)) = total
            /\ SumFunction(LocalProjectSeries(q, p)) = total
            /\ q = AllQuery => \A x \in DOMAIN shown :
                  shown[x].period = AggregateSelectedPeriod([filter EXCEPT !.proj = x], p)
            /\ SumFunction(ComparisonPoints(q, p, "week")) = PreviousUsage(q, p)
            /\ doubt <= AggregateForQuality(q, "unknown", p)
            /\ label # "rolling7" => doubt = AggregateForQuality(q, "unknown", p)
            /\ q.proj = Unfiltered =>
                  cover.named + cover.standalone + cover.unassigned = cover.local

\* When a scan has brought the memberships up to date, the session list, which
\* reads them, and the session detail, which walks the catalog, show the same
\* tree with the same usage as its timeline; the trees share out the usage
\* of the threads that have a root; and a project that has usage is offered
\* as a filter.  (Unassigned usage is offered by the samples alone.)
TreesAgree ==
    AtRest /\ rootOf = RootMembership(catalog) /\ standalone = StandaloneMembership(catalog)
        => \A label \in PeriodLabels :
        LET p     == Period(label)
            list  == ExplorerSessions(AllQuery, p)
            whole == PeriodFilter(AllQuery, "confirmed", p)
        IN  /\ \A r \in DOMAIN list :
                  LET detail == SessionDetail(AllQuery, r, p)
                  IN  /\ list[r].own = detail.own /\ list[r].tree = detail.tree
                      /\ detail.timeline = detail.tree
            /\ SumFunction([r \in DOMAIN list |-> list[r].tree])
                 = Tokens(AggregateRollupUsageForThreads(DOMAIN rootOf, whole))
            /\ DOMAIN BreakdownRows(AllQuery, "project", p)
                 \subseteq FilterCatalogProjects \cup {UnassignedProject}

\* All accounts together never show less than one of them, where official
\* totals, days after an account's coverage and accounts without a profile
\* are put together.  (Lifetime is excepted when only some accounts have an
\* official lifetime total: then all of them fall back to their buckets.)
AllNotBelowOne ==
    AtRest => \A label \in PeriodLabels, a \in Observed :
        LET p == Period(label)
        IN  (label = "lifetime" => LifetimeAvailable(Unfiltered) \/ ~LifetimeAvailable(a))
                => DisplayTotal(Unfiltered, p) >= DisplayTotal(a, p)

Scopes == {Unfiltered} \cup Observed

\* The reconciled days of the chart add up to the total above it, but for
\* local usage of days before an account's coverage, which only the chart has:
\* no day is counted both officially and locally, and none is left out.
PointsAddUp ==
    AtRest => \A label \in PeriodLabels \ {"lifetime"}, acct \in Scopes :
        LET p      == Period(label)
            b      == Bounds(p)
            points == ReconcileAccountDays(acct, b, Day(now))
            cover  == AttributionCoverage(acct, p)
            weeks  == AggregateReconciledAccountDays(points, "week")
            early  == SumFunction([a \in InScope(acct) \cap Covered(acct) |->
                          SumFunction([d \in {x \in DOMAIN points : x < CoverageStart(a)} |->
                                          LocalByDay(a, d)])])
            Sum(m) == SumFunction([k \in DOMAIN m |-> m[k].value])
        IN  /\ Sum(points) = DisplayTotal(acct, p) + early
            /\ Sum(weeks) = Sum(points)
            /\ SumFunction(OfficialPoints(acct, b)) = BucketTotal(acct, b)
            /\ cover.before + cover.without + cover.onEvidence = BucketTotal(acct, b)

\* A total that the page calls exact has an official value for every account
\* on every day of the period, and is their sum without any local usage.
ExactIsEveryDay ==
    AtRest => \A label \in PeriodLabels \ {"lifetime"}, acct \in Scopes :
        LET p      == Period(label)
            points == ReconcileAccountDays(acct, Bounds(p), Day(now))
        IN  MetricStatus(acct, p) = "exact" =>
                /\ \A d \in DOMAIN points : points[d].status = "exact_official"
                /\ DisplayTotal(acct, p) = BucketTotal(acct, Bounds(p))
                /\ acct = Unfiltered /\ LocalCoverageComplete(p) => ReconciliationComparable(acct, p)

\* The estimate for accounts not yet seen shares out the local usage that the
\* official days do not explain: its days and its projects add up to the
\* residual, which with the explained part is the local usage, and no part of
\* a row grows.
ResidualConserved ==
    AtRest /\ EstimateApplicable(Unfiltered) => \A label \in PeriodLabels :
        LET b == Bounds(Period(label))
            e == MissingAccountEstimate(b)
        IN  /\ e.total = e.raw /\ e.raw + e.capped = e.local
            /\ SumFunction(e.byDay) = e.total /\ SumFunction(e.byProject) = e.total
            /\ \A k \in AlignedDays(b) :
                  LET rows   == ResidualUsageRows(k[1], k[2])
                      shares == AllocateResidualComponents(rows, ResidualOn(k))
                  IN  \A x \in DOMAIN rows, q \in Parts : shares[x][q] <= rows[x][q]

\* "ordinary live updates remain at most one UI tick behind": when the fetch of
\* the page's timer has been answered, the page shows what the page knew to
\* have changed when the timer fired.
LiveUpdateShown ==
    client.due # None /\ client.fetch = None => client.shown.version >= client.due
=============================================================================
