---------------------------- MODULE Reconciliation ----------------------------
(***************************************************************************)
(* The official account totals beside the local ones: the stored profile   *)
(* snapshots and daily buckets, the registry of accounts, the account      *)
(* total with its local complement, the reconciled days, and the estimate  *)
(* of what accounts not yet captured have used.                            *)
(*                                                                         *)
(* An absent account filter is Unfiltered, as in a query.                  *)
(***************************************************************************)
EXTENDS Queries

CONSTANTS
    Verified,     \* accounts of a verified auth epoch
    Aliases,      \* account_workspace_aliases: whether an account is canonical
    NoValue       \* a number the backend or the code leaves out

Days == 0 .. Day(MaxTime)

\* An answer of account/usage/read
IsOfficialUsage(usage) ==
    /\ usage.lifetime \in Nat \cup {NoValue}
    /\ DOMAIN usage.days \subseteq Days /\ \A d \in DOMAIN usage.days : usage.days[d] \in Nat

ASSUME ReconciliationAssumption ==
    /\ IsFiniteSet(Accounts) /\ Verified \subseteq Accounts
    /\ \E A \in SUBSET Accounts : Aliases \in [A -> BOOLEAN]
    /\ NoValue \notin Int
    /\ Projects \cup {StandaloneProject, UnassignedProject} \subseteq Nat \* in the order of their ids

VARIABLES
    snapshot, \* official_account_usage_snapshots: the latest of every account
    buckets,  \* official_daily_usage
    confirmedCount \* user_confirmed_total, 0 when it is not set

-----------------------------------------------------------------------------
(* Writing what the backend says.                                          *)

BucketsOf(a) == IF a \in DOMAIN buckets THEN buckets[a] ELSE [d \in {} |-> 0]

\* upsert_official_account_usage: days are revised and never removed.
UpsertOfficialAccountUsage(a, usage, observed) ==
    /\ snapshot' = Updated(snapshot, [x \in {a} |-> [lifetime |-> usage.lifetime, observed |-> observed]])
    /\ buckets' = Updated(buckets, [x \in {a} |-> Updated(BucketsOf(a), usage.days)])
    /\ UNCHANGED confirmedCount

SetUserConfirmedAccountCount(n) ==
    /\ n \in 0 .. 64
    /\ confirmedCount' = n
    /\ UNCHANGED <<snapshot, buckets>>

official == <<snapshot, buckets, confirmedCount>>

-----------------------------------------------------------------------------
(* AccountRegistry.                                                        *)

OfficialAccounts == DOMAIN snapshot

Canonical == OfficialAccounts \cup Verified \cup {a \in DOMAIN Aliases : Aliases[a]}

Provisional ==
    ({a \in DOMAIN Aliases : ~Aliases[a]} \cup ({f.acct : f \in sampled} \ {NoAccount})) \ Canonical

Observed        == Canonical \cup Provisional
ExpectedCount   == Max({confirmedCount, Cardinality(Observed)})
UnobservedCount == ExpectedCount - Cardinality(Observed)

-----------------------------------------------------------------------------
(* Coverage.                                                               *)

\* official_day_bounds: the last day is the one that holds the end.
OfficialDayBounds(from, to) ==
    [from |-> IF from = NoTime THEN NoTime ELSE Day(from),
     to   |-> IF to = NoTime THEN NoTime ELSE IF to % DayLength = 0 THEN Day(to) ELSE Day(to) + 1]

InBounds(d, b) == TimeOr(b.from, 0) <= d /\ (b.to = NoTime \/ d < b.to)

BucketOn(a, d) == IF d \in DOMAIN BucketsOf(a) THEN BucketsOf(a)[d] ELSE 0

OfficialDailyUsage(a, b) == Restrict(BucketsOf(a), {d \in DOMAIN BucketsOf(a) : InBounds(d, b)})

Asked(acct)      == IF acct = Unfiltered THEN OfficialAccounts ELSE {acct}
\* Mutant: all accounts are those that have a profile.
AskedOnly(acct) == Asked(acct)

InScope(acct)    == IF acct = Unfiltered THEN Observed ELSE {acct}
Expected(acct)   == IF acct = Unfiltered THEN ExpectedCount ELSE 1
Successful(acct) == Asked(acct) \cap OfficialAccounts

Covered(acct)      == {a \in Asked(acct) : DOMAIN BucketsOf(a) # {}}
CoverageStart(a)   == Min(DOMAIN BucketsOf(a))
CoverageThrough(a) == Max(DOMAIN BucketsOf(a))

LatestThrough(acct) ==
    IF Covered(acct) = {} THEN NoTime ELSE Max({CoverageThrough(a) : a \in Covered(acct)})

AllCovered(acct) == Expected(acct) > 0 /\ Cardinality(Covered(acct)) = Expected(acct)
CommonStart(acct) ==
    IF AllCovered(acct) THEN Max({CoverageStart(a) : a \in Covered(acct)}) ELSE NoTime
CommonThrough(acct) ==
    IF AllCovered(acct) THEN Min({CoverageThrough(a) : a \in Covered(acct)}) ELSE NoTime

\* Mutant: the newest day may still be missing.
CoversToYesterday(acct, b) ==
    /\ AllCovered(acct)
    /\ b.from = NoTime \/ CommonStart(acct) <= b.from
    /\ b.to = NoTime \/ CommonThrough(acct) + 2 >= b.to

CoversRequest(acct, b) ==
    /\ AllCovered(acct)
    /\ b.from = NoTime \/ CommonStart(acct) <= b.from
    /\ b.to = NoTime \/ CommonThrough(acct) + 1 >= b.to

-----------------------------------------------------------------------------
(* The account total.                                                      *)

LifetimeAvailable(acct) ==
    /\ Asked(acct) # {}
    /\ \A a \in Asked(acct) : a \in OfficialAccounts /\ snapshot[a].lifetime # NoValue

LifetimeTotal(acct) == SumFunction([a \in Successful(acct) |-> snapshot[a].lifetime])

BucketTotal(acct, b) ==
    SumFunction([a \in Successful(acct) |-> SumFunction(OfficialDailyUsage(a, b))])

Bounds(p) == OfficialDayBounds(p.start, p.end)

SelectedHasCoverage(acct, p) ==
    \/ p.label = "lifetime"
    \/ LatestThrough(acct) # NoTime /\ Bounds(p).from < LatestThrough(acct) + 1

SelectedTotal(acct, p) ==
    IF Successful(acct) = {} \/ ~SelectedHasCoverage(acct, p) THEN NoValue
    ELSE IF p.label = "lifetime" /\ LifetimeAvailable(acct) THEN LifetimeTotal(acct)
    ELSE BucketTotal(acct, Bounds(p))

\* The confirmed usage of an account from the later of the period's start
\* and the end of the account's own coverage.
LocalUsageAfterCoverage(a, p) ==
    LET end   == IF DOMAIN BucketsOf(a) = {} THEN NoTime ELSE (CoverageThrough(a) + 1) * DayLength
        start == IF p.start = NoTime \/ end = NoTime THEN (IF end = NoTime THEN p.start ELSE end)
                 ELSE Max({p.start, end})
    IN  Tokens(AggregateRollupUsage(FilterOf([acct |-> a, proj |-> Unfiltered], "confirmed",
                                             start, p.end)))

LocalTail(acct, p) ==
    SumFunction([a \in InScope(acct) \cap Covered(acct) |-> LocalUsageAfterCoverage(a, p)])

MissingAccountLocal(acct, p) ==
    SumFunction([a \in InScope(acct) \ Covered(acct) |-> LocalUsageAfterCoverage(a, p)])

LocalComplement(acct, p) == LocalTail(acct, p) + MissingAccountLocal(acct, p)

DisplayTotal(acct, p) ==
    LocalComplement(acct, p)
    + (IF SelectedTotal(acct, p) = NoValue THEN 0 ELSE SelectedTotal(acct, p))

CoverageComplete(acct, p) ==
    IF p.label = "lifetime"
    THEN LifetimeAvailable(acct) /\ Cardinality(Successful(acct)) = Expected(acct)
    ELSE CoversRequest(acct, Bounds(p))

AccountCoverageComplete(acct) ==
    Expected(acct) > 0 /\ Cardinality(Successful(acct)) = Expected(acct)

IdentityScopeComplete(acct) == acct # Unfiltered \/ (Provisional = {} /\ UnobservedCount = 0)

DisplayTotalKind(acct, p) ==
    IF SelectedTotal(acct, p) = NoValue THEN "local_lower_bound"
    ELSE IF LocalComplement(acct, p) > 0 \/ ~AccountCoverageComplete(acct)
            \/ ~IdentityScopeComplete(acct) THEN "official_plus_local_tail_lower_bound"
    ELSE "official"

DisplayIsLowerBound(acct, p) ==
    DisplayTotalKind(acct, p) # "official" \/ ~CoverageComplete(acct, p)

\* resolved_account_total_metric; the local part makes a value of the display total always.
MetricStatus(acct, p) ==
    IF DisplayIsLowerBound(acct, p) \/ ~CoverageComplete(acct, p) \/ ~AccountCoverageComplete(acct)
    THEN "lower_bound" ELSE "exact"

\* http_summary: only then is the gap to the local total shown.
ReconciliationComparable(acct, p) ==
    CoverageComplete(acct, p) /\ LocalCoverageComplete(p)
    /\ AccountCoverageComplete(acct) /\ IdentityScopeComplete(acct)

\* fill_covered_zeros: a day all accounts cover is a point even without usage.
OfficialPoints(acct, b) ==
    LET zeros == {d \in Days : AllCovered(acct) /\ b.to # NoTime /\ InBounds(d, b)
                               /\ d \in CommonStart(acct) .. CommonThrough(acct)}
        used  == UNION {DOMAIN OfficialDailyUsage(a, b) : a \in Successful(acct)}
    IN  [d \in zeros \cup used |-> SumFunction([a \in Successful(acct) |-> BucketOn(a, d)])]

-----------------------------------------------------------------------------
(* reconcile_account_days.                                                 *)

LocalByDay(a, d) ==
    Tokens(OfThreads({f \in DailyTable("confirmed") : f.acct = a /\ Day(f.time) = d}, Threads))

CoversDay(a, d) == DOMAIN BucketsOf(a) # {} /\ CoverageStart(a) <= d /\ d <= CoverageThrough(a)
AfterCoverage(a, d) == DOMAIN BucketsOf(a) # {} /\ d > CoverageThrough(a)

DayStatus(acct, d) ==
    LET scope == InScope(acct)
    IN  IF Cardinality({a \in scope \cap Covered(acct) : CoversDay(a, d)}) = Expected(acct)
        THEN "exact_official"
        ELSE IF scope \ Covered(acct) # {} THEN "local_only_account"
        ELSE IF Expected(acct) > Cardinality(scope)
                \/ \E a \in scope : ~CoversDay(a, d) /\ ~AfterCoverage(a, d) THEN "unknown"
        ELSE IF \E a \in scope : AfterCoverage(a, d) THEN "local_tail"
        ELSE "unknown"

\* Mutant: a covered day shows the larger of the two totals.
LargerOfBoth(acct, d) ==
    SumFunction([a \in InScope(acct) |->
        IF CoversDay(a, d) THEN Max({BucketOn(a, d), LocalByDay(a, d)}) ELSE LocalByDay(a, d)])

DayValue(acct, d) ==
    SumFunction([a \in InScope(acct) |->
        IF CoversDay(a, d) THEN BucketOn(a, d) ELSE LocalByDay(a, d)])

\* The first day asked for or else known, and the day after the last one.
ReconciledDays(acct, b, today) ==
    LET known == {CoverageStart(a) : a \in Covered(acct)}
                 \cup (IF sampled = {} THEN {} ELSE {EarliestRollupDay})
        first == IF b.from # NoTime THEN b.from ELSE IF known = {} THEN today + 1 ELSE Min(known)
    IN  IF InScope(acct) = {} THEN {} ELSE first .. TimeOr(b.to, today + 1) - 1

ReconcileAccountDays(acct, b, today) ==
    [d \in ReconciledDays(acct, b, today) |->
        [value |-> DayValue(acct, d), status |-> DayStatus(acct, d)]]

StatusRank == [exact_official |-> 0, local_tail |-> 1, unknown |-> 2, local_only_account |-> 3]

\* A week is as uncertain as the most uncertain of its days.
AggregateReconciledAccountDays(points, grain) ==
    [k \in {AggregateDateKey(d, grain) : d \in DOMAIN points} |->
        LET of == {d \in DOMAIN points : AggregateDateKey(d, grain) = k}
        IN  [value  |-> SumFunction([d \in of |-> points[d].value]),
             status |-> CHOOSE s \in {points[d].status : d \in of} :
                            \A d \in of : StatusRank[points[d].status] <= StatusRank[s]]]

-----------------------------------------------------------------------------
(* missing_account_estimate.                                               *)

\* Components in the order of the rows' projects, and of the parts within a row
Precedes(i, j) == i[1] < j[1] \/ (i[1] = j[1] /\ i[2] < j[2])

\* Mutant: the tokens left over go to the first weights.
FirstRemainderAllocate(weights, target) ==
    LET whole == SumFunction(weights)
        base  == [i \in DOMAIN weights |-> (weights[i] * target) \div whole]
        extra == target - SumFunction(base)
        rank(i) == Cardinality({j \in DOMAIN weights : Precedes(j, i)})
    IN  IF whole = 0 THEN weights
        ELSE [i \in DOMAIN weights |-> base[i] + IF rank(i) < extra THEN 1 ELSE 0]

\* The whole shares, and one more for the largest remainders, the first of equals first.
LargestRemainderAllocate(weights, target) ==
    LET whole == SumFunction(weights)
        base  == [i \in DOMAIN weights |-> (weights[i] * target) \div whole]
        rem   == [i \in DOMAIN weights |-> (weights[i] * target) % whole]
        extra == target - SumFunction(base)
        rank(i) == Cardinality({j \in DOMAIN weights :
                       rem[j] > rem[i] \/ (rem[j] = rem[i] /\ Precedes(j, i))})
    IN  IF whole = 0 THEN weights
        ELSE [i \in DOMAIN weights |-> base[i] + IF rank(i) < extra THEN 1 ELSE 0]

\* residual_usage_rows: the log samples only, by project as the catalog has it now.
LiveProjectKey(f) ==
    IF f.thread \in StandaloneMembership(catalog) THEN StandaloneProject
    ELSE IF f.proj = NoProject THEN UnassignedProject
    ELSE f.proj

ResidualFacts(a, d) ==
    {f \in Confirmed(sampled) : f.acct = a /\ Day(f.time) = d}

\* The rows of an account and day: the parts of the usage of every project
ResidualUsageRows(a, d) ==
    LET facts == ResidualFacts(a, d)
    IN  [x \in {LiveProjectKey(f) : f \in facts} |-> [q \in Parts |->
            SumFunction([f \in {g \in facts : LiveProjectKey(g) = x} |-> f.usage[q]])]]

AllocateResidualComponents(rows, residual) ==
    LET weights == [i \in (DOMAIN rows) \X Parts |-> rows[i[1]][i[2]]]
        shares  == LargestRemainderAllocate(weights, Min({residual, SumFunction(weights)}))
    IN  [x \in DOMAIN rows |-> [q \in Parts |-> shares[<<x, q>>]]]

\* The account days that have both a bucket and local rows
AlignedDays(b) ==
    {k \in OfficialAccounts \X Days :
        InBounds(k[2], b) /\ k[2] \in DOMAIN BucketsOf(k[1]) /\ ResidualFacts(k[1], k[2]) # {}}

LocalOn(k)    == Tokens(ResidualFacts(k[1], k[2]))
OfficialOn(k) == BucketsOf(k[1])[k[2]]
ResidualOn(k) == IF LocalOn(k) > OfficialOn(k) THEN LocalOn(k) - OfficialOn(k) ELSE 0

EstimateApplicable(acct) == acct = Unfiltered /\ UnobservedCount > 0 /\ OfficialAccounts # {}

MissingAccountEstimate(b) ==
    LET rows(k) == AllocateResidualComponents(ResidualUsageRows(k[1], k[2]), ResidualOn(k))
        Slice(Of(_, _)) ==
            SumFunction([k \in AlignedDays(b) |-> SumFunction([x \in DOMAIN rows(k) |->
                IF Of(k, x) THEN TotalOf(rows(k)[x]) ELSE 0])])
    IN  [raw    |-> SumFunction([k \in AlignedDays(b) |-> ResidualOn(k)]),
         local  |-> SumFunction([k \in AlignedDays(b) |-> LocalOn(k)]),
         capped |-> SumFunction([k \in AlignedDays(b) |-> Min({LocalOn(k), OfficialOn(k)})]),
         total  |-> Slice(LAMBDA k, x : TRUE),
         byDay  |-> [d \in {k[2] : k \in AlignedDays(b)} |-> Slice(LAMBDA k, x : k[2] = d)],
         byProject |-> [proj \in UNION {DOMAIN rows(k) : k \in AlignedDays(b)} |-> Slice(LAMBDA k, x : x = proj)]]

-----------------------------------------------------------------------------
(* project_attribution_coverage.                                           *)

AttributionCoverage(acct, p) ==
    LET query    == [acct |-> acct, proj |-> Unfiltered]
        filter   == PeriodFilter(query, "confirmed", p)
        projects == AggregateSelectedPeriodBy("project", filter, p)
        Of(S)    == SumFunctionOnSet(projects, S \cap DOMAIN projects)
        evidence == DOMAIN AggregateRollupBy("day", [filter EXCEPT !.quality = Unfiltered])
        Official(S) == SumFunction([a \in Asked(acct) |->
                           SumFunctionOnSet(OfficialDailyUsage(a, Bounds(p)),
                                            S \cap DOMAIN OfficialDailyUsage(a, Bounds(p)))])
        before   == {d \in Days : \A e \in evidence : d < e}
    IN  [local      |-> AggregateSelectedPeriod(filter, p),
         standalone |-> Of({StandaloneProject}),
         unassigned |-> Of({UnassignedProject}),
         named      |-> Of(Projects),
         before     |-> Official(before),
         without    |-> Official(Days \ (evidence \cup before)),
         onEvidence |-> Official(evidence)]
=============================================================================
