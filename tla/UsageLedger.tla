----------------------------- MODULE UsageLedger -----------------------------
(***************************************************************************)
(* The SQLite usage ledger of src/src/store.rs: raw facts (usage_events),  *)
(* the additive daily and hourly rollups their triggers maintain, compact  *)
(* replay keys, and every transaction that rewrites one of them: ingestion *)
(* of a batch, rollup backfill and verification, compaction of expired raw *)
(* facts, reprojection after a catalog change, the merge of two accounts   *)
(* and the replay of the inferred login history.                           *)
(*                                                                         *)
(* A rollup row sums events that agree on period, thread, model, account,  *)
(* project and quality.  What the properties distinguish is under which    *)
(* rows an event is counted, and how often; so a rollup is a function from *)
(* each event to the sequence of row keys it is counted under, one entry   *)
(* per time it was added.  Two events that share a row are told apart,     *)
(* which additivity allows; EventsApart keeps a subtraction from reaching  *)
(* a row that exists only because of another event.                        *)
(***************************************************************************)
EXTENDS Naturals, Sequences

CONSTANTS
    Events,          \* 1..n: the facts, numbered by source position and rowid
    LegacyRows,      \* facts already stored when the rollups were introduced
    RolloutEvents,   \* facts of the rollout tailer; the rest are log samples
    Threads,
    ThreadOf,        \* ThreadOf[e]: the thread of fact e
    TimeOf,          \* TimeOf[e]: its effective time
    HourLength,      \* time units in a local hour
    DayLength,       \* time units in a local day
    RetentionStarts, \* bound: the starts the retention window moves through
    Accounts,
    Projects,
    NoAccount,
    NoProject,
    Timelines,       \* login histories infer_epochs may return
    ResetSources     \* the sources whose durable cursor may be lost

Sources == {"logs", "rollout"}

Hour(t) == t \div HourLength
Day(t)  == t \div DayLength

\* The first hour (day) that starts at or after t.
CeilHour(t) == (t + HourLength - 1) \div HourLength
CeilDay(t)  == (t + DayLength - 1) \div DayLength

Epoch == [from : Nat, to : Nat, acct : Accounts]

(***************************************************************************)
(* Epochs are ordered and disjoint: infer_epochs cuts time at the logouts. *)
(* An open epoch ends at the ten-year horizon, which no fact reaches.      *)
(***************************************************************************)
OrderedTimeline(tl) ==
    \A i, j \in DOMAIN tl : i < j => tl[i].to <= tl[j].from

ASSUME LedgerAssumption ==
    /\ Events \subseteq Nat \ {0}
    /\ LegacyRows \in Nat
    /\ 1 .. LegacyRows \subseteq Events
    /\ RolloutEvents \subseteq Events \ (1 .. LegacyRows)
    /\ ThreadOf \in [Events -> Threads]
    /\ TimeOf \in [Events -> Nat]
    /\ HourLength \in Nat \ {0}
    /\ DayLength \in Nat \ {0}
    /\ RetentionStarts \subseteq Nat
    /\ NoAccount \notin Accounts
    /\ NoProject \notin Projects
    /\ Timelines \subseteq Seq(Epoch)
    /\ \A tl \in Timelines : OrderedTimeline(tl)
    /\ ResetSources \subseteq Sources

\* Facts of one thread lie on different days, hence in different rollup rows.
ASSUME EventsApart ==
    \A e, f \in Events :
        e # f /\ ThreadOf[e] = ThreadOf[f] => Day(TimeOf[e]) # Day(TimeOf[f])

VARIABLES
    raw,         \* usage_events: raw[e] is its row, or Absent
    keys,        \* compacted_event_keys
    daily,       \* daily_usage_rollups: the row keys e is counted under
    hourly,      \* hourly_usage_rollups
    catalog,     \* thread_catalog.project_id
    native,      \* the project Codex's own directory names for a thread
    timeline,    \* the historical epochs of auth_epochs
    backfilled,  \* rollup_state.last_backfilled_rowid
    complete,    \* rollup_state.complete
    verified,    \* rollup_state.verified_at IS NOT NULL
    cursor,      \* file_cursors.byte_offset, per source
    retainSince  \* start of the raw retention window

vars == <<raw, keys, daily, hourly, catalog, native, timeline,
          backfilled, complete, verified, cursor, retainSince>>

Project == Projects \cup {NoProject}
Account == Accounts \cup {NoAccount}

RowKey == [acct : Account, proj : Project]

\* No attribution without an account: the confidence is "unknown" exactly then.
Attribution ==
    [acct : {NoAccount}, conf : {"unknown"}] \cup
    [acct : Accounts, conf : {"verified", "inferred"}]

RawRow == {r \in [acct : Account, conf : {"verified", "inferred", "unknown"},
                  proj : Project] :
              r.acct = NoAccount <=> r.conf = "unknown"}

Absent == [acct |-> NoAccount, conf |-> "absent", proj |-> NoProject]

IsRaw(e)   == raw[e] # Absent
KeyOf(r)   == [acct |-> r.acct, proj |-> r.proj]
Stored(e)  == IsRaw(e) \/ e \in keys
SourceOf(e) == IF e \in RolloutEvents THEN "rollout" ELSE "logs"

-----------------------------------------------------------------------------
(* The rollup triggers.                                                    *)

DropAt(rows, i) ==
    [j \in 1 .. Len(rows) - 1 |-> IF j < i THEN rows[j] ELSE rows[j + 1]]

\* UPDATE ... SET event_count = event_count - 1 touches no row if none matches.
RowsWithout(rows, key) ==
    IF \E i \in DOMAIN rows : rows[i] = key
    THEN DropAt(rows, CHOOSE i \in DOMAIN rows : rows[i] = key)
    ELSE rows

TriggerInsert(rows, key) == Append(rows, key)

\* Mutant: the update trigger adds the new row and never subtracts the old one.
TriggerAddsOnly(rows, old, new) == Append(rows, new)

TriggerUpdate(rows, old, new) == Append(RowsWithout(rows, old), new)

\* COALESCE(excluded.project_id, thread_catalog.project_id)
CatalogWith(cat, thread, proj) ==
    IF proj = NoProject THEN cat ELSE [cat EXCEPT ![thread] = proj]

\* What one upsert_event_in does to a rollup.
RowsAfterUpsert(rows, e, row) ==
    IF ~IsRaw(e) THEN TriggerInsert(rows, KeyOf(row))
    ELSE IF raw[e] = row THEN rows
    ELSE TriggerUpdate(rows, KeyOf(raw[e]), KeyOf(row))

UpsertEvent(e, row) ==
    /\ raw' = [raw EXCEPT ![e] = row]
    /\ daily' = [daily EXCEPT ![e] = RowsAfterUpsert(@, e, row)]
    /\ hourly' = [hourly EXCEPT ![e] = RowsAfterUpsert(@, e, row)]
    /\ catalog' = CatalogWith(catalog, ThreadOf[e], row.proj)

\* upsert_compact_event_in for a fact that is neither raw nor compacted.
InsertCompacted(e, row) ==
    /\ keys' = keys \cup {e}
    /\ daily' = [daily EXCEPT ![e] = Append(@, KeyOf(row))]
    /\ catalog' = CatalogWith(catalog, ThreadOf[e], row.proj)
    /\ UNCHANGED <<raw, hourly>>

-----------------------------------------------------------------------------
(* Ingestion.  A batch and its cursor commit together, so a crash leaves   *)
(* either both or neither; a longer batch is a run of these steps.         *)

Covers(epoch, t) == epoch.from <= t /\ t < epoch.to

Covered(tl, t) == \E i \in DOMAIN tl : Covers(tl[i], t)

EpochAt(tl, t) == tl[CHOOSE i \in DOMAIN tl : Covers(tl[i], t)]

\* Mutant: a fact no epoch covers is called inferred, with no account.
UncoveredAsInferred(t) ==
    [acct : Accounts, conf : {"verified"}] \cup
    {[acct |-> NoAccount, conf |-> "inferred"]}

\* account_epoch_at: a verified auth epoch, else a historical one, else none.
AttributionsAt(t) ==
    [acct : Accounts, conf : {"verified"}] \cup
    IF Covered(timeline, t)
    THEN {[acct |-> EpochAt(timeline, t).acct, conf |-> "inferred"]}
    ELSE {[acct |-> NoAccount, conf |-> "unknown"]}

\* A rollout carries the binding of the moment its file was first read.
RowsFor(e) ==
    {[acct |-> at.acct, conf |-> at.conf, proj |-> native[ThreadOf[e]]] :
        at \in IF e \in RolloutEvents THEN Attribution ELSE AttributionsAt(TimeOf[e])}

\* Sampling reads log ids past its cursor; ids it skips are never read again.
IngestSample(e) ==
    /\ SourceOf(e) = "logs"
    /\ e > cursor["logs"]
    /\ \E row \in RowsFor(e) : UpsertEvent(e, row)
    /\ cursor' = [cursor EXCEPT !["logs"] = e]
    /\ UNCHANGED <<keys, native, timeline, backfilled, complete, verified,
                   retainSince>>

\* Past retention the fact is only added up.  The hash of a replayed fact differs
\* from the compacted one (it holds the time of reading), so a fact with a key is
\* a CompactedEventConflict: the transaction fails, the cursor stays.
IngestRollout(e) ==
    /\ SourceOf(e) = "rollout"
    /\ e > cursor["rollout"]
    /\ \E row \in RowsFor(e) :
          IF TimeOf[e] >= retainSince \/ IsRaw(e)
          THEN UpsertEvent(e, row) /\ UNCHANGED keys
          ELSE e \notin keys /\ InsertCompacted(e, row)
    /\ cursor' = [cursor EXCEPT !["rollout"] = e]
    /\ UNCHANGED <<native, timeline, backfilled, complete, verified, retainSince>>

\* A cursor is removed, or filed under a machine id that is regenerated because
\* its file is gone: the source is read again from the start.
LoseCursor(source) ==
    /\ source \in ResetSources
    /\ cursor[source] > 0
    /\ cursor' = [cursor EXCEPT ![source] = 0]
    /\ UNCHANGED <<raw, keys, daily, hourly, catalog, native, timeline,
                   backfilled, complete, verified, retainSince>>

-----------------------------------------------------------------------------
(* Rollup maintenance.                                                     *)

BackfillRollupChunk ==
    /\ ~complete
    /\ \E end \in backfilled + 1 .. LegacyRows :
          /\ daily' = [e \in Events |->
                          IF e \in backfilled + 1 .. end /\ IsRaw(e)
                          THEN Append(daily[e], KeyOf(raw[e]))
                          ELSE daily[e]]
          /\ backfilled' = end
          /\ complete' = (end >= LegacyRows)
    /\ UNCHANGED <<raw, keys, hourly, catalog, native, timeline, verified,
                   cursor, retainSince>>

\* Raw and rollup totals agree, in the event count and every token dimension.
\* Backfill has counted every raw fact at least once by then, so totals agree
\* only if every fact does.
TotalsAgree ==
    \A e \in Events : Len(daily[e]) = IF IsRaw(e) THEN 1 ELSE 0

\* Mutant: a completed backfill is taken for a verified one.
VerifyWithoutTotals ==
    /\ complete
    /\ ~verified
    /\ verified' = TRUE
    /\ UNCHANGED <<raw, keys, daily, hourly, catalog, native, timeline,
                   backfilled, complete, cursor, retainSince>>

VerifyRollup ==
    /\ complete
    /\ ~verified
    /\ TotalsAgree
    /\ verified' = TRUE
    /\ UNCHANGED <<raw, keys, daily, hourly, catalog, native, timeline,
                   backfilled, complete, cursor, retainSince>>

Expired == {e \in Events : IsRaw(e) /\ TimeOf[e] < retainSince}

Before(e, f) == TimeOf[e] < TimeOf[f] \/ (TimeOf[e] = TimeOf[f] /\ e < f)

\* Mutant: compaction does not wait for verification.
CompactUnverified ==
    /\ complete
    /\ Expired # {}
    /\ keys' = keys \cup Expired
    /\ raw' = [e \in Events |-> IF e \in Expired THEN Absent ELSE raw[e]]
    /\ UNCHANGED <<daily, hourly, catalog, native, timeline, backfilled,
                   complete, verified, cursor, retainSince>>

\* The oldest expired facts, up to a limit; deletion is hidden from the triggers.
CompactRawEventsChunk ==
    /\ complete
    /\ verified
    /\ \E chunk \in SUBSET Expired :
          /\ chunk # {}
          /\ \A e \in chunk, f \in Expired \ chunk : Before(e, f)
          /\ keys' = keys \cup chunk
          /\ raw' = [e \in Events |-> IF e \in chunk THEN Absent ELSE raw[e]]
    /\ UNCHANGED <<daily, hourly, catalog, native, timeline, backfilled,
                   complete, verified, cursor, retainSince>>

AdvanceRetention ==
    /\ \E start \in RetentionStarts :
          /\ start > retainSince
          /\ retainSince' = start
    /\ UNCHANGED <<raw, keys, daily, hourly, catalog, native, timeline,
                   backfilled, complete, verified, cursor>>

-----------------------------------------------------------------------------
(* Projects: the native directory, its mirror and the reprojection.        *)

AssignNativeProject(t, p) ==
    /\ native[t] # p
    /\ native' = [native EXCEPT ![t] = p]
    /\ UNCHANGED <<raw, keys, daily, hourly, catalog, timeline, backfilled,
                   complete, verified, cursor, retainSince>>

SyncNativeCatalog ==
    /\ catalog' = [t \in Threads |->
                      IF native[t] = NoProject THEN catalog[t] ELSE native[t]]
    /\ catalog' # catalog
    /\ UNCHANGED <<raw, keys, daily, hourly, native, timeline, backfilled,
                   complete, verified, cursor, retainSince>>

\* COALESCE(catalog.project_id, NULLIF(project_key, ''), '')
Reproject(e, key) ==
    LET p == catalog[ThreadOf[e]]
    IN  IF p = NoProject THEN key ELSE [key EXCEPT !.proj = p]

ReprojectRow(e, row) ==
    LET p == catalog[ThreadOf[e]]
    IN  IF row = Absent \/ p = NoProject THEN row ELSE [row EXCEPT !.proj = p]

\* The triggers run first, for the raw rows whose project really differs; then
\* every rollup row is rewritten.
ReprojectedRows(e, rows) ==
    LET row == ReprojectRow(e, raw[e])
        moved == IF row = raw[e] THEN rows
                 ELSE TriggerUpdate(rows, KeyOf(raw[e]), KeyOf(row))
    IN  [i \in DOMAIN moved |-> Reproject(e, moved[i])]

\* before = rebuilt, the check that turns into RollupMismatch otherwise.
ReprojectionConserves ==
    \A e \in Events : Len(ReprojectedRows(e, daily[e])) = Len(daily[e])

ReprojectUsageFromCatalog ==
    /\ ReprojectionConserves
    /\ raw' = [e \in Events |-> ReprojectRow(e, raw[e])]
    /\ daily' = [e \in Events |-> ReprojectedRows(e, daily[e])]
    /\ hourly' = [e \in Events |-> ReprojectedRows(e, hourly[e])]
    /\ UNCHANGED <<keys, catalog, native, timeline, backfilled, complete,
                   verified, cursor, retainSince>>

-----------------------------------------------------------------------------
(* Accounts.                                                               *)

\* The catalog upserts of a run of rewritten facts, in any order: a thread ends
\* with the project of one of its rewritten facts that has one.
CatalogsAfter(rewritten) ==
    {c \in [Threads -> Project] :
        \A t \in Threads :
            LET named == {raw[e].proj : e \in {f \in rewritten : ThreadOf[f] = t}}
                         \ {NoProject}
            IN  IF named = {} THEN c[t] = catalog[t] ELSE c[t] \in named}

\* Rows are rewritten one upsert at a time, then the remaining ones wholesale.
RewrittenRows(e, rows, new) ==
    IF new = raw[e] THEN rows ELSE TriggerUpdate(rows, KeyOf(raw[e]), KeyOf(new))

MoveAccount(key, from, to) ==
    IF key.acct = from THEN [key EXCEPT !.acct = to] ELSE key

\* Mutant: a merge leaves the rows of compacted facts behind.
MovedRawOnly(rows, from, to) == rows

MovedRows(rows, from, to) ==
    [i \in DOMAIN rows |-> MoveAccount(rows[i], from, to)]

RemapRow(row, from, to) ==
    IF row.acct = from THEN [row EXCEPT !.acct = to] ELSE row

RemapAccountFingerprint(from, to) ==
    /\ from # to
    /\ raw' = [e \in Events |-> RemapRow(raw[e], from, to)]
    /\ daily' = [e \in Events |->
          MovedRows(RewrittenRows(e, daily[e], RemapRow(raw[e], from, to)), from, to)]
    /\ hourly' = [e \in Events |->
          MovedRows(RewrittenRows(e, hourly[e], RemapRow(raw[e], from, to)), from, to)]
    /\ catalog' \in CatalogsAfter({e \in Events : raw[e].acct = from})
    /\ timeline' = [i \in DOMAIN timeline |->
          IF timeline[i].acct = from THEN [timeline[i] EXCEPT !.acct = to]
          ELSE timeline[i]]
    /\ UNCHANGED <<keys, native, backfilled, complete, verified, cursor,
                   retainSince>>

\* Raw facts without an account take the one whose epoch covers them exactly.
HistoryRow(tl, e) ==
    IF IsRaw(e) /\ raw[e].acct = NoAccount /\ Covered(tl, TimeOf[e])
    THEN [raw[e] EXCEPT !.acct = EpochAt(tl, TimeOf[e]).acct, !.conf = "inferred"]
    ELSE raw[e]

\* Mutant: the hour in which an epoch starts is claimed whole.
HoursFromFloor(tl, i) == {h \in Nat : Hour(tl[i].from) <= h /\ h < Hour(tl[i].to)}

\* The unassigned rollup rows a timeline claims: whole hours, and whole days
\* except that the first epoch's day is taken from its start.
HoursOf(tl, i) == {h \in Nat : CeilHour(tl[i].from) <= h /\ h < Hour(tl[i].to)}

\* Mutant: every epoch claims the day in which it starts.
FirstDayFloored(tl, i) == Day(tl[i].from)

FirstDay(tl, i) == IF i = 1 THEN Day(tl[i].from) ELSE CeilDay(tl[i].from)

DaysOf(tl, i) == {d \in Nat : FirstDay(tl, i) <= d /\ d < Day(tl[i].to)}

ClaimRow(key, tl, claims) ==
    IF key.acct = NoAccount /\ \E i \in DOMAIN tl : claims[i]
    THEN [key EXCEPT !.acct = tl[CHOOSE i \in DOMAIN tl : claims[i]].acct]
    ELSE key

ClaimedRows(rows, tl, claims) ==
    [i \in DOMAIN rows |-> ClaimRow(rows[i], tl, claims)]

DayClaims(tl, e)  == [i \in DOMAIN tl |-> Day(TimeOf[e]) \in DaysOf(tl, i)]
HourClaims(tl, e) == [i \in DOMAIN tl |-> Hour(TimeOf[e]) \in HoursOf(tl, i)]

ReplaceHistoricalAuthEpochs(tl) ==
    /\ timeline' = tl
    /\ raw' = [e \in Events |-> HistoryRow(tl, e)]
    /\ daily' = [e \in Events |->
          ClaimedRows(RewrittenRows(e, daily[e], HistoryRow(tl, e)),
                      tl, DayClaims(tl, e))]
    /\ hourly' = [e \in Events |->
          ClaimedRows(RewrittenRows(e, hourly[e], HistoryRow(tl, e)),
                      tl, HourClaims(tl, e))]
    /\ catalog' \in CatalogsAfter({e \in Events : HistoryRow(tl, e) # raw[e]})
    /\ UNCHANGED <<keys, native, backfilled, complete, verified, cursor,
                   retainSince>>

-----------------------------------------------------------------------------
LegacyRow == {[acct |-> at.acct, conf |-> at.conf, proj |-> NoProject] :
                 at \in Attribution}

\* A ledger that is empty, or one upgraded with raw facts and no rollups yet.
Init ==
    /\ raw \in [Events -> LegacyRow \cup {Absent}]
    /\ \A e \in Events : IsRaw(e) <=> e \in 1 .. LegacyRows
    /\ keys = {}
    /\ daily = [e \in Events |-> <<>>]
    /\ hourly = [e \in Events |-> IF IsRaw(e) THEN <<KeyOf(raw[e])>> ELSE <<>>]
    /\ catalog = [t \in Threads |-> NoProject]
    /\ native = [t \in Threads |-> NoProject]
    /\ timeline = <<>>
    /\ backfilled = 0
    /\ complete = (LegacyRows = 0)
    /\ verified = FALSE
    /\ cursor = [logs |-> LegacyRows, rollout |-> 0]
    /\ retainSince = 0

Next ==
    \/ \E e \in Events : IngestSample(e) \/ IngestRollout(e)
    \/ \E source \in Sources : LoseCursor(source)
    \/ BackfillRollupChunk
    \/ VerifyRollup
    \/ CompactRawEventsChunk
    \/ AdvanceRetention
    \/ \E t \in Threads, p \in Projects : AssignNativeProject(t, p)
    \/ SyncNativeCatalog
    \/ ReprojectUsageFromCatalog
    \/ \E from, to \in Accounts : RemapAccountFingerprint(from, to)
    \/ \E tl \in Timelines : ReplaceHistoricalAuthEpochs(tl)

Spec == Init /\ [][Next]_vars
-----------------------------------------------------------------------------
(* What the ledger promises.                                               *)

\* Every row is well formed: an event has confidence "unknown" exactly when it
\* has no account, and every rollup key is an account and a project.
TypeOK ==
    /\ raw \in [Events -> RawRow \cup {Absent}]
    /\ keys \in SUBSET Events
    /\ daily \in [Events -> Seq(RowKey)]
    /\ hourly \in [Events -> Seq(RowKey)]
    /\ catalog \in [Threads -> Project]
    /\ native \in [Threads -> Project]
    /\ timeline \in Seq(Epoch)
    /\ backfilled \in Nat
    /\ complete \in BOOLEAN
    /\ verified \in BOOLEAN
    /\ cursor \in [Sources -> Nat]
    /\ retainSince \in Nat

\* Once the rollup is verified, each fact the ledger knows, raw or compacted, is
\* added up in exactly one daily row and once: no ingestion, replay, compaction,
\* reprojection, merge or history makes the totals gain or lose it.
CountedOnce ==
    verified => \A e \in Events : Len(daily[e]) = IF Stored(e) THEN 1 ELSE 0

\* The row that holds a raw fact is the one its own columns name, so the next
\* trigger finds it to subtract from.  (Reprojection reports RollupMismatch, and
\* the collector stops, as soon as one does not.)
RawRowsFound ==
    verified => \A e \in Events : IsRaw(e) => daily[e] = <<KeyOf(raw[e])>>

\* Raw detail is given up only for a fact that is counted exactly once, and its
\* replay key takes its place in the same transaction.
CompactionLosesNothing ==
    [][\A e \in Events :
          IsRaw(e) /\ raw'[e] = Absent =>
              /\ e \in keys'
              /\ Len(daily[e]) = 1
              /\ daily'[e] = daily[e]]_vars

\* A fact keeps being counted as often as it is, whatever later happens to its
\* project and its account (docs/contracts/accounting.md: a history replay must
\* leave the sum of all buckets unchanged).
TotalsUnchanged ==
    [][verified => \A e \in Events : Stored(e) => Len(daily'[e]) = Len(daily[e])]_vars

\* Unless its source is read again, an account that the rollups hold gives way to
\* another only in a merge, and a merge leaves no fact, row or epoch under the
\* account it absorbs.
AccountsMergeWhole ==
    [][\A e \in Events : \A i \in DOMAIN daily[e] :
          LET from == daily[e][i].acct
          IN  /\ verified /\ Stored(e) /\ from # NoAccount /\ cursor' = cursor
              /\ i \in DOMAIN daily'[e] /\ daily'[e][i].acct # from
              => /\ \A f \in Events : raw'[f].acct # from
                 /\ \A f \in Events : \A j \in DOMAIN daily'[f] : daily'[f][j].acct # from
                 /\ \A j \in DOMAIN timeline' : timeline'[j].acct # from]_vars

\* Row i of a rollup is taken from "unknown" by history.
HandedOver(before, after, i) ==
    /\ i \in DOMAIN after
    /\ before[i].acct = NoAccount
    /\ after[i].acct # NoAccount

LoggedIn(tl, acct, t) == \E j \in DOMAIN tl : Covers(tl[j], t) /\ tl[j].acct = acct

\* History hands an unassigned daily or hourly row to an account only if that
\* account was logged in when the fact happened: the periods a switch cuts stay
\* unknown.
BoundaryStaysUnknown ==
    [][verified /\ cursor' = cursor =>
          \A e \in {f \in Events : Stored(f)} :
             /\ \A i \in DOMAIN daily[e] : HandedOver(daily[e], daily'[e], i) =>
                   LoggedIn(timeline', daily'[e][i].acct, TimeOf[e])
             /\ \A i \in DOMAIN hourly[e] : HandedOver(hourly[e], hourly'[e], i) =>
                   LoggedIn(timeline', hourly'[e][i].acct, TimeOf[e])]_vars
=============================================================================
