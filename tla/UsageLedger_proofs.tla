------------------------- MODULE UsageLedger_proofs -------------------------
(***************************************************************************)
(* The ledger adds every fact up exactly once, for any number of facts,    *)
(* threads, accounts, projects and histories, provided that                *)
(*   - the log cursor is never lost (UsageLedgerReplay.cfg shows what      *)
(*     happens when it is), and                                            *)
(*   - no fact precedes a history on the day it starts                     *)
(*     (UsageLedgerLateStart.cfg shows what happens when one does).        *)
(***************************************************************************)
EXTENDS UsageLedger, SequenceTheorems, TLAPS

LogsKept == "logs" \notin ResetSources

HistoriesStartFirst ==
    \A tl \in Timelines, e \in Events :
        1 \in DOMAIN tl /\ Day(TimeOf[e]) = Day(tl[1].from) =>
            tl[1].from <= TimeOf[e]

-----------------------------------------------------------------------------
(* Rows of one event.                                                      *)

Has(rows, key) == \E i \in DOMAIN rows : rows[i] = key

\* Deleting an entry of a rollup leaves a shorter rollup.
LEMMA DropAtType ==
    ASSUME NEW S, NEW rows \in Seq(S), NEW i \in DOMAIN rows
    PROVE  DropAt(rows, i) \in Seq(S)
  <1>1. Len(rows) \in Nat /\ i \in 1 .. Len(rows)
    BY LenProperties
  <1>2. \A j \in 1 .. Len(rows) - 1 : j \in 1 .. Len(rows) /\ j + 1 \in 1 .. Len(rows)
    BY <1>1
  <1>3. \A j \in 1 .. Len(rows) : rows[j] \in S
    BY ElementOfSeq
  <1>4. Len(rows) - 1 \in Nat
    BY <1>1
  <1> QED
    BY <1>2, <1>3, <1>4, IsASeq DEF DropAt

\* Subtracting a row, found or not, leaves a rollup.
LEMMA RowsWithoutType ==
    ASSUME NEW rows \in Seq(RowKey), NEW key
    PROVE  RowsWithout(rows, key) \in Seq(RowKey)
  BY DropAtType DEF RowsWithout

\* The update trigger turns rollups into rollups.
LEMMA TriggerUpdateType ==
    ASSUME NEW rows \in Seq(RowKey), NEW old, NEW new \in RowKey
    PROVE  TriggerUpdate(rows, old, new) \in Seq(RowKey)
  BY RowsWithoutType, AppendProperties DEF TriggerUpdate

\* The update trigger leaves the new row in the rollup.
LEMMA TriggerUpdateHas ==
    ASSUME NEW rows \in Seq(RowKey), NEW old, NEW new \in RowKey
    PROVE  Has(TriggerUpdate(rows, old, new), new)
  <1> DEFINE kept == RowsWithout(rows, old)
  <1>1. kept \in Seq(RowKey)
    BY RowsWithoutType
  <1>2. Append(kept, new)[Len(kept) + 1] = new /\ Len(kept) + 1 \in DOMAIN Append(kept, new)
    BY <1>1, AppendProperties, LenProperties
  <1> QED
    BY <1>2 DEF Has, TriggerUpdate

\* Subtracting the row an event is counted under, then adding the new one,
\* leaves it counted once.
LEMMA TriggerUpdateSingle ==
    ASSUME NEW old \in RowKey, NEW new \in RowKey
    PROVE  TriggerUpdate(<<old>>, old, new) = <<new>>
  <1>1. RowsWithout(<<old>>, old) = << >>
    <2>1. \E i \in DOMAIN <<old>> : <<old>>[i] = old
      OBVIOUS
    <2>2. (CHOOSE i \in DOMAIN <<old>> : <<old>>[i] = old) = 1
      OBVIOUS
    <2>3. DropAt(<<old>>, 1) = << >>
      BY DEF DropAt
    <2> QED
      BY <2>1, <2>2, <2>3 DEF RowsWithout
  <1> QED
    BY <1>1 DEF TriggerUpdate

\* A fact counted once is counted under the key it has.
LEMMA SingleRow ==
    ASSUME NEW rows \in Seq(RowKey), NEW key, Has(rows, key), Len(rows) = 1
    PROVE  rows = <<key>>
  BY LenProperties DEF Has

-----------------------------------------------------------------------------
(* Types.                                                                  *)

\* The columns of a raw row name a rollup row.
LEMMA KeyOfType ==
    ASSUME NEW r \in RawRow
    PROVE  KeyOf(r) \in RowKey /\ r # Absent
  BY DEF KeyOf, RawRow, RowKey, Account, Absent

\* The epoch that covers a time is one of the timeline.
LEMMA EpochAtType ==
    ASSUME NEW tl \in Seq(Epoch), NEW t, Covered(tl, t)
    PROVE  EpochAt(tl, t).acct \in Accounts
  <1>1. EpochAt(tl, t) \in Epoch
    BY ElementOfSeq, LenProperties DEF EpochAt, Covered
  <1> QED
    BY <1>1 DEF Epoch

\* An attribution and a project make a raw row.
LEMMA AttributionType ==
    ASSUME NEW at \in Attribution, NEW proj \in Project
    PROVE  [acct |-> at.acct, conf |-> at.conf, proj |-> proj] \in RawRow
  BY LedgerAssumption DEF Attribution, RawRow, Account

\* Ingestion only stores well-formed rows.
LEMMA RowsForType ==
    ASSUME TypeOK, NEW e \in Events, NEW row \in RowsFor(e)
    PROVE  row \in RawRow
  <1>1. native[ThreadOf[e]] \in Project
    BY LedgerAssumption DEF TypeOK
  <1>2. AttributionsAt(TimeOf[e]) \subseteq Attribution
    <2>1. CASE Covered(timeline, TimeOf[e])
      <3>1. EpochAt(timeline, TimeOf[e]).acct \in Accounts
        BY <2>1, EpochAtType DEF TypeOK
      <3> QED
        BY <2>1, <3>1 DEF AttributionsAt, Attribution
    <2>2. CASE ~Covered(timeline, TimeOf[e])
      BY <2>2 DEF AttributionsAt, Attribution
    <2> QED
      BY <2>1, <2>2
  <1>3. PICK at \in Attribution :
            row = [acct |-> at.acct, conf |-> at.conf, proj |-> native[ThreadOf[e]]]
    BY <1>2 DEF RowsFor
  <1> QED
    BY <1>1, <1>3, AttributionType

\* A raw fact has a well-formed row and key.
LEMMA RawType ==
    ASSUME TypeOK, NEW e \in Events, IsRaw(e)
    PROVE  raw[e] \in RawRow /\ KeyOf(raw[e]) \in RowKey
  BY KeyOfType DEF TypeOK, IsRaw

\* An upsert keeps a rollup well formed.
LEMMA RowsAfterUpsertType ==
    ASSUME TypeOK, NEW e \in Events, NEW row \in RawRow, NEW rows \in Seq(RowKey)
    PROVE  RowsAfterUpsert(rows, e, row) \in Seq(RowKey)
  <1>1. KeyOf(row) \in RowKey
    BY KeyOfType
  <1> QED
    BY <1>1, TriggerUpdateType, AppendProperties DEF RowsAfterUpsert, TriggerInsert

\* Catalog upserts keep the catalog well formed.
LEMMA CatalogWithType ==
    ASSUME TypeOK, NEW e \in Events, NEW row \in RawRow
    PROVE  CatalogWith(catalog, ThreadOf[e], row.proj) \in [Threads -> Project]
  BY LedgerAssumption DEF CatalogWith, TypeOK, RawRow

\* One upsert keeps every table it writes well formed.
LEMMA UpsertEventType ==
    ASSUME TypeOK, NEW e \in Events, NEW row \in RawRow, UpsertEvent(e, row)
    PROVE  /\ raw' \in [Events -> RawRow \cup {Absent}]
           /\ daily' \in [Events -> Seq(RowKey)]
           /\ hourly' \in [Events -> Seq(RowKey)]
           /\ catalog' \in [Threads -> Project]
  BY RowsAfterUpsertType, CatalogWithType DEF UpsertEvent, TypeOK

\* Rewriting row by row keeps a rollup well formed.
LEMMA MapType ==
    ASSUME NEW rows \in Seq(RowKey), NEW f,
           f = [i \in DOMAIN rows |-> f[i]],
           \A i \in DOMAIN rows : f[i] \in RowKey
    PROVE  f \in Seq(RowKey) /\ Len(f) = Len(rows)
  <1>1. DOMAIN rows = 1 .. Len(rows) /\ Len(rows) \in Nat
    BY LenProperties
  <1>2. f = [i \in 1 .. Len(rows) |-> f[i]]
    BY <1>1
  <1>3. [i \in 1 .. Len(rows) |-> f[i]] \in Seq(RowKey)
    BY <1>1, IsASeq
  <1>4. DOMAIN f = 1 .. Len(rows)
    BY <1>2
  <1> QED
    BY <1>1, <1>2, <1>3, <1>4, LenProperties

\* Reprojection rewrites a raw row into a raw row, and no absent one.
LEMMA ReprojectRowType ==
    ASSUME TypeOK, NEW e \in Events
    PROVE  /\ ReprojectRow(e, raw[e]) \in RawRow \cup {Absent}
           /\ IsRaw(e) <=> ReprojectRow(e, raw[e]) # Absent
  <1>1. catalog[ThreadOf[e]] \in Project
    BY LedgerAssumption DEF TypeOK
  <1> QED
    BY <1>1 DEF ReprojectRow, TypeOK, RawRow, Absent, IsRaw

\* Reprojection rewrites a rollup key into a rollup key.
LEMMA ReprojectType ==
    ASSUME TypeOK, NEW e \in Events, NEW key \in RowKey
    PROVE  Reproject(e, key) \in RowKey
  BY LedgerAssumption DEF Reproject, TypeOK, RowKey

\* Reprojection keeps a rollup well formed.
LEMMA ReprojectedRowsType ==
    ASSUME TypeOK, NEW e \in Events, NEW rows \in Seq(RowKey)
    PROVE  ReprojectedRows(e, rows) \in Seq(RowKey)
  <1> DEFINE row == ReprojectRow(e, raw[e])
             moved == IF row = raw[e] THEN rows
                      ELSE TriggerUpdate(rows, KeyOf(raw[e]), KeyOf(row))
             f == [i \in DOMAIN moved |-> Reproject(e, moved[i])]
  <1>1. moved \in Seq(RowKey)
    <2>1. CASE row = raw[e]
      BY <2>1
    <2>2. CASE row # raw[e]
      <3>1. row \in RawRow
        BY <2>2, ReprojectRowType DEF IsRaw
      <3> QED
        BY <2>2, <3>1, KeyOfType, TriggerUpdateType
    <2> QED
      BY <2>1, <2>2
  <1>2. \A i \in DOMAIN moved : f[i] \in RowKey
    BY <1>1, ReprojectType, ElementOfSeq, LenProperties
  <1>3. f \in Seq(RowKey)
    BY <1>1, <1>2, MapType
  <1> QED
    BY <1>3 DEF ReprojectedRows

\* A merge rewrites a raw row into a raw row, and no absent one.
LEMMA RemapRowType ==
    ASSUME TypeOK, NEW e \in Events, NEW from \in Accounts, NEW to \in Accounts
    PROVE  /\ RemapRow(raw[e], from, to) \in RawRow \cup {Absent}
           /\ IsRaw(e) <=> RemapRow(raw[e], from, to) # Absent
  <1>1. raw[e] \in RawRow \cup {Absent}
    BY DEF TypeOK
  <1>2. CASE raw[e] = Absent
    BY <1>2, LedgerAssumption DEF RemapRow, Absent, IsRaw
  <1>3. CASE raw[e] \in RawRow
    <2>1. RemapRow(raw[e], from, to) \in RawRow
      BY <1>3, LedgerAssumption DEF RemapRow, RawRow, Account
    <2> QED
      BY <1>3, <2>1, KeyOfType DEF IsRaw
  <1> QED
    BY <1>1, <1>2, <1>3

\* History rewrites a raw row into a raw row, and no absent one.
LEMMA HistoryRowType ==
    ASSUME TypeOK, NEW e \in Events, NEW tl \in Timelines
    PROVE  /\ HistoryRow(tl, e) \in RawRow \cup {Absent}
           /\ IsRaw(e) <=> HistoryRow(tl, e) # Absent
  <1>1. tl \in Seq(Epoch)
    BY LedgerAssumption
  <1>2. Covered(tl, TimeOf[e]) => EpochAt(tl, TimeOf[e]).acct \in Accounts
    BY <1>1, EpochAtType
  <1>3. raw[e] \in RawRow \cup {Absent}
    BY DEF TypeOK
  <1>4. CASE HistoryRow(tl, e) = raw[e]
    BY <1>3, <1>4 DEF IsRaw
  <1>5. CASE HistoryRow(tl, e) # raw[e]
    <2> DEFINE a == EpochAt(tl, TimeOf[e]).acct
    <2>1. IsRaw(e) /\ a \in Accounts /\ HistoryRow(tl, e) = [raw[e] EXCEPT !.acct = a, !.conf = "inferred"]
      BY <1>2, <1>5 DEF HistoryRow
    <2> HIDE DEF a
    <2>2. raw[e] \in RawRow
      BY <1>3, <2>1 DEF IsRaw
    <2>3. [raw[e] EXCEPT !.acct = a, !.conf = "inferred"] \in RawRow
      BY <2>1, <2>2, LedgerAssumption DEF RawRow, Account
    <2>4. HistoryRow(tl, e).conf # Absent.conf
      BY <2>1, <2>2 DEF RawRow, Absent
    <2> QED
      BY <2>1, <2>3, <2>4
  <1> QED
    BY <1>4, <1>5

\* Rewriting a raw row keeps a rollup well formed.
LEMMA RewrittenRowsType ==
    ASSUME TypeOK, NEW e \in Events, NEW rows \in Seq(RowKey),
           NEW new \in RawRow \cup {Absent}, IsRaw(e) <=> new # Absent
    PROVE  RewrittenRows(e, rows, new) \in Seq(RowKey)
  <1>1. CASE new = raw[e]
    BY <1>1 DEF RewrittenRows
  <1>2. CASE new # raw[e]
    <2>1. new \in RawRow
      BY <1>2 DEF IsRaw
    <2> QED
      BY <1>2, <2>1, KeyOfType, TriggerUpdateType DEF RewrittenRows
  <1> QED
    BY <1>1, <1>2

\* Moving an account keeps a rollup well formed.
LEMMA MovedRowsType ==
    ASSUME NEW rows \in Seq(RowKey), NEW from \in Accounts, NEW to \in Accounts
    PROVE  /\ MovedRows(rows, from, to) \in Seq(RowKey)
           /\ Len(MovedRows(rows, from, to)) = Len(rows)
  <1> DEFINE f == [i \in DOMAIN rows |-> MoveAccount(rows[i], from, to)]
  <1>1. \A i \in DOMAIN rows : f[i] \in RowKey
    <2>1. \A key \in RowKey : MoveAccount(key, from, to) \in RowKey
      BY DEF MoveAccount, RowKey, Account
    <2> QED
      BY <2>1, ElementOfSeq, LenProperties
  <1>2. f \in Seq(RowKey) /\ Len(f) = Len(rows)
    BY <1>1, MapType
  <1> QED
    BY <1>2 DEF MovedRows

\* Handing unassigned rows to epochs keeps a rollup well formed.
LEMMA ClaimedRowsType ==
    ASSUME NEW rows \in Seq(RowKey), NEW tl \in Timelines, NEW claims
    PROVE  /\ ClaimedRows(rows, tl, claims) \in Seq(RowKey)
           /\ Len(ClaimedRows(rows, tl, claims)) = Len(rows)
  <1> DEFINE f == [i \in DOMAIN rows |-> ClaimRow(rows[i], tl, claims)]
  <1>1. tl \in Seq(Epoch)
    BY LedgerAssumption
  <1>2. \A key \in RowKey : ClaimRow(key, tl, claims) \in RowKey
    <2> SUFFICES ASSUME NEW key \in RowKey
                 PROVE  ClaimRow(key, tl, claims) \in RowKey
      OBVIOUS
    <2>1. \A i \in DOMAIN tl : tl[i].acct \in Accounts
      <3>1. \A i \in DOMAIN tl : tl[i] \in Epoch
        BY <1>1, ElementOfSeq, LenProperties
      <3> QED
        BY <3>1 DEF Epoch
    <2>2. CASE \E i \in DOMAIN tl : claims[i]
      <3>1. tl[CHOOSE i \in DOMAIN tl : claims[i]].acct \in Accounts
        BY <2>1, <2>2
      <3> QED
        BY <2>2, <3>1 DEF ClaimRow, RowKey, Account
    <2>3. CASE ~\E i \in DOMAIN tl : claims[i]
      BY <2>3 DEF ClaimRow
    <2> QED
      BY <2>2, <2>3
  <1>3. \A i \in DOMAIN rows : f[i] \in RowKey
    BY <1>2, ElementOfSeq, LenProperties
  <1>4. f \in Seq(RowKey) /\ Len(f) = Len(rows)
    BY <1>3, MapType
  <1> QED
    BY <1>4 DEF ClaimedRows

\* The catalog upserts of a rewrite keep the catalog well formed.
LEMMA CatalogsAfterType ==
    ASSUME NEW rewritten \in SUBSET Events, NEW c \in CatalogsAfter(rewritten)
    PROVE  c \in [Threads -> Project]
  BY DEF CatalogsAfter

\* An empty or an upgraded ledger is well formed.
LEMMA InitType == Init => TypeOK
  <1> SUFFICES ASSUME Init PROVE TypeOK
    OBVIOUS
  <1>1. raw \in [Events -> RawRow \cup {Absent}]
    <2>1. LegacyRow \subseteq RawRow
      <3>1. NoProject \in Project
        BY DEF Project
      <3> QED
        BY <3>1, AttributionType DEF LegacyRow
    <2> QED
      BY <2>1 DEF Init
  <1>2. \A e \in Events : IsRaw(e) => <<KeyOf(raw[e])>> \in Seq(RowKey)
    BY <1>1, KeyOfType DEF IsRaw
  <1>3. hourly \in [Events -> Seq(RowKey)]
    BY <1>2 DEF Init
  <1>4. timeline \in Seq(Epoch) /\ daily \in [Events -> Seq(RowKey)]
    BY DEF Init
  <1>5. cursor \in [Sources -> Nat]
    BY LedgerAssumption DEF Init, Sources
  <1> QED
    BY <1>1, <1>3, <1>4, <1>5, LedgerAssumption DEF Init, TypeOK, Project

\* Every transaction keeps the ledger well formed.
LEMMA NextType == TypeOK /\ [Next]_vars => TypeOK'
  <1> SUFFICES ASSUME TypeOK, [Next]_vars PROVE TypeOK'
    OBVIOUS
  <1> USE LedgerAssumption
  <1>1. ASSUME NEW e \in Events, IngestSample(e) PROVE TypeOK'
    <2>1. PICK row \in RowsFor(e) : UpsertEvent(e, row)
      BY <1>1 DEF IngestSample
    <2>2. row \in RawRow
      BY RowsForType
    <2>3. cursor' \in [Sources -> Nat]
      BY <1>1 DEF IngestSample, TypeOK
    <2> QED
      BY <1>1, <2>1, <2>2, <2>3, UpsertEventType DEF IngestSample, TypeOK
  <1>2. ASSUME NEW e \in Events, IngestRollout(e) PROVE TypeOK'
    <2>1. PICK row \in RowsFor(e) :
              IF TimeOf[e] >= retainSince \/ IsRaw(e)
              THEN UpsertEvent(e, row) /\ UNCHANGED keys
              ELSE e \notin keys /\ InsertCompacted(e, row)
      BY <1>2 DEF IngestRollout
    <2>2. row \in RawRow
      BY RowsForType
    <2>3. cursor' \in [Sources -> Nat]
      BY <1>2 DEF IngestRollout, TypeOK
    <2>4. CASE TimeOf[e] >= retainSince \/ IsRaw(e)
      BY <1>2, <2>1, <2>2, <2>3, <2>4, UpsertEventType DEF IngestRollout, TypeOK
    <2>5. CASE ~(TimeOf[e] >= retainSince \/ IsRaw(e))
      <3>1. InsertCompacted(e, row)
        BY <2>1, <2>5
      <3>2. daily' \in [Events -> Seq(RowKey)]
        BY <2>2, <3>1, KeyOfType, AppendProperties DEF InsertCompacted, TypeOK
      <3>3. catalog' \in [Threads -> Project]
        BY <2>2, <3>1, CatalogWithType DEF InsertCompacted
      <3> QED
        BY <1>2, <2>3, <3>1, <3>2, <3>3 DEF IngestRollout, InsertCompacted, TypeOK
    <2> QED
      BY <2>4, <2>5
  <1>3. ASSUME NEW source \in Sources, LoseCursor(source) PROVE TypeOK'
    BY <1>3 DEF LoseCursor, TypeOK
  <1>4. CASE BackfillRollupChunk
    <2>1. PICK end \in backfilled + 1 .. LegacyRows :
              /\ daily' = [e \in Events |->
                              IF e \in backfilled + 1 .. end /\ IsRaw(e)
                              THEN Append(daily[e], KeyOf(raw[e]))
                              ELSE daily[e]]
              /\ backfilled' = end
              /\ complete' = (end >= LegacyRows)
      BY <1>4 DEF BackfillRollupChunk
    <2>2. daily' \in [Events -> Seq(RowKey)]
      <3>1. \A e \in Events : IsRaw(e) => Append(daily[e], KeyOf(raw[e])) \in Seq(RowKey)
        BY RawType, AppendProperties DEF TypeOK
      <3> QED
        BY <2>1, <3>1 DEF TypeOK
    <2>3. backfilled' \in Nat /\ complete' \in BOOLEAN
      BY <2>1 DEF TypeOK
    <2> QED
      BY <1>4, <2>2, <2>3 DEF BackfillRollupChunk, TypeOK
  <1>5. CASE VerifyRollup
    BY <1>5 DEF VerifyRollup, TypeOK
  <1>6. CASE CompactRawEventsChunk
    <2>1. keys' \in SUBSET Events
      BY <1>6 DEF CompactRawEventsChunk, Expired, TypeOK
    <2>2. raw' \in [Events -> RawRow \cup {Absent}]
      BY <1>6 DEF CompactRawEventsChunk, TypeOK
    <2> QED
      BY <1>6, <2>1, <2>2 DEF CompactRawEventsChunk, TypeOK
  <1>7. CASE AdvanceRetention
    BY <1>7 DEF AdvanceRetention, TypeOK
  <1>8. ASSUME NEW t \in Threads, NEW p \in Projects, AssignNativeProject(t, p) PROVE TypeOK'
    BY <1>8 DEF AssignNativeProject, TypeOK, Project
  <1>9. CASE SyncNativeCatalog
    BY <1>9 DEF SyncNativeCatalog, TypeOK
  <1>10. CASE ReprojectUsageFromCatalog
    <2>1. raw' \in [Events -> RawRow \cup {Absent}]
      BY <1>10, ReprojectRowType DEF ReprojectUsageFromCatalog
    <2>2. daily' \in [Events -> Seq(RowKey)] /\ hourly' \in [Events -> Seq(RowKey)]
      BY <1>10, ReprojectedRowsType DEF ReprojectUsageFromCatalog, TypeOK
    <2> QED
      BY <1>10, <2>1, <2>2 DEF ReprojectUsageFromCatalog, TypeOK
  <1>11. ASSUME NEW from \in Accounts, NEW to \in Accounts,
                RemapAccountFingerprint(from, to)
         PROVE  TypeOK'
    <2>1. raw' \in [Events -> RawRow \cup {Absent}]
      BY <1>11, RemapRowType DEF RemapAccountFingerprint
    <2>2. \A rows \in Seq(RowKey), e \in Events :
             MovedRows(RewrittenRows(e, rows, RemapRow(raw[e], from, to)), from, to)
                \in Seq(RowKey)
      BY RemapRowType, RewrittenRowsType, MovedRowsType
    <2>3. daily' \in [Events -> Seq(RowKey)] /\ hourly' \in [Events -> Seq(RowKey)]
      BY <1>11, <2>2 DEF RemapAccountFingerprint, TypeOK
    <2>4. timeline' \in Seq(Epoch)
      <3> DEFINE moved(i) == IF timeline[i].acct = from
                             THEN [timeline[i] EXCEPT !.acct = to] ELSE timeline[i]
      <3>1. Len(timeline) \in Nat /\ DOMAIN timeline = 1 .. Len(timeline)
        BY LenProperties DEF TypeOK
      <3>2. \A i \in 1 .. Len(timeline) : timeline[i] \in Epoch
        BY ElementOfSeq DEF TypeOK
      <3>3. \A i \in 1 .. Len(timeline) : moved(i) \in Epoch
        BY <3>2 DEF Epoch
      <3>4. [i \in 1 .. Len(timeline) |-> moved(i)] \in Seq(Epoch)
        BY <3>1, <3>3, IsASeq
      <3> QED
        BY <1>11, <3>1, <3>4 DEF RemapAccountFingerprint
    <2>5. catalog' \in [Threads -> Project]
      BY <1>11, CatalogsAfterType DEF RemapAccountFingerprint
    <2> QED
      BY <1>11, <2>1, <2>3, <2>4, <2>5 DEF RemapAccountFingerprint, TypeOK
  <1>12. ASSUME NEW tl \in Timelines, ReplaceHistoricalAuthEpochs(tl) PROVE TypeOK'
    <2>1. raw' \in [Events -> RawRow \cup {Absent}]
      BY <1>12, HistoryRowType DEF ReplaceHistoricalAuthEpochs
    <2>2. \A rows \in Seq(RowKey), e \in Events :
             RewrittenRows(e, rows, HistoryRow(tl, e)) \in Seq(RowKey)
      BY HistoryRowType, RewrittenRowsType
    <2>3. daily' \in [Events -> Seq(RowKey)]
      BY <1>12, <2>2, ClaimedRowsType DEF ReplaceHistoricalAuthEpochs, TypeOK
    <2>4. hourly' \in [Events -> Seq(RowKey)]
      BY <1>12, <2>2, ClaimedRowsType DEF ReplaceHistoricalAuthEpochs, TypeOK
    <2>5. timeline' \in Seq(Epoch)
      BY <1>12 DEF ReplaceHistoricalAuthEpochs
    <2>6. catalog' \in [Threads -> Project]
      BY <1>12, CatalogsAfterType DEF ReplaceHistoricalAuthEpochs
    <2> QED
      BY <1>12, <2>1, <2>3, <2>4, <2>5, <2>6 DEF ReplaceHistoricalAuthEpochs, TypeOK
  <1>13. CASE UNCHANGED vars
    BY <1>13 DEF vars, TypeOK
  <1> QED
    BY <1>1, <1>2, <1>3, <1>4, <1>5, <1>6, <1>7, <1>8, <1>9, <1>10, <1>11,
       <1>12, <1>13 DEF Next

\* Every row stays well formed, whatever the order of the transactions.
THEOREM TypeCorrect == Spec => []TypeOK
  <1>1. TypeOK /\ [Next]_vars => TypeOK'
    BY NextType
  <1> QED
    BY InitType, <1>1, PTL DEF Spec

-----------------------------------------------------------------------------
(* The inductive invariant.                                                *)

\* Facts stored before the rollups existed are settled by the verification.
Settled(e) == verified \/ e \notin 1 .. LegacyRows

Exact(e) ==
    /\ IsRaw(e) => daily[e] = <<KeyOf(raw[e])>> /\ e \notin keys
    /\ e \in keys => Len(daily[e]) = 1
    /\ ~Stored(e) => daily[e] = << >>

SettledExact == \A e \in Events : Settled(e) => Exact(e)

\* Until then a legacy fact keeps its detail, and backfill has counted it under
\* its row at least once, possibly more often.
LegacyCounted ==
    ~verified => \A e \in 1 .. LegacyRows :
        /\ IsRaw(e) /\ e \notin keys
        /\ e <= backfilled => Has(daily[e], KeyOf(raw[e]))

PhasesOrdered ==
    /\ verified => complete
    /\ complete => LegacyRows <= backfilled

\* What the log cursor has not reached is not stored.
LogsAhead ==
    \A e \in Events : SourceOf(e) = "logs" /\ e > cursor["logs"] => ~Stored(e)

KeysExpired == \A e \in keys : TimeOf[e] < retainSince

IInv ==
    /\ TypeOK
    /\ SettledExact
    /\ LegacyCounted
    /\ PhasesOrdered
    /\ LogsAhead
    /\ KeysExpired

\* The inductive invariant holds of an empty or an upgraded ledger.
LEMMA InitIInv == Init => IInv
  <1> SUFFICES ASSUME Init PROVE IInv
    OBVIOUS
  <1> USE LedgerAssumption
  <1>1. TypeOK
    BY InitType
  <1>2. SettledExact
    BY DEF Init, SettledExact, Settled, Exact, Stored
  <1>3. LegacyCounted
    <2>1. keys = {} /\ backfilled = 0 /\ \A e \in 1 .. LegacyRows : IsRaw(e)
      BY DEF Init
    <2>2. \A e \in 1 .. LegacyRows : ~(e <= 0)
      OBVIOUS
    <2> QED
      BY <2>1, <2>2 DEF LegacyCounted
  <1>4. PhasesOrdered
    <2>1. verified = FALSE /\ backfilled = 0 /\ complete = (LegacyRows = 0)
      BY DEF Init
    <2>2. ~verified
      BY <2>1
    <2>3. complete => LegacyRows = 0
      BY <2>1, Zenon
    <2>4. LegacyRows = 0 => LegacyRows <= backfilled
      BY <2>1
    <2> QED
      BY <2>2, <2>3, <2>4 DEF PhasesOrdered
  <1>5. LogsAhead
    BY DEF Init, LogsAhead, Stored
  <1>6. KeysExpired
    BY DEF Init, KeysExpired
  <1> QED
    BY <1>1, <1>2, <1>3, <1>4, <1>5, <1>6 DEF IInv

\* A transaction that rewrites rows in place, touching neither keys nor cursors,
\* keeps the invariant if each fact follows its own row.
LEMMA RewriteKeeps ==
    ASSUME IInv, TypeOK',
           UNCHANGED <<keys, backfilled, complete, verified, cursor, retainSince>>,
           \A e \in Events : IsRaw(e) <=> IsRaw(e)',
           \A e \in Events : ~IsRaw(e) => Len(daily'[e]) = Len(daily[e]),
           \A e \in Events : IsRaw(e) /\ daily[e] = <<KeyOf(raw[e])>> =>
               Len(daily'[e]) = 1,
           \A e \in Events : IsRaw(e) /\ Has(daily[e], KeyOf(raw[e])) =>
               Has(daily'[e], KeyOf(raw'[e]))
    PROVE  IInv'
  <1> USE LedgerAssumption
  <1>1. \A e \in Events : Settled(e)' <=> Settled(e)
    BY DEF Settled
  <1>2. \A e \in Events : Stored(e)' <=> Stored(e)
    BY DEF Stored
  <1>3. SettledExact'
    <2> SUFFICES ASSUME NEW e \in Events, Settled(e)
                 PROVE  Exact(e)'
      BY <1>1 DEF SettledExact
    <2>1. Exact(e)
      BY DEF IInv, SettledExact
    <2>2. daily[e] \in Seq(RowKey) /\ daily'[e] \in Seq(RowKey)
      BY DEF IInv, TypeOK
    <2>3. CASE IsRaw(e)
      <3>1. daily[e] = <<KeyOf(raw[e])>> /\ e \notin keys
        BY <2>1, <2>3 DEF Exact
      <3>2. Has(daily[e], KeyOf(raw[e]))
        BY <3>1 DEF Has
      <3>3. daily'[e] = <<KeyOf(raw'[e])>>
        BY <2>2, <2>3, <3>1, <3>2, SingleRow
      <3> QED
        BY <2>3, <3>1, <3>3, <1>2 DEF Exact, Stored
    <2>4. CASE ~IsRaw(e)
      <3>1. Len(daily'[e]) = Len(daily[e])
        BY <2>4
      <3>2. daily[e] = << >> => daily'[e] = << >>
        BY <2>2, <3>1, EmptySeq
      <3> QED
        BY <2>1, <2>4, <3>1, <3>2, <1>2 DEF Exact
    <2> QED
      BY <2>3, <2>4
  <1>4. LegacyCounted'
    BY DEF IInv, LegacyCounted
  <1>5. PhasesOrdered'
    BY DEF IInv, PhasesOrdered
  <1>6. LogsAhead'
    BY <1>2 DEF IInv, LogsAhead
  <1>7. KeysExpired'
    BY DEF IInv, KeysExpired
  <1> QED
    BY <1>3, <1>4, <1>5, <1>6, <1>7 DEF IInv

-----------------------------------------------------------------------------
(* Each transaction keeps the invariant.                                   *)

\* One upsert: the fact moves from its old row to its new one, or enters.
LEMMA UpsertKeeps ==
    ASSUME IInv, TypeOK', NEW e \in Events, NEW row \in RawRow,
           UpsertEvent(e, row), e \notin keys,
           UNCHANGED <<keys, backfilled, complete, verified, retainSince>>,
           \A f \in Events :
               SourceOf(f) = "logs" /\ f > cursor'["logs"] =>
                   f # e /\ f > cursor["logs"]
    PROVE  IInv'
  <1> USE LedgerAssumption
  <1> DEFINE rows == RowsAfterUpsert(daily[e], e, row)
  <1>1. \A f \in Events \ {e} : raw'[f] = raw[f] /\ daily'[f] = daily[f]
    BY DEF UpsertEvent, IInv, TypeOK
  <1>2. raw'[e] = row /\ daily'[e] = rows
    BY DEF UpsertEvent, IInv, TypeOK
  <1>3. KeyOf(row) \in RowKey /\ row # Absent
    BY KeyOfType
  <1>4. daily[e] \in Seq(RowKey)
    BY DEF IInv, TypeOK
  <1>5. Exact(e) => rows = <<KeyOf(row)>>
    <2> SUFFICES ASSUME Exact(e) PROVE rows = <<KeyOf(row)>>
      OBVIOUS
    <2>1. CASE ~IsRaw(e)
      <3>1. daily[e] = << >>
        BY <2>1 DEF Exact, Stored
      <3>2. Append(<< >>, KeyOf(row)) = <<KeyOf(row)>>
        OBVIOUS
      <3> QED
        BY <2>1, <3>1, <3>2 DEF RowsAfterUpsert, TriggerInsert
    <2>2. CASE IsRaw(e)
      <3>1. daily[e] = <<KeyOf(raw[e])>> /\ KeyOf(raw[e]) \in RowKey
        BY <2>2, RawType DEF Exact, IInv
      <3> QED
        BY <2>2, <3>1, <1>3, TriggerUpdateSingle DEF RowsAfterUpsert
    <2> QED
      BY <2>1, <2>2
  <1>6. IsRaw(e) /\ Has(daily[e], KeyOf(raw[e])) => Has(rows, KeyOf(row))
    BY <1>3, <1>4, TriggerUpdateHas DEF RowsAfterUpsert
  <1>7. SettledExact'
    <2> SUFFICES ASSUME NEW f \in Events, Settled(f)
                 PROVE  Exact(f)'
      BY DEF SettledExact, Settled
    <2>1. Exact(f)
      BY DEF IInv, SettledExact
    <2>2. CASE f = e
      BY <1>2, <1>3, <1>5, <2>1, <2>2 DEF Exact, IsRaw, Stored
    <2>3. CASE f # e
      BY <1>1, <2>1, <2>3 DEF Exact, IsRaw, Stored
    <2> QED
      BY <2>2, <2>3
  <1>8. LegacyCounted'
    <2> SUFFICES ASSUME ~verified, NEW f \in 1 .. LegacyRows
                 PROVE  /\ raw'[f] # Absent /\ f \notin keys
                        /\ f <= backfilled => Has(daily'[f], KeyOf(raw'[f]))
      BY DEF LegacyCounted, IsRaw
    <2>1. /\ IsRaw(f) /\ f \notin keys
          /\ f <= backfilled => Has(daily[f], KeyOf(raw[f]))
      BY DEF IInv, LegacyCounted
    <2>2. CASE f = e
      BY <1>2, <1>3, <1>6, <2>1, <2>2
    <2>3. CASE f # e
      BY <1>1, <2>1, <2>3 DEF IsRaw
    <2> QED
      BY <2>2, <2>3
  <1>9. PhasesOrdered'
    BY DEF IInv, PhasesOrdered
  <1>10. LogsAhead'
    BY <1>1 DEF IInv, LogsAhead, Stored, IsRaw
  <1>11. KeysExpired'
    BY DEF IInv, KeysExpired
  <1> QED
    BY <1>7, <1>8, <1>9, <1>10, <1>11 DEF IInv

\* A log sample is new or replaces its own row, since the log cursor never falls.
LEMMA SampleKeeps ==
    ASSUME IInv, TypeOK', NEW e \in Events, IngestSample(e)
    PROVE  IInv'
  <1>1. PICK row \in RowsFor(e) : UpsertEvent(e, row)
    BY DEF IngestSample
  <1>2. row \in RawRow
    BY RowsForType DEF IInv
  <1>3. e \notin keys
    BY DEF IngestSample, IInv, LogsAhead, Stored
  <1>4. cursor'["logs"] = e /\ cursor["logs"] < e /\ e \in Nat
    BY LedgerAssumption DEF IngestSample, IInv, TypeOK, Sources
  <1>5. \A f \in Events : f > cursor'["logs"] => f # e /\ f > cursor["logs"]
    <2>1. cursor["logs"] \in Nat /\ \A f \in Events : f \in Nat
      BY LedgerAssumption DEF IInv, TypeOK, Sources
    <2> QED
      BY <1>4, <2>1
  <1>6. UNCHANGED <<keys, backfilled, complete, verified, retainSince>>
    BY DEF IngestSample
  <1> QED
    BY <1>1, <1>2, <1>3, <1>5, <1>6, UpsertKeeps

\* A rollout fact is stored raw, or added up if it is expired and has no key.
LEMMA RolloutKeeps ==
    ASSUME IInv, TypeOK', NEW e \in Events, IngestRollout(e)
    PROVE  IInv'
  <1> USE LedgerAssumption
  <1>1. PICK row \in RowsFor(e) :
            IF TimeOf[e] >= retainSince \/ IsRaw(e)
            THEN UpsertEvent(e, row) /\ UNCHANGED keys
            ELSE e \notin keys /\ InsertCompacted(e, row)
    BY DEF IngestRollout
  <1>2. row \in RawRow /\ KeyOf(row) \in RowKey
    BY RowsForType, KeyOfType DEF IInv
  <1>3. cursor'["logs"] = cursor["logs"] /\ SourceOf(e) # "logs"
    BY DEF IngestRollout, IInv, TypeOK, Sources
  <1>4. e \notin 1 .. LegacyRows
    BY DEF IngestRollout, SourceOf
  <1>5. Exact(e)
    BY <1>4 DEF IInv, SettledExact, Settled
  <1>6. CASE TimeOf[e] >= retainSince \/ IsRaw(e)
    <2>1. e \notin keys
      <3>1. CASE IsRaw(e)
        BY <3>1, <1>5 DEF Exact
      <3>2. CASE TimeOf[e] >= retainSince
        BY <3>2 DEF IInv, KeysExpired, TypeOK
      <3> QED
        BY <1>6, <3>1, <3>2
    <2> QED
      BY <1>1, <1>2, <1>3, <1>6, <2>1, UpsertKeeps DEF IngestRollout
  <1>7. CASE ~(TimeOf[e] >= retainSince \/ IsRaw(e))
    <2>1. e \notin keys /\ InsertCompacted(e, row)
      BY <1>1, <1>7
    <2>2. daily[e] = << >>
      BY <1>5, <1>7, <2>1 DEF Exact, Stored
    <2>3. daily'[e] = <<KeyOf(row)>>
      <3>1. Append(<< >>, KeyOf(row)) = <<KeyOf(row)>>
        OBVIOUS
      <3> QED
        BY <2>1, <2>2, <3>1 DEF InsertCompacted, IInv, TypeOK
    <2>4. \A f \in Events \ {e} : daily'[f] = daily[f] /\ (f \in keys' <=> f \in keys)
      BY <2>1 DEF InsertCompacted, IInv, TypeOK
    <2>5. raw' = raw /\ e \in keys' /\ UNCHANGED <<backfilled, complete, verified, retainSince>>
      BY <2>1 DEF InsertCompacted, IngestRollout
    <2>6. SettledExact'
      <3> SUFFICES ASSUME NEW f \in Events, Settled(f)
                   PROVE  Exact(f)'
        BY <2>5 DEF SettledExact, Settled
      <3>1. CASE f = e
        <4>1. Len(<<KeyOf(row)>>) = 1
          OBVIOUS
        <4> QED
          BY <1>7, <2>3, <2>5, <3>1, <4>1 DEF Exact, IsRaw, Stored
      <3>2. CASE f # e
        BY <2>4, <2>5, <3>2 DEF IInv, SettledExact, Exact, IsRaw, Stored
      <3> QED
        BY <3>1, <3>2
    <2>7. LegacyCounted'
      BY <1>4, <2>4, <2>5 DEF IInv, LegacyCounted, IsRaw
    <2>8. PhasesOrdered'
      BY <2>5 DEF IInv, PhasesOrdered
    <2>9. LogsAhead'
      BY <1>3, <2>4, <2>5 DEF IInv, LogsAhead, Stored, IsRaw
    <2>10. KeysExpired'
      <3>1. TimeOf[e] < retainSince
        BY <1>7 DEF IInv, TypeOK
      <3> QED
        BY <2>1, <2>5, <3>1 DEF IInv, KeysExpired, InsertCompacted
    <2> QED
      BY <2>6, <2>7, <2>8, <2>9, <2>10 DEF IInv
  <1> QED
    BY <1>6, <1>7

\* Whatever leaves raw facts, keys, daily rows and phases alone keeps the
\* invariant if the log cursor does not fall and retention does not recede.
LEMMA StutterKeeps ==
    ASSUME IInv, TypeOK', cursor'["logs"] = cursor["logs"],
           retainSince' >= retainSince,
           UNCHANGED <<raw, keys, daily, backfilled, complete, verified>>
    PROVE  IInv'
  <1>1. SettledExact' /\ LegacyCounted' /\ PhasesOrdered' /\ LogsAhead'
    BY DEF IInv, SettledExact, Settled, Exact, LegacyCounted, PhasesOrdered,
           LogsAhead, IsRaw, Stored
  <1>2. KeysExpired'
    <2> SUFFICES ASSUME NEW e \in keys PROVE TimeOf[e] < retainSince'
      BY DEF KeysExpired
    <2>1. TimeOf[e] < retainSince /\ TimeOf[e] \in Nat
      BY LedgerAssumption DEF IInv, KeysExpired, TypeOK
    <2> QED
      BY <2>1 DEF IInv, TypeOK
  <1> QED
    BY <1>1, <1>2 DEF IInv

\* Backfill counts each legacy fact once, in the order of row ids.
LEMMA BackfillKeeps ==
    ASSUME IInv, TypeOK', BackfillRollupChunk
    PROVE  IInv'
  <1> USE LedgerAssumption
  <1>1. PICK end \in backfilled + 1 .. LegacyRows :
            /\ daily' = [e \in Events |->
                            IF e \in backfilled + 1 .. end /\ IsRaw(e)
                            THEN Append(daily[e], KeyOf(raw[e]))
                            ELSE daily[e]]
            /\ backfilled' = end
            /\ complete' = (end >= LegacyRows)
    BY DEF BackfillRollupChunk
  <1>2. ~complete /\ ~verified
    BY DEF BackfillRollupChunk, IInv, PhasesOrdered
  <1>3. UNCHANGED <<raw, keys, verified, cursor, retainSince>>
    BY DEF BackfillRollupChunk
  <1>4. backfilled \in Nat /\ end \in Nat /\ end <= LegacyRows /\ backfilled < end
    BY <1>1 DEF IInv, TypeOK
  <1>5. SettledExact'
    <2> SUFFICES ASSUME NEW e \in Events, e \notin 1 .. LegacyRows
                 PROVE  Exact(e)'
      BY <1>2, <1>3 DEF SettledExact, Settled
    <2>1. e \notin backfilled + 1 .. end
      BY <1>4
    <2>2. daily'[e] = daily[e]
      BY <1>1, <2>1
    <2> QED
      BY <1>3, <2>2 DEF IInv, SettledExact, Settled, Exact, IsRaw, Stored
  <1>6. LegacyCounted'
    <2> SUFFICES ASSUME NEW e \in 1 .. LegacyRows
                 PROVE  /\ IsRaw(e) /\ e \notin keys
                        /\ e <= end => Has(daily'[e], KeyOf(raw[e]))
      BY <1>1, <1>3 DEF LegacyCounted, IsRaw
    <2>1. /\ IsRaw(e) /\ e \notin keys
          /\ e <= backfilled => Has(daily[e], KeyOf(raw[e]))
      BY <1>2 DEF IInv, LegacyCounted
    <2>2. ASSUME e <= end PROVE Has(daily'[e], KeyOf(raw[e]))
      <3>1. CASE e <= backfilled
        <4>1. daily'[e] = daily[e]
          BY <1>1, <1>4, <3>1
        <4> QED
          BY <2>1, <3>1, <4>1
      <3>2. CASE ~(e <= backfilled)
        <4>1. e \in backfilled + 1 .. end
          BY <1>4, <2>2, <3>2
        <4>2. daily'[e] = Append(daily[e], KeyOf(raw[e]))
          BY <1>1, <2>1, <4>1
        <4>3. daily[e] \in Seq(RowKey) /\ KeyOf(raw[e]) \in RowKey
          BY <2>1, RawType DEF IInv, TypeOK
        <4>4. /\ Len(daily[e]) + 1 \in DOMAIN Append(daily[e], KeyOf(raw[e]))
              /\ Append(daily[e], KeyOf(raw[e]))[Len(daily[e]) + 1] = KeyOf(raw[e])
          BY <4>3, AppendProperties, LenProperties
        <4> QED
          BY <4>2, <4>4 DEF Has
      <3> QED
        BY <3>1, <3>2
    <2> QED
      BY <2>1, <2>2
  <1>7. PhasesOrdered'
    <2>1. complete' => LegacyRows <= end
      BY <1>1, <1>4
    <2> QED
      BY <1>1, <1>2, <1>3, <2>1 DEF PhasesOrdered
  <1>8. LogsAhead' /\ KeysExpired'
    BY <1>3 DEF IInv, LogsAhead, KeysExpired, Stored, IsRaw
  <1> QED
    BY <1>5, <1>6, <1>7, <1>8 DEF IInv

\* Verification finds totals that agree only if every fact is counted once.
LEMMA VerifyKeeps ==
    ASSUME IInv, TypeOK', VerifyRollup
    PROVE  IInv'
  <1> USE LedgerAssumption
  <1>1. complete /\ ~verified /\ TotalsAgree /\ verified'
    BY DEF VerifyRollup
  <1>2. UNCHANGED <<raw, keys, daily, backfilled, complete, cursor, retainSince>>
    BY DEF VerifyRollup
  <1>3. SettledExact'
    <2> SUFFICES ASSUME NEW e \in Events PROVE Exact(e)
      BY <1>2 DEF SettledExact, Exact, IsRaw, Stored
    <2>1. CASE e \in 1 .. LegacyRows
      <3>1. IsRaw(e) /\ e \notin keys
        BY <1>1, <2>1 DEF IInv, LegacyCounted
      <3>2. e <= backfilled
        BY <1>1, <2>1 DEF IInv, PhasesOrdered, TypeOK
      <3>3. Has(daily[e], KeyOf(raw[e]))
        BY <1>1, <2>1, <3>2 DEF IInv, LegacyCounted
      <3>4. Len(daily[e]) = 1 /\ daily[e] \in Seq(RowKey)
        BY <1>1, <3>1 DEF TotalsAgree, IInv, TypeOK
      <3>5. daily[e] = <<KeyOf(raw[e])>>
        BY <3>3, <3>4, SingleRow
      <3> QED
        BY <3>1, <3>5 DEF Exact, Stored
    <2>2. CASE e \notin 1 .. LegacyRows
      BY <2>2 DEF IInv, SettledExact, Settled
    <2> QED
      BY <2>1, <2>2
  <1>4. LegacyCounted' /\ PhasesOrdered'
    BY <1>1, <1>2 DEF IInv, LegacyCounted, PhasesOrdered
  <1>5. LogsAhead' /\ KeysExpired'
    BY <1>2 DEF IInv, LogsAhead, KeysExpired, Stored, IsRaw
  <1> QED
    BY <1>3, <1>4, <1>5 DEF IInv

\* Compaction moves facts from raw to keys under verified totals.
LEMMA CompactKeeps ==
    ASSUME IInv, TypeOK', CompactRawEventsChunk
    PROVE  IInv'
  <1> USE LedgerAssumption
  <1>1. PICK chunk \in SUBSET Expired :
            /\ keys' = keys \cup chunk
            /\ raw' = [e \in Events |-> IF e \in chunk THEN Absent ELSE raw[e]]
    BY DEF CompactRawEventsChunk
  <1>2. verified /\ UNCHANGED <<daily, backfilled, complete, verified, cursor, retainSince>>
    BY DEF CompactRawEventsChunk
  <1>3. \A e \in chunk : e \in Events /\ IsRaw(e) /\ TimeOf[e] < retainSince
    BY DEF Expired
  <1>4. \A e \in Events : Exact(e)
    BY <1>2 DEF IInv, SettledExact, Settled
  <1>5. SettledExact'
    <2> SUFFICES ASSUME NEW e \in Events PROVE Exact(e)'
      BY DEF SettledExact
    <2>1. CASE e \in chunk
      <3>1. Len(<<KeyOf(raw[e])>>) = 1
        OBVIOUS
      <3>2. Len(daily[e]) = 1
        BY <1>3, <1>4, <2>1, <3>1 DEF Exact
      <3> QED
        BY <1>1, <1>2, <2>1, <3>2 DEF Exact, IsRaw, Stored
    <2>2. CASE e \notin chunk
      BY <1>1, <1>2, <1>4, <2>2 DEF Exact, IsRaw, Stored
    <2> QED
      BY <2>1, <2>2
  <1>6. LegacyCounted' /\ PhasesOrdered'
    BY <1>2 DEF IInv, LegacyCounted, PhasesOrdered
  <1>7. LogsAhead'
    BY <1>1, <1>2, <1>3 DEF IInv, LogsAhead, Stored, IsRaw
  <1>8. KeysExpired'
    BY <1>1, <1>2, <1>3 DEF IInv, KeysExpired
  <1> QED
    BY <1>5, <1>6, <1>7, <1>8 DEF IInv

\* A rewritten raw row and its rollup row stay together.
LEMMA RewrittenFollows ==
    ASSUME TypeOK, NEW e \in Events, IsRaw(e), NEW rows \in Seq(RowKey),
           NEW new \in RawRow
    PROVE  /\ Has(rows, KeyOf(raw[e])) => Has(RewrittenRows(e, rows, new), KeyOf(new))
           /\ rows = <<KeyOf(raw[e])>> => RewrittenRows(e, rows, new) = <<KeyOf(new)>>
  <1>1. CASE new = raw[e]
    BY <1>1 DEF RewrittenRows
  <1>2. CASE new # raw[e]
    BY <1>2, KeyOfType, RawType, TriggerUpdateHas, TriggerUpdateSingle DEF RewrittenRows
  <1> QED
    BY <1>1, <1>2

\* Reprojection gives a raw fact and its rollup row the same project.
LEMMA ReprojectKeeps ==
    ASSUME IInv, TypeOK', ReprojectUsageFromCatalog
    PROVE  IInv'
  <1> USE LedgerAssumption
  <1>1. TypeOK
    BY DEF IInv
  <1>2. \A e \in Events : /\ raw'[e] = ReprojectRow(e, raw[e])
                          /\ daily'[e] = ReprojectedRows(e, daily[e])
                          /\ Len(daily'[e]) = Len(daily[e])
    BY DEF ReprojectUsageFromCatalog, ReprojectionConserves
  <1>3. \A e \in Events : IsRaw(e) <=> IsRaw(e)'
    BY <1>1, <1>2, ReprojectRowType DEF IsRaw
  <1>4. \A e \in Events : Len(<<KeyOf(raw[e])>>) = 1
    OBVIOUS
  <1>5. ASSUME NEW e \in Events, IsRaw(e), Has(daily[e], KeyOf(raw[e]))
        PROVE  Has(daily'[e], KeyOf(raw'[e]))
    <2> DEFINE row == ReprojectRow(e, raw[e])
               moved == IF row = raw[e] THEN daily[e]
                        ELSE TriggerUpdate(daily[e], KeyOf(raw[e]), KeyOf(row))
    <2>1. row \in RawRow /\ KeyOf(row) \in RowKey
      BY <1>1, <1>5, ReprojectRowType, KeyOfType
    <2>2. daily[e] \in Seq(RowKey)
      BY <1>1 DEF TypeOK
    <2>3. Has(moved, KeyOf(row))
      BY <1>5, <2>1, <2>2, TriggerUpdateHas
    <2>4. Reproject(e, KeyOf(row)) = KeyOf(row)
      <3>1. raw[e] \in RawRow
        BY <1>1, <1>5, RawType
      <3>2. raw[e] # Absent
        BY <1>5 DEF IsRaw
      <3> QED
        BY <3>1, <3>2, KeyOfType DEF Reproject, ReprojectRow, KeyOf, RawRow
    <2>5. daily'[e] = [i \in DOMAIN moved |-> Reproject(e, moved[i])]
      BY <1>2 DEF ReprojectedRows
    <2> QED
      BY <1>2, <2>3, <2>4, <2>5 DEF Has
  <1> QED
    BY <1>1, <1>2, <1>3, <1>4, <1>5, RewriteKeeps DEF ReprojectUsageFromCatalog

\* A merge moves a raw fact and its rollup row together.
LEMMA RemapKeeps ==
    ASSUME IInv, TypeOK', NEW from \in Accounts, NEW to \in Accounts,
           RemapAccountFingerprint(from, to)
    PROVE  IInv'
  <1> USE LedgerAssumption
  <1> DEFINE new(e) == RemapRow(raw[e], from, to)
             rows(e) == RewrittenRows(e, daily[e], new(e))
  <1>1. TypeOK
    BY DEF IInv
  <1>2. \A e \in Events : raw'[e] = new(e) /\ daily'[e] = MovedRows(rows(e), from, to)
    BY DEF RemapAccountFingerprint
  <1>3. \A e \in Events : /\ new(e) \in RawRow \cup {Absent}
                          /\ IsRaw(e) <=> new(e) # Absent
                          /\ IsRaw(e) <=> IsRaw(e)'
    BY <1>1, <1>2, RemapRowType DEF IsRaw
  <1>4. \A e \in Events : rows(e) \in Seq(RowKey)
    BY <1>1, <1>3, RewrittenRowsType DEF TypeOK
  <1>5. \A e \in Events : Len(daily'[e]) = Len(rows(e))
    BY <1>2, <1>4, MovedRowsType
  <1>6. \A e \in Events : ~IsRaw(e) => rows(e) = daily[e]
    BY <1>3 DEF RewrittenRows, IsRaw
  <1>7. ASSUME NEW e \in Events, IsRaw(e), daily[e] = <<KeyOf(raw[e])>>
        PROVE  Len(daily'[e]) = 1
    <2>0. new(e) \in RawRow /\ daily[e] \in Seq(RowKey)
      BY <1>1, <1>3, <1>7 DEF TypeOK
    <2>1. rows(e) = <<KeyOf(new(e))>>
      BY <1>1, <1>7, <2>0, RewrittenFollows
    <2>2. Len(<<KeyOf(new(e))>>) = 1
      OBVIOUS
    <2> QED
      BY <1>5, <2>1, <2>2
  <1>8. ASSUME NEW e \in Events, IsRaw(e), Has(daily[e], KeyOf(raw[e]))
        PROVE  Has(daily'[e], KeyOf(raw'[e]))
    <2>1. Has(rows(e), KeyOf(new(e)))
      BY <1>1, <1>3, <1>8, RewrittenFollows DEF TypeOK
    <2>2. MoveAccount(KeyOf(new(e)), from, to) = KeyOf(new(e))
      <3>1. from # to /\ raw[e] \in RawRow
        BY <1>1, <1>8, RawType DEF RemapAccountFingerprint
      <3>2. KeyOf(new(e)).acct # from
        BY <3>1 DEF RemapRow, KeyOf, RawRow
      <3> QED
        BY <3>2 DEF MoveAccount
    <2>3. Has(daily'[e], KeyOf(raw'[e]))
      <3>1. PICK i \in DOMAIN rows(e) : rows(e)[i] = KeyOf(new(e))
        BY <2>1 DEF Has
      <3>2. daily'[e] = [j \in DOMAIN rows(e) |-> MoveAccount(rows(e)[j], from, to)]
        BY <1>2 DEF MovedRows
      <3>3. i \in DOMAIN daily'[e] /\ daily'[e][i] = KeyOf(new(e))
        BY <2>2, <3>1, <3>2
      <3> QED
        BY <1>2, <3>3 DEF Has
    <2> QED
      BY <2>3
  <1>9. UNCHANGED <<keys, backfilled, complete, verified, cursor, retainSince>>
    BY DEF RemapAccountFingerprint
  <1> QED
    BY <1>3, <1>5, <1>6, <1>7, <1>8, <1>9, RewriteKeeps

\* An earlier day holds earlier times.
LEMMA EarlierDay ==
    ASSUME NEW n \in Nat \ {0}, NEW a \in Nat, NEW b \in Nat, a \div n < b \div n
    PROVE  a < b
  OBVIOUS

\* A day that is not before the rounded-up day of a time starts after it.
LEMMA RoundedUpDay ==
    ASSUME NEW n \in Nat \ {0}, NEW a \in Nat, NEW b \in Nat,
           (a + n - 1) \div n <= b \div n
    PROVE  a <= b
  <1>1. n * (b \div n) <= b /\ b \div n \in Nat
    OBVIOUS
  <1>2. a + n - 1 < n * ((a + n - 1) \div n) + n /\ (a + n - 1) \div n \in Nat
    OBVIOUS
  <1>3. n * ((a + n - 1) \div n) <= n * (b \div n)
    BY <1>1, <1>2
  <1> QED
    BY <1>1, <1>2, <1>3

\* A claimed day that starts and ends inside the epoch holds only covered facts;
\* the first epoch's day does by hypothesis.
LEMMA DayClaimCovers ==
    ASSUME HistoriesStartFirst, NEW tl \in Timelines, NEW e \in Events,
           NEW i \in DOMAIN tl, DayClaims(tl, e)[i]
    PROVE  Covers(tl[i], TimeOf[e])
  <1> USE LedgerAssumption
  <1> DEFINE from == tl[i].from
             to == tl[i].to
             t == TimeOf[e]
  <1>1. tl[i] \in Epoch
    BY ElementOfSeq, LenProperties
  <1>2. from \in Nat /\ to \in Nat /\ t \in Nat
    BY <1>1 DEF Epoch
  <1>3. FirstDay(tl, i) <= Day(t) /\ Day(t) < Day(to)
    BY DEF DayClaims, DaysOf
  <1>4. t < to
    BY <1>2, <1>3, EarlierDay DEF Day
  <1>5. from <= t
    <2>1. CASE i = 1
      <3>1. Day(from) <= Day(t)
        BY <1>3, <2>1 DEF FirstDay
      <3>2. CASE Day(from) = Day(t)
        BY <2>1, <3>2 DEF HistoriesStartFirst
      <3>3. CASE Day(from) # Day(t)
        <4>1. Day(from) \in Nat /\ Day(t) \in Nat
          <5>1. \A a \in Nat, n \in Nat \ {0} : a \div n \in Nat
            OBVIOUS
          <5> QED
            BY <1>2, <5>1 DEF Day
        <4>2. Day(from) < Day(t)
          <5> HIDE DEF from, t
          <5> QED
            BY <3>1, <3>3, <4>1
        <4> QED
          BY <1>2, <4>2, EarlierDay DEF Day
      <3> QED
        BY <3>2, <3>3
    <2>2. CASE i # 1
      <3>1. CeilDay(from) <= Day(t)
        BY <1>3, <2>2 DEF FirstDay
      <3> QED
        BY <1>2, <3>1, RoundedUpDay DEF CeilDay, Day
    <2> QED
      BY <2>1, <2>2
  <1> QED
    BY <1>4, <1>5 DEF Covers

\* History moves the rollup row of a raw fact only if it moves the fact.
LEMMA HistoryKeeps ==
    ASSUME HistoriesStartFirst, IInv, TypeOK', NEW tl \in Timelines,
           ReplaceHistoricalAuthEpochs(tl)
    PROVE  IInv'
  <1> USE LedgerAssumption
  <1> DEFINE new(e) == HistoryRow(tl, e)
             rows(e) == RewrittenRows(e, daily[e], new(e))
  <1>1. TypeOK
    BY DEF IInv
  <1>2. \A e \in Events : /\ raw'[e] = new(e)
                          /\ daily'[e] = ClaimedRows(rows(e), tl, DayClaims(tl, e))
    BY DEF ReplaceHistoricalAuthEpochs
  <1>3. \A e \in Events : /\ new(e) \in RawRow \cup {Absent}
                          /\ IsRaw(e) <=> new(e) # Absent
                          /\ IsRaw(e) <=> IsRaw(e)'
    BY <1>1, <1>2, HistoryRowType DEF IsRaw
  <1>4. \A e \in Events : rows(e) \in Seq(RowKey)
    BY <1>1, <1>3, RewrittenRowsType DEF TypeOK
  <1>5. \A e \in Events : Len(daily'[e]) = Len(rows(e))
    BY <1>2, <1>4, ClaimedRowsType
  <1>6. \A e \in Events : ~IsRaw(e) => rows(e) = daily[e]
    BY <1>3 DEF RewrittenRows, IsRaw
  <1>7. ASSUME NEW e \in Events, IsRaw(e), daily[e] = <<KeyOf(raw[e])>>
        PROVE  Len(daily'[e]) = 1
    <2>0. new(e) \in RawRow /\ daily[e] \in Seq(RowKey)
      BY <1>1, <1>3, <1>7 DEF TypeOK
    <2>1. rows(e) = <<KeyOf(new(e))>>
      BY <1>1, <1>7, <2>0, RewrittenFollows
    <2>2. Len(<<KeyOf(new(e))>>) = 1
      OBVIOUS
    <2> QED
      BY <1>5, <2>1, <2>2
  <1>8. ASSUME NEW e \in Events, IsRaw(e), Has(daily[e], KeyOf(raw[e]))
        PROVE  Has(daily'[e], KeyOf(raw'[e]))
    <2>1. Has(rows(e), KeyOf(new(e)))
      BY <1>1, <1>3, <1>8, RewrittenFollows DEF TypeOK
    <2>2. ClaimRow(KeyOf(new(e)), tl, DayClaims(tl, e)) = KeyOf(new(e))
      <3>1. CASE new(e).acct # NoAccount
        BY <3>1 DEF ClaimRow, KeyOf
      <3>2. CASE new(e).acct = NoAccount
        <4>1. raw[e] \in RawRow
          BY <1>1, <1>8, RawType
        <4>2. ~Covered(tl, TimeOf[e])
          <5> SUFFICES ASSUME Covered(tl, TimeOf[e]) PROVE FALSE
            OBVIOUS
          <5>1. EpochAt(tl, TimeOf[e]).acct \in Accounts
            BY EpochAtType
          <5> QED
            BY <1>8, <3>2, <4>1, <5>1 DEF HistoryRow, RawRow
        <4>3. \A i \in DOMAIN tl : ~DayClaims(tl, e)[i]
          BY <4>2, DayClaimCovers DEF Covered
        <4> QED
          BY <4>3 DEF ClaimRow
      <3> QED
        BY <3>1, <3>2
    <2>3. Has(daily'[e], KeyOf(raw'[e]))
      <3>1. PICK i \in DOMAIN rows(e) : rows(e)[i] = KeyOf(new(e))
        BY <2>1 DEF Has
      <3>2. daily'[e] = [j \in DOMAIN rows(e) |->
                            ClaimRow(rows(e)[j], tl, DayClaims(tl, e))]
        BY <1>2 DEF ClaimedRows
      <3>3. i \in DOMAIN daily'[e] /\ daily'[e][i] = KeyOf(new(e))
        BY <2>2, <3>1, <3>2
      <3> QED
        BY <1>2, <3>3 DEF Has
    <2> QED
      BY <2>3
  <1>9. UNCHANGED <<keys, backfilled, complete, verified, cursor, retainSince>>
    BY DEF ReplaceHistoricalAuthEpochs
  <1> QED
    BY <1>3, <1>5, <1>6, <1>7, <1>8, <1>9, RewriteKeeps

\* Every transaction keeps the inductive invariant.
LEMMA NextIInv ==
    ASSUME LogsKept, HistoriesStartFirst
    PROVE  IInv /\ [Next]_vars => IInv'
  <1> SUFFICES ASSUME IInv, [Next]_vars PROVE IInv'
    OBVIOUS
  <1>1. TypeOK'
    BY NextType DEF IInv
  <1>2. ASSUME NEW e \in Events, IngestSample(e) \/ IngestRollout(e) PROVE IInv'
    BY <1>1, <1>2, SampleKeeps, RolloutKeeps
  <1>3. ASSUME NEW source \in Sources, LoseCursor(source) PROVE IInv'
    <2>1. cursor'["logs"] = cursor["logs"]
      BY <1>3 DEF LoseCursor, LogsKept, IInv, TypeOK, Sources
    <2>2. retainSince' >= retainSince
      BY <1>3 DEF LoseCursor, IInv, TypeOK
    <2> QED
      BY <1>1, <1>3, <2>1, <2>2, StutterKeeps DEF LoseCursor
  <1>4. CASE BackfillRollupChunk
    BY <1>1, <1>4, BackfillKeeps
  <1>5. CASE VerifyRollup
    BY <1>1, <1>5, VerifyKeeps
  <1>6. CASE CompactRawEventsChunk
    BY <1>1, <1>6, CompactKeeps
  <1>7. CASE AdvanceRetention
    <2>1. retainSince' >= retainSince
      BY <1>7, LedgerAssumption DEF AdvanceRetention, IInv, TypeOK
    <2> QED
      BY <1>1, <1>7, <2>1, StutterKeeps DEF AdvanceRetention
  <1>8. ASSUME NEW t \in Threads, NEW p \in Projects, AssignNativeProject(t, p) PROVE IInv'
    <2>1. retainSince' >= retainSince
      BY <1>8 DEF AssignNativeProject, IInv, TypeOK
    <2> QED
      BY <1>1, <1>8, <2>1, StutterKeeps DEF AssignNativeProject
  <1>9. CASE SyncNativeCatalog
    <2>1. retainSince' >= retainSince
      BY <1>9 DEF SyncNativeCatalog, IInv, TypeOK
    <2> QED
      BY <1>1, <1>9, <2>1, StutterKeeps DEF SyncNativeCatalog
  <1>10. CASE ReprojectUsageFromCatalog
    BY <1>1, <1>10, ReprojectKeeps
  <1>11. ASSUME NEW from \in Accounts, NEW to \in Accounts,
                RemapAccountFingerprint(from, to)
         PROVE  IInv'
    BY <1>1, <1>11, RemapKeeps
  <1>12. ASSUME NEW tl \in Timelines, ReplaceHistoricalAuthEpochs(tl) PROVE IInv'
    BY <1>1, <1>12, HistoryKeeps
  <1>13. CASE UNCHANGED vars
    <2>1. retainSince' >= retainSince
      BY <1>13 DEF vars, IInv, TypeOK
    <2> QED
      BY <1>1, <1>13, <2>1, StutterKeeps DEF vars
  <1> QED
    BY <1>2, <1>3, <1>4, <1>5, <1>6, <1>7, <1>8, <1>9, <1>10, <1>11, <1>12,
       <1>13 DEF Next

-----------------------------------------------------------------------------
(* What follows for every behaviour.                                       *)

\* The inductive invariant is an invariant.
LEMMA Invariance ==
    ASSUME LogsKept, HistoriesStartFirst
    PROVE  Spec => []IInv
  <1>1. IInv /\ [Next]_vars => IInv'
    BY NextIInv
  <1> QED
    BY InitIInv, <1>1, PTL DEF Spec

\* Every fact the verified ledger knows is added up once.
THEOREM FactsCountedOnce ==
    ASSUME LogsKept, HistoriesStartFirst
    PROVE  Spec => []CountedOnce
  <1>1. IInv => CountedOnce
    <2> SUFFICES ASSUME IInv, verified, NEW e \in Events
                 PROVE  Len(daily[e]) = IF Stored(e) THEN 1 ELSE 0
      BY DEF CountedOnce
    <2>1. Exact(e)
      BY DEF IInv, SettledExact, Settled
    <2>2. Len(<<KeyOf(raw[e])>>) = 1 /\ Len(<< >>) = 0
      OBVIOUS
    <2> QED
      BY <2>1, <2>2 DEF Exact, Stored
  <1> QED
    BY <1>1, Invariance, PTL

\* The triggers find the row of every raw fact.
THEOREM RowsOfRawFactsFound ==
    ASSUME LogsKept, HistoriesStartFirst
    PROVE  Spec => []RawRowsFound
  <1>1. IInv => RawRowsFound
    BY DEF RawRowsFound, IInv, SettledExact, Settled, Exact
  <1> QED
    BY <1>1, Invariance, PTL

\* Only compaction makes a raw fact absent.
LEMMA OnlyCompactionForgets ==
    ASSUME IInv, [Next]_vars, NEW e \in Events, IsRaw(e), raw'[e] = Absent
    PROVE  CompactRawEventsChunk
  <1> USE LedgerAssumption
  <1>1. TypeOK
    BY DEF IInv
  <1>2. ASSUME NEW f \in Events, NEW row \in RawRow, UpsertEvent(f, row) PROVE FALSE
    <2>1. raw' = [raw EXCEPT ![f] = row] /\ row # Absent
      BY <1>2, KeyOfType DEF UpsertEvent
    <2> QED
      BY <1>1, <2>1 DEF IsRaw, TypeOK
  <1>3. raw' # raw
    BY DEF IsRaw
  <1>4. ASSUME NEW f \in Events, IngestSample(f) \/ IngestRollout(f) PROVE FALSE
    <2>1. \A row \in RowsFor(f) : row \in RawRow
      BY <1>1, RowsForType
    <2> QED
      BY <1>2, <1>3, <1>4, <2>1 DEF IngestSample, IngestRollout, InsertCompacted
  <1>6. ASSUME NEW from \in Accounts, NEW to \in Accounts,
               RemapAccountFingerprint(from, to)
        PROVE  FALSE
    BY <1>1, <1>6, RemapRowType DEF RemapAccountFingerprint
  <1>7. ASSUME NEW tl \in Timelines, ReplaceHistoricalAuthEpochs(tl) PROVE FALSE
    BY <1>1, <1>7, HistoryRowType DEF ReplaceHistoricalAuthEpochs
  <1>5. ReprojectUsageFromCatalog => FALSE
    BY <1>1, ReprojectRowType DEF ReprojectUsageFromCatalog
  <1> QED
    BY <1>3, <1>4, <1>5, <1>6, <1>7
       DEF Next, vars, LoseCursor, BackfillRollupChunk, VerifyRollup, AdvanceRetention,
           AssignNativeProject, SyncNativeCatalog

\* Raw detail goes only for a fact counted once, and its replay key stays.
THEOREM CompactionIsLossless ==
    ASSUME LogsKept, HistoriesStartFirst
    PROVE  Spec => CompactionLosesNothing
  <1> DEFINE Lossless == \A e \in Events :
                 IsRaw(e) /\ raw'[e] = Absent =>
                     /\ e \in keys'
                     /\ Len(daily[e]) = 1
                     /\ daily'[e] = daily[e]
  <1>1. IInv /\ [Next]_vars => Lossless
    <2> SUFFICES ASSUME IInv, [Next]_vars, NEW e \in Events, IsRaw(e), raw'[e] = Absent
                 PROVE  e \in keys' /\ Len(daily[e]) = 1 /\ daily'[e] = daily[e]
      OBVIOUS
    <2>1. CompactRawEventsChunk
      BY OnlyCompactionForgets
    <2>2. verified /\ daily' = daily
      BY <2>1 DEF CompactRawEventsChunk
    <2>3. PICK chunk \in SUBSET Expired :
              /\ keys' = keys \cup chunk
              /\ raw' = [f \in Events |-> IF f \in chunk THEN Absent ELSE raw[f]]
      BY <2>1 DEF CompactRawEventsChunk
    <2>4. e \in chunk
      BY <2>3 DEF IsRaw
    <2>5. daily[e] = <<KeyOf(raw[e])>>
      BY <2>2 DEF IInv, SettledExact, Settled, Exact
    <2>6. Len(<<KeyOf(raw[e])>>) = 1
      OBVIOUS
    <2> QED
      BY <2>2, <2>3, <2>4, <2>5, <2>6
  <1>2. Lossless => [Lossless]_vars
    OBVIOUS
  <1> QED
    BY <1>1, Invariance, PTL DEF Spec, CompactionLosesNothing

\* No fact changes how often it is counted.
THEOREM TotalsKept ==
    ASSUME LogsKept, HistoriesStartFirst
    PROVE  Spec => TotalsUnchanged
  <1> DEFINE Kept == verified => \A e \in Events : Stored(e) => Len(daily'[e]) = Len(daily[e])
  <1>1. IInv /\ IInv' /\ [Next]_vars => Kept
    <2> SUFFICES ASSUME IInv, IInv', [Next]_vars, verified, NEW e \in Events, Stored(e)
                 PROVE  Len(daily'[e]) = Len(daily[e])
      OBVIOUS
    <2>1. verified' /\ keys \subseteq keys'
      BY DEF Next, vars, IngestSample, IngestRollout, InsertCompacted, LoseCursor,
             BackfillRollupChunk, VerifyRollup, CompactRawEventsChunk, AdvanceRetention,
             AssignNativeProject, SyncNativeCatalog, ReprojectUsageFromCatalog,
             RemapAccountFingerprint, ReplaceHistoricalAuthEpochs
    <2>2. Stored(e)'
      <3>1. CASE e \in keys
        BY <2>1, <3>1 DEF Stored
      <3>2. CASE IsRaw(e) /\ raw'[e] = Absent
        <4>1. CompactRawEventsChunk
          BY <3>2, OnlyCompactionForgets
        <4> QED
          BY <3>2, <4>1 DEF CompactRawEventsChunk, IsRaw, Stored
      <3>3. CASE IsRaw(e) /\ raw'[e] # Absent
        BY <3>3 DEF IsRaw, Stored
      <3> QED
        BY <3>1, <3>2, <3>3 DEF Stored
    <2>3. Exact(e) /\ Exact(e)'
      BY <2>1 DEF IInv, SettledExact, Settled
    <2>4. \A key : Len(<<key>>) = 1
      OBVIOUS
    <2>5. Len(daily[e]) = 1
      BY <2>3, <2>4 DEF Exact, Stored
    <2>6. Len(daily'[e]) = 1
      BY <2>2, <2>3, <2>4 DEF Exact, Stored
    <2> QED
      BY <2>5, <2>6
  <1> QED
    BY <1>1, Invariance, PTL DEF Spec, TotalsUnchanged
-----------------------------------------------------------------------------
(* Accounts of rows.                                                       *)

\* A fact of a verified ledger has one daily row, and if it is raw, the row that its
\* own columns name.
LEMMA OnlyRow ==
    ASSUME IInv, verified, NEW e \in Events, Stored(e)
    PROVE  \E key \in RowKey :
              /\ daily[e] = <<key>>
              /\ IsRaw(e) => key = KeyOf(raw[e]) /\ raw[e] \in RawRow
<1>1. Exact(e) /\ daily[e] \in Seq(RowKey)
    BY DEF IInv, TypeOK, SettledExact, Settled
<1>2. CASE IsRaw(e)
    BY <1>1, <1>2, RawType DEF Exact, IInv
<1>3. CASE ~IsRaw(e)
  <2>1. Len(daily[e]) = 1
    BY <1>1, <1>3 DEF Exact, Stored
  <2>2. daily[e][1] \in RowKey /\ daily[e] = <<daily[e][1]>>
    BY <1>1, <2>1
  <2> QED
    BY <1>3, <2>2
<1> QED
    BY <1>2, <1>3

\* Reprojection changes no account.
LEMMA ReprojectedRow ==
    ASSUME IInv, verified, NEW e \in Events, Stored(e), ReprojectUsageFromCatalog
    PROVE  /\ Len(daily'[e]) = 1 /\ Len(daily[e]) = 1
           /\ daily'[e][1].acct = daily[e][1].acct
<1>1. PICK key \in RowKey : /\ daily[e] = <<key>>
                            /\ IsRaw(e) => key = KeyOf(raw[e]) /\ raw[e] \in RawRow
    BY OnlyRow
<1> DEFINE row == ReprojectRow(e, raw[e])
           moved == IF row = raw[e] THEN <<key>> ELSE TriggerUpdate(<<key>>, KeyOf(raw[e]), KeyOf(row))
<1>2. daily'[e] = [i \in DOMAIN moved |-> Reproject(e, moved[i])]
    BY <1>1 DEF ReprojectUsageFromCatalog, ReprojectedRows
<1>3. \E new \in RowKey : moved = <<new>> /\ new.acct = key.acct
  <2>1. CASE row = raw[e]
    BY <2>1
  <2>2. CASE row # raw[e]
    <3>1. IsRaw(e) /\ row \in RawRow /\ row.acct = raw[e].acct
      BY <1>1, <2>2, ReprojectRowType DEF ReprojectRow, IInv, IsRaw, RawRow
    <3>2. moved = <<KeyOf(row)>> /\ KeyOf(row) \in RowKey
      BY <1>1, <2>2, <3>1, KeyOfType, TriggerUpdateSingle
    <3> QED
      BY <1>1, <3>1, <3>2 DEF KeyOf
  <2> QED
    BY <2>1, <2>2
<1>4. PICK new \in RowKey : moved = <<new>> /\ new.acct = key.acct
    BY <1>3
<1>5. daily'[e] = <<Reproject(e, new)>>
  <2>1. moved = <<new>>
    BY <1>4
  <2> HIDE DEF moved
  <2> QED
    BY <1>2, <2>1
<1>6. Reproject(e, new).acct = new.acct
    BY DEF Reproject, RowKey
<1> QED
    BY <1>1, <1>4, <1>5, <1>6

\* A merge moves the row of a fact only from the account it absorbs.
LEMMA RemappedRow ==
    ASSUME IInv, verified, NEW e \in Events, Stored(e),
           NEW from \in Accounts, NEW to \in Accounts, RemapAccountFingerprint(from, to)
    PROVE  /\ Len(daily'[e]) = 1 /\ Len(daily[e]) = 1
           /\ daily'[e][1].acct = IF daily[e][1].acct = from THEN to ELSE daily[e][1].acct
<1>1. PICK key \in RowKey : /\ daily[e] = <<key>>
                            /\ IsRaw(e) => key = KeyOf(raw[e]) /\ raw[e] \in RawRow
    BY OnlyRow
<1> DEFINE row == RemapRow(raw[e], from, to)
           moved == RewrittenRows(e, <<key>>, row)
<1>2. daily'[e] = [i \in DOMAIN moved |-> MoveAccount(moved[i], from, to)]
    BY <1>1 DEF RemapAccountFingerprint, MovedRows
<1>3. from # to
    BY DEF RemapAccountFingerprint
<1>4. \E new \in RowKey : moved = <<new>> /\ MoveAccount(new, from, to).acct =
                             IF key.acct = from THEN to ELSE key.acct
  <2>1. CASE row = raw[e]
    BY <2>1 DEF RewrittenRows, MoveAccount, RowKey
  <2>2. CASE row # raw[e]
    <3>1. /\ raw[e].acct = from /\ IsRaw(e) /\ row \in RawRow
          /\ row = [raw[e] EXCEPT !.acct = to] /\ raw[e] \in RawRow
      <4>1. raw[e].acct = from
        BY <2>2 DEF RemapRow
      <4>2. IsRaw(e)
        BY <4>1, LedgerAssumption DEF IsRaw, Absent
      <4> QED
        BY <1>1, <4>1, <4>2, RemapRowType DEF RemapRow, IInv, IsRaw
    <3>2. moved = <<KeyOf(row)>> /\ KeyOf(row) \in RowKey
      BY <1>1, <2>2, <3>1, KeyOfType, TriggerUpdateSingle DEF RewrittenRows
    <3>3. row.acct = to
      BY <3>1 DEF RawRow
    <3>4. key.acct = from /\ KeyOf(row).acct = to
      BY <1>1, <3>1, <3>3 DEF KeyOf
    <3>5. MoveAccount(KeyOf(row), from, to) = KeyOf(row)
      BY <1>3, <3>4 DEF MoveAccount
    <3> QED
      BY <3>2, <3>4, <3>5
  <2> QED
    BY <2>1, <2>2
<1>5. PICK new \in RowKey : moved = <<new>> /\ MoveAccount(new, from, to).acct =
                               IF key.acct = from THEN to ELSE key.acct
    BY <1>4
<1>6. daily'[e] = <<MoveAccount(new, from, to)>>
  <2>1. moved = <<new>>
    BY <1>5
  <2> HIDE DEF moved
  <2> QED
    BY <1>2, <2>1
<1> QED
    BY <1>1, <1>5, <1>6

\* History gives an unassigned fact the account of the epoch that covers it, and
\* leaves a fact that has an account with it.
LEMMA HistoryRowAccount ==
    ASSUME TypeOK, NEW e \in Events, NEW tl \in Timelines, IsRaw(e)
    PROVE  /\ HistoryRow(tl, e) \in RawRow
           /\ raw[e].acct # NoAccount => HistoryRow(tl, e) = raw[e]
           /\ HistoryRow(tl, e).acct = NoAccount => ~Covered(tl, TimeOf[e])
           /\ raw[e].acct = NoAccount /\ HistoryRow(tl, e).acct # NoAccount =>
                 LoggedIn(tl, HistoryRow(tl, e).acct, TimeOf[e])
<1>1. raw[e] \in RawRow /\ HistoryRow(tl, e) \in RawRow
    BY RawType, HistoryRowType DEF IsRaw
<1>2. tl \in Seq(Epoch)
    BY LedgerAssumption
<1>3. CASE raw[e].acct = NoAccount /\ Covered(tl, TimeOf[e])
  <2>1. EpochAt(tl, TimeOf[e]).acct \in Accounts
    BY <1>2, <1>3, EpochAtType
  <2>2. HistoryRow(tl, e).acct = EpochAt(tl, TimeOf[e]).acct
    BY <1>1, <1>3 DEF HistoryRow, RawRow
  <2>3. LoggedIn(tl, EpochAt(tl, TimeOf[e]).acct, TimeOf[e])
    BY <1>3 DEF Covered, EpochAt, LoggedIn
  <2> QED
    BY <1>1, <1>3, <2>1, <2>2, <2>3, LedgerAssumption
<1>4. CASE ~(raw[e].acct = NoAccount /\ Covered(tl, TimeOf[e]))
    BY <1>1, <1>4 DEF HistoryRow
<1> QED
    BY <1>3, <1>4

\* What a claim makes of a row: nothing if it has an account; if it has none, the
\* account of an epoch that covers the fact.
LEMMA ClaimedAccount ==
    ASSUME NEW e \in Events, NEW tl \in Timelines, NEW claims,
           \A i \in DOMAIN tl : claims[i] => Covers(tl[i], TimeOf[e]),
           NEW key \in RowKey
    PROVE  /\ key.acct # NoAccount => ClaimRow(key, tl, claims) = key
           /\ ~Covered(tl, TimeOf[e]) => ClaimRow(key, tl, claims) = key
           /\ ClaimRow(key, tl, claims).acct # key.acct =>
                 LoggedIn(tl, ClaimRow(key, tl, claims).acct, TimeOf[e])
<1>1. CASE key.acct = NoAccount /\ \E i \in DOMAIN tl : claims[i]
  <2> DEFINE i == CHOOSE j \in DOMAIN tl : claims[j]
  <2>1. i \in DOMAIN tl /\ claims[i]
    BY <1>1
  <2>2. ClaimRow(key, tl, claims).acct = tl[i].acct
    BY <1>1 DEF ClaimRow, RowKey
  <2> HIDE DEF i
  <2>3. Covers(tl[i], TimeOf[e])
    BY <2>1
  <2> QED
    BY <1>1, <2>1, <2>2, <2>3 DEF LoggedIn, Covered
<1>2. CASE ~(key.acct = NoAccount /\ \E i \in DOMAIN tl : claims[i])
    BY <1>2 DEF ClaimRow
<1> QED
    BY <1>1, <1>2

\* An hour that starts and ends inside an epoch holds only covered facts.
LEMMA HourClaimCovers ==
    ASSUME NEW tl \in Timelines, NEW e \in Events,
           NEW i \in DOMAIN tl, HourClaims(tl, e)[i]
    PROVE  Covers(tl[i], TimeOf[e])
<1> USE LedgerAssumption
<1> DEFINE from == tl[i].from
           to == tl[i].to
           t == TimeOf[e]
<1>1. tl[i] \in Epoch
    BY ElementOfSeq, LenProperties
<1>2. from \in Nat /\ to \in Nat /\ t \in Nat
    BY <1>1 DEF Epoch
<1>3. CeilHour(from) <= Hour(t) /\ Hour(t) < Hour(to)
    BY DEF HourClaims, HoursOf
<1>4. t < to
    BY <1>2, <1>3, EarlierDay DEF Hour
<1>5. from <= t
    BY <1>2, <1>3, RoundedUpDay DEF CeilHour, Hour
<1> QED
    BY <1>4, <1>5 DEF Covers

\* What a history makes of a rollup in which a raw fact has its own row only: the
\* raw fact keeps its own row, rows that have an account keep it, and rows that
\* get one get that of an epoch that covers the fact.
LEMMA ClaimedHistory ==
    ASSUME TypeOK, NEW e \in Events, NEW tl \in Timelines, NEW claims,
           \A i \in DOMAIN tl : claims[i] => Covers(tl[i], TimeOf[e]),
           NEW rows \in Seq(RowKey), IsRaw(e) => rows = <<KeyOf(raw[e])>>,
           NEW after, after = ClaimedRows(RewrittenRows(e, rows, HistoryRow(tl, e)), tl, claims)
    PROVE  /\ IsRaw(e) => after = <<KeyOf(HistoryRow(tl, e))>>
           /\ \A i \in DOMAIN rows : rows[i].acct # NoAccount => after[i] = rows[i]
           /\ \A i \in DOMAIN rows : HandedOver(rows, after, i) =>
                 LoggedIn(tl, after[i].acct, TimeOf[e])
<1> DEFINE new == HistoryRow(tl, e)
<1>1. CASE IsRaw(e)
  <2>1. /\ raw[e] \in RawRow /\ new \in RawRow
        /\ raw[e].acct # NoAccount => new = raw[e]
        /\ new.acct = NoAccount => ~Covered(tl, TimeOf[e])
        /\ raw[e].acct = NoAccount /\ new.acct # NoAccount => LoggedIn(tl, new.acct, TimeOf[e])
    BY <1>1, RawType, HistoryRowAccount
  <2> HIDE DEF new
  <2>2. RewrittenRows(e, rows, new) = <<KeyOf(new)>> /\ KeyOf(new) \in RowKey
    BY <1>1, <2>1, RewrittenFollows, KeyOfType
  <2>3. ClaimRow(KeyOf(new), tl, claims) = KeyOf(new)
    <3>1. KeyOf(new).acct = new.acct
      BY DEF KeyOf
    <3> QED
      BY <2>1, <2>2, <3>1, ClaimedAccount
  <2>4. after = <<KeyOf(new)>>
    <3>1. after = ClaimedRows(<<KeyOf(new)>>, tl, claims)
      BY <2>2 DEF new
    <3> QED
      BY <2>3, <3>1 DEF ClaimedRows
  <2>5. rows = <<KeyOf(raw[e])>> /\ KeyOf(raw[e]).acct = raw[e].acct /\ KeyOf(new).acct = new.acct
    BY <1>1 DEF KeyOf
  <2>6. \A i \in DOMAIN rows : rows[i] = KeyOf(raw[e]) /\ after[i] = KeyOf(new)
    BY <2>4, <2>5
  <2>7. after = <<KeyOf(HistoryRow(tl, e))>>
    BY <2>4 DEF new
  <2> QED
    BY <1>1, <2>1, <2>5, <2>6, <2>7 DEF HandedOver
<1>2. CASE ~IsRaw(e)
  <2>1. RewrittenRows(e, rows, new) = rows
    BY <1>2 DEF RewrittenRows, HistoryRow
  <2>2. after = [i \in DOMAIN rows |-> ClaimRow(rows[i], tl, claims)]
    BY <2>1 DEF ClaimedRows
  <2>3. ASSUME NEW i \in DOMAIN rows
        PROVE  /\ rows[i].acct # NoAccount => after[i] = rows[i]
               /\ HandedOver(rows, after, i) => LoggedIn(tl, after[i].acct, TimeOf[e])
    <3>1. rows[i] \in RowKey
      BY ElementOfSeq, LenProperties
    <3> DEFINE key == rows[i]
               claimed == ClaimRow(key, tl, claims)
    <3>2. after[i] = claimed
      BY <2>2
    <3>3. /\ key.acct # NoAccount => claimed = key
          /\ claimed.acct # key.acct => LoggedIn(tl, claimed.acct, TimeOf[e])
      BY <3>1, ClaimedAccount
    <3> QED
      BY <3>2, <3>3 DEF HandedOver
  <2> QED
    BY <1>2, <2>3
<1> QED
    BY <1>1, <1>2

\* The hourly rollup of a raw fact is its own row, before and after verification;
\* one that was compacted on arrival has none.
HourlyExact ==
    \A e \in Events :
        /\ IsRaw(e) => hourly[e] = <<KeyOf(raw[e])>>
        /\ ~Stored(e) => hourly[e] = << >>

\* What a history does to the hourly rows: a raw fact keeps its own, and the row of
\* a compacted one goes to an account only if its epoch covers the fact.
LEMMA HistoryHours ==
    ASSUME TypeOK, HourlyExact, NEW e \in Events, NEW tl \in Timelines,
           ReplaceHistoricalAuthEpochs(tl)
    PROVE  /\ IsRaw(e) => hourly'[e] = <<KeyOf(HistoryRow(tl, e))>>
           /\ \A i \in DOMAIN hourly[e] : HandedOver(hourly[e], hourly'[e], i) =>
                 LoggedIn(tl, hourly'[e][i].acct, TimeOf[e])
<1> DEFINE rows == hourly[e]
           after == hourly'[e]
           claims == HourClaims(tl, e)
<1>1. rows \in Seq(RowKey)
    BY DEF TypeOK
<1>2. IsRaw(e) => rows = <<KeyOf(raw[e])>>
    BY DEF HourlyExact
<1>3. after = ClaimedRows(RewrittenRows(e, rows, HistoryRow(tl, e)), tl, claims)
    BY DEF ReplaceHistoricalAuthEpochs
<1>4. \A i \in DOMAIN tl : claims[i] => Covers(tl[i], TimeOf[e])
    BY HourClaimCovers
<1> HIDE DEF rows, after, claims
<1>5. /\ IsRaw(e) => after = <<KeyOf(HistoryRow(tl, e))>>
      /\ \A i \in DOMAIN rows : HandedOver(rows, after, i) => LoggedIn(tl, after[i].acct, TimeOf[e])
    BY <1>1, <1>2, <1>3, <1>4, ClaimedHistory
<1> QED
    BY <1>5 DEF rows, after

\* One upsert of a fact without a key: its hour holds its own row and no other.
LEMMA UpsertedHour ==
    ASSUME IInv, HourlyExact, NEW e \in Events, NEW row \in RawRow,
           UpsertEvent(e, row), e \notin keys, keys' = keys
    PROVE  HourlyExact'
<1>1. \A f \in Events \ {e} : raw'[f] = raw[f] /\ hourly'[f] = hourly[f]
    BY DEF UpsertEvent, IInv, TypeOK
<1>2. raw'[e] = row /\ hourly'[e] = RowsAfterUpsert(hourly[e], e, row)
    BY DEF UpsertEvent, IInv, TypeOK
<1>3. KeyOf(row) \in RowKey /\ row # Absent
    BY KeyOfType
<1>4. hourly'[e] = <<KeyOf(row)>>
  <2>1. CASE IsRaw(e)
    <3>1. hourly[e] = <<KeyOf(raw[e])>> /\ KeyOf(raw[e]) \in RowKey
      BY <2>1, RawType DEF HourlyExact, IInv
    <3> QED
      BY <1>2, <1>3, <2>1, <3>1, TriggerUpdateSingle DEF RowsAfterUpsert
  <2>2. CASE ~IsRaw(e)
    <3>1. hourly[e] = << >>
      BY <2>2 DEF HourlyExact, Stored
    <3>2. Append(<< >>, KeyOf(row)) = <<KeyOf(row)>>
      OBVIOUS
    <3> QED
      BY <1>2, <2>2, <3>1, <3>2 DEF RowsAfterUpsert, TriggerInsert
  <2> QED
    BY <2>1, <2>2
<1> SUFFICES ASSUME NEW f \in Events
             PROVE  /\ raw'[f] # Absent => hourly'[f] = <<KeyOf(raw'[f])>>
                    /\ raw'[f] = Absent /\ f \notin keys => hourly'[f] = << >>
    BY DEF HourlyExact, Stored, IsRaw
<1>5. CASE f = e
    BY <1>2, <1>3, <1>4, <1>5
<1>6. CASE f # e
    BY <1>1, <1>6 DEF HourlyExact, Stored, IsRaw
<1> QED
    BY <1>5, <1>6

\* Every transaction keeps the hours of raw facts.
LEMMA HourlyKept ==
    ASSUME IInv, HourlyExact, [Next]_vars
    PROVE  HourlyExact'
<1> USE LedgerAssumption
<1>1. TypeOK
    BY DEF IInv
<1>2. ASSUME NEW e \in Events, IngestSample(e) PROVE HourlyExact'
  <2>1. PICK row \in RowsFor(e) : UpsertEvent(e, row)
    BY <1>2 DEF IngestSample
  <2>2. row \in RawRow
    BY <1>1, RowsForType
  <2>3. e \notin keys /\ keys' = keys
    BY <1>2 DEF IngestSample, IInv, LogsAhead, Stored
  <2> QED
    BY <2>1, <2>2, <2>3, UpsertedHour
<1>3. ASSUME NEW e \in Events, IngestRollout(e) PROVE HourlyExact'
  <2>1. PICK row \in RowsFor(e) :
            IF TimeOf[e] >= retainSince \/ IsRaw(e)
            THEN UpsertEvent(e, row) /\ UNCHANGED keys
            ELSE e \notin keys /\ InsertCompacted(e, row)
    BY <1>3 DEF IngestRollout
  <2>2. row \in RawRow
    BY <1>1, RowsForType
  <2>3. CASE TimeOf[e] >= retainSince \/ IsRaw(e)
    <3>1. e \notin keys
      <4>1. CASE IsRaw(e)
        <5>1. Exact(e)
          BY <1>3 DEF IngestRollout, SourceOf, IInv, SettledExact, Settled
        <5> QED
          BY <4>1, <5>1 DEF Exact
      <4>2. CASE TimeOf[e] >= retainSince
        BY <4>2 DEF IInv, KeysExpired, TypeOK
      <4> QED
        BY <2>3, <4>1, <4>2
    <3> QED
      BY <2>1, <2>2, <2>3, <3>1, UpsertedHour
  <2>4. CASE ~(TimeOf[e] >= retainSince \/ IsRaw(e))
    <3>1. raw' = raw /\ hourly' = hourly /\ keys \subseteq keys'
      BY <2>1, <2>4 DEF InsertCompacted
    <3> QED
      BY <3>1 DEF HourlyExact, Stored, IsRaw
  <2> QED
    BY <2>3, <2>4
<1>4. CASE CompactRawEventsChunk
  <2>1. PICK chunk \in SUBSET Expired :
            /\ keys' = keys \cup chunk
            /\ raw' = [e \in Events |-> IF e \in chunk THEN Absent ELSE raw[e]]
    BY <1>4 DEF CompactRawEventsChunk
  <2>2. hourly' = hourly
    BY <1>4 DEF CompactRawEventsChunk
  <2> SUFFICES ASSUME NEW e \in Events
               PROVE  /\ raw'[e] # Absent => hourly[e] = <<KeyOf(raw'[e])>>
                      /\ raw'[e] = Absent /\ e \notin keys' => hourly[e] = << >>
    BY <2>2 DEF HourlyExact, Stored, IsRaw
  <2>3. CASE e \in chunk
    BY <2>1, <2>3
  <2>4. CASE e \notin chunk
    BY <2>1, <2>4 DEF HourlyExact, Stored, IsRaw
  <2> QED
    BY <2>3, <2>4
<1>5. CASE ReprojectUsageFromCatalog
  <2> SUFFICES ASSUME NEW e \in Events
               PROVE  /\ raw'[e] # Absent => hourly'[e] = <<KeyOf(raw'[e])>>
                      /\ raw'[e] = Absent /\ e \notin keys' => hourly'[e] = << >>
    BY DEF HourlyExact, Stored, IsRaw
  <2> DEFINE row == ReprojectRow(e, raw[e])
             moved == IF row = raw[e] THEN hourly[e]
                      ELSE TriggerUpdate(hourly[e], KeyOf(raw[e]), KeyOf(row))
  <2>1. /\ raw'[e] = row /\ keys' = keys
        /\ hourly'[e] = [i \in DOMAIN moved |-> Reproject(e, moved[i])]
    BY <1>5 DEF ReprojectUsageFromCatalog, ReprojectedRows
  <2>2. IsRaw(e) <=> row # Absent
    BY <1>1, ReprojectRowType
  <2>3. CASE IsRaw(e)
    <3>1. raw[e] \in RawRow /\ row \in RawRow /\ KeyOf(raw[e]) \in RowKey /\ KeyOf(row) \in RowKey
      BY <1>1, <2>2, <2>3, RawType, ReprojectRowType, KeyOfType
    <3>2. moved = <<KeyOf(row)>>
      BY <2>3, <3>1, TriggerUpdateSingle DEF HourlyExact
    <3>3. Reproject(e, KeyOf(row)) = KeyOf(row)
      <4>1. KeyOf(row).proj = row.proj
        BY DEF KeyOf
      <4>2. catalog[ThreadOf[e]] # NoProject => row.proj = catalog[ThreadOf[e]]
        BY <2>3, <3>1 DEF ReprojectRow, IsRaw, RawRow
      <4> QED
        BY <3>1, <4>1, <4>2 DEF Reproject, RowKey
    <3>4. hourly'[e] = <<KeyOf(row)>>
      <4> HIDE DEF moved
      <4> QED
        BY <2>1, <3>2, <3>3
    <3> QED
      BY <2>1, <2>2, <2>3, <3>4
  <2>4. CASE ~IsRaw(e)
    <3>1. row = raw[e] /\ moved = hourly[e]
      BY <2>4 DEF ReprojectRow, IsRaw
    <3>2. e \notin keys => hourly[e] = << >>
      BY <2>4 DEF HourlyExact, Stored
    <3>3. hourly[e] = << >> => hourly'[e] = << >>
      BY <2>1, <3>1
    <3> QED
      BY <2>1, <2>4, <3>1, <3>2, <3>3 DEF IsRaw
  <2> QED
    BY <2>3, <2>4
<1>6. ASSUME NEW from \in Accounts, NEW to \in Accounts, RemapAccountFingerprint(from, to)
      PROVE  HourlyExact'
  <2> SUFFICES ASSUME NEW e \in Events
               PROVE  /\ raw'[e] # Absent => hourly'[e] = <<KeyOf(raw'[e])>>
                      /\ raw'[e] = Absent /\ e \notin keys' => hourly'[e] = << >>
    BY DEF HourlyExact, Stored, IsRaw
  <2> DEFINE row == RemapRow(raw[e], from, to)
             moved == RewrittenRows(e, hourly[e], row)
  <2>1. /\ raw'[e] = row /\ keys' = keys /\ from # to
        /\ hourly'[e] = [i \in DOMAIN moved |-> MoveAccount(moved[i], from, to)]
    BY <1>6 DEF RemapAccountFingerprint, MovedRows
  <2>2. IsRaw(e) <=> row # Absent
    BY <1>1, RemapRowType
  <2>3. CASE IsRaw(e)
    <3>1. raw[e] \in RawRow /\ row \in RawRow /\ KeyOf(row) \in RowKey
      BY <1>1, <2>2, <2>3, RawType, RemapRowType, KeyOfType
    <3>2. moved = <<KeyOf(row)>>
      BY <1>1, <2>3, <3>1, RewrittenFollows DEF HourlyExact, TypeOK
    <3>3. MoveAccount(KeyOf(row), from, to) = KeyOf(row)
      <4>1. row.acct # from /\ KeyOf(row).acct = row.acct
        BY <2>1, <3>1 DEF RemapRow, KeyOf, RawRow
      <4> QED
        BY <4>1 DEF MoveAccount
    <3>4. hourly'[e] = <<KeyOf(row)>>
      <4> HIDE DEF moved
      <4> QED
        BY <2>1, <3>2, <3>3
    <3> QED
      BY <2>1, <2>2, <2>3, <3>4
  <2>4. CASE ~IsRaw(e)
    <3>1. row = raw[e] /\ moved = hourly[e]
      BY <2>4 DEF RemapRow, IsRaw, Absent, RewrittenRows
    <3>2. e \notin keys => hourly[e] = << >>
      BY <2>4 DEF HourlyExact, Stored
    <3>3. hourly[e] = << >> => hourly'[e] = << >>
      BY <2>1, <3>1
    <3> QED
      BY <2>1, <2>4, <3>1, <3>2, <3>3 DEF IsRaw
  <2> QED
    BY <2>3, <2>4
<1>7. ASSUME NEW tl \in Timelines, ReplaceHistoricalAuthEpochs(tl) PROVE HourlyExact'
  <2> SUFFICES ASSUME NEW e \in Events
               PROVE  /\ raw'[e] # Absent => hourly'[e] = <<KeyOf(raw'[e])>>
                      /\ raw'[e] = Absent /\ e \notin keys' => hourly'[e] = << >>
    BY DEF HourlyExact, Stored, IsRaw
  <2>1. /\ raw'[e] = HistoryRow(tl, e) /\ keys' = keys
        /\ hourly'[e] = ClaimedRows(RewrittenRows(e, hourly[e], HistoryRow(tl, e)), tl, HourClaims(tl, e))
    BY <1>7 DEF ReplaceHistoricalAuthEpochs
  <2>4. IsRaw(e) => hourly'[e] = <<KeyOf(HistoryRow(tl, e))>>
    BY <1>1, <1>7, HistoryHours
  <2>5. IsRaw(e) <=> HistoryRow(tl, e) # Absent
    BY <1>1, HistoryRowType
  <2>6. ASSUME ~IsRaw(e), e \notin keys PROVE hourly'[e] = << >>
    <3>1. hourly[e] = << >> /\ HistoryRow(tl, e) = raw[e]
      BY <2>6 DEF HourlyExact, Stored, HistoryRow
    <3> QED
      BY <2>1, <3>1 DEF RewrittenRows, ClaimedRows
  <2> QED
    BY <2>1, <2>4, <2>5, <2>6
<1>8. CASE UNCHANGED <<raw, keys, hourly>>
    BY <1>8 DEF HourlyExact, Stored, IsRaw
<1> QED
    BY <1>2, <1>3, <1>4, <1>5, <1>6, <1>7, <1>8
       DEF Next, vars, LoseCursor, BackfillRollupChunk, VerifyRollup, AdvanceRetention,
           AssignNativeProject, SyncNativeCatalog

\* A ledger begins with the hours of its raw facts.
LEMMA HourlyInit == Init => HourlyExact
BY DEF Init, HourlyExact, Stored

-----------------------------------------------------------------------------
(* What follows for accounts.                                              *)

\* A step of a verified ledger that reads no source changes rows of the rollups
\* only by reprojection, merge or history.
LEMMA RewritesOnly ==
    ASSUME IInv, [Next]_vars, verified, cursor' = cursor
    PROVE  \/ ReprojectUsageFromCatalog
           \/ \E from, to \in Accounts : RemapAccountFingerprint(from, to)
           \/ \E tl \in Timelines : ReplaceHistoricalAuthEpochs(tl)
           \/ daily' = daily /\ hourly' = hourly
<1>1. ASSUME NEW e \in Events, IngestSample(e) \/ IngestRollout(e) PROVE FALSE
  <2>1. cursor \in [Sources -> Nat] /\ e \in Nat
    BY LedgerAssumption DEF IInv, TypeOK
  <2>2. \/ e > cursor["logs"] /\ cursor' = [cursor EXCEPT !["logs"] = e]
        \/ e > cursor["rollout"] /\ cursor' = [cursor EXCEPT !["rollout"] = e]
    BY <1>1 DEF IngestSample, IngestRollout
  <2>3. \/ e > cursor["logs"] /\ cursor["logs"] = e
        \/ e > cursor["rollout"] /\ cursor["rollout"] = e
    BY <2>1, <2>2 DEF Sources
  <2> QED
    BY <2>1, <2>3 DEF Sources
<1>2. ~BackfillRollupChunk
    BY DEF BackfillRollupChunk, IInv, PhasesOrdered
<1> QED
    BY <1>1, <1>2
       DEF Next, vars, LoseCursor, VerifyRollup, CompactRawEventsChunk, AdvanceRetention,
           AssignNativeProject, SyncNativeCatalog

\* What a history does to the daily rows of a verified ledger.
LEMMA HistoryDays ==
    ASSUME HistoriesStartFirst, IInv, verified, NEW e \in Events, Stored(e),
           NEW tl \in Timelines, ReplaceHistoricalAuthEpochs(tl)
    PROVE  /\ \A i \in DOMAIN daily[e] : daily[e][i].acct # NoAccount => daily'[e][i] = daily[e][i]
           /\ \A i \in DOMAIN daily[e] : HandedOver(daily[e], daily'[e], i) =>
                 LoggedIn(tl, daily'[e][i].acct, TimeOf[e])
<1> DEFINE rows == daily[e]
           after == daily'[e]
           claims == DayClaims(tl, e)
<1>1. TypeOK /\ rows \in Seq(RowKey)
    BY DEF IInv, TypeOK
<1>2. IsRaw(e) => rows = <<KeyOf(raw[e])>>
    BY OnlyRow
<1>3. after = ClaimedRows(RewrittenRows(e, rows, HistoryRow(tl, e)), tl, claims)
    BY DEF ReplaceHistoricalAuthEpochs
<1>4. \A i \in DOMAIN tl : claims[i] => Covers(tl[i], TimeOf[e])
    BY DayClaimCovers
<1> HIDE DEF rows, after, claims
<1>5. /\ \A i \in DOMAIN rows : rows[i].acct # NoAccount => after[i] = rows[i]
      /\ \A i \in DOMAIN rows : HandedOver(rows, after, i) =>
            LoggedIn(tl, after[i].acct, TimeOf[e])
    BY <1>1, <1>2, <1>3, <1>4, ClaimedHistory
<1> QED
    BY <1>5 DEF rows, after

\* No other rewrite hands an hour over: a raw fact's row follows the fact, and the
\* row of a compacted one changes its project or its account, if it has one.
LEMMA OtherHours ==
    ASSUME IInv, HourlyExact, NEW e \in Events,
           \/ ReprojectUsageFromCatalog
           \/ \E from, to \in Accounts : RemapAccountFingerprint(from, to)
    PROVE  \A i \in DOMAIN hourly[e] : ~HandedOver(hourly[e], hourly'[e], i)
<1>1. TypeOK /\ hourly[e] \in Seq(RowKey)
    BY DEF IInv, TypeOK
<1>2. ASSUME NEW i \in DOMAIN hourly[e] PROVE hourly[e][i] \in RowKey
    BY <1>1, ElementOfSeq, LenProperties
<1>3. CASE ReprojectUsageFromCatalog
  <2> DEFINE row == ReprojectRow(e, raw[e])
             moved == IF row = raw[e] THEN hourly[e]
                      ELSE TriggerUpdate(hourly[e], KeyOf(raw[e]), KeyOf(row))
  <2>1. hourly'[e] = [i \in DOMAIN moved |-> Reproject(e, moved[i])]
    BY <1>3 DEF ReprojectUsageFromCatalog, ReprojectedRows
  <2>2. moved \in Seq(RowKey) /\ \A i \in DOMAIN hourly[e] : i \in DOMAIN moved =>
                                    moved[i].acct = hourly[e][i].acct
    <3>1. CASE row = raw[e]
      BY <1>1, <3>1
    <3>2. CASE row # raw[e]
      <4>1. IsRaw(e)
        BY <3>2 DEF ReprojectRow, IsRaw
      <4>2. raw[e] \in RawRow /\ row \in RawRow /\ KeyOf(raw[e]) \in RowKey /\ KeyOf(row) \in RowKey
        BY <1>1, <4>1, RawType, ReprojectRowType, KeyOfType DEF IsRaw
      <4>3. moved = <<KeyOf(row)>> /\ hourly[e] = <<KeyOf(raw[e])>>
        BY <3>2, <4>1, <4>2, TriggerUpdateSingle DEF HourlyExact
      <4>4. KeyOf(row).acct = KeyOf(raw[e]).acct
        BY <4>2 DEF KeyOf, ReprojectRow, RawRow
      <4> HIDE DEF moved
      <4> QED
        BY <4>2, <4>3, <4>4
    <3> QED
      BY <3>1, <3>2
  <2> HIDE DEF moved
  <2>3. ASSUME NEW key \in RowKey PROVE Reproject(e, key).acct = key.acct
    BY DEF Reproject, RowKey
  <2>4. ASSUME NEW i \in DOMAIN hourly[e], i \in DOMAIN hourly'[e]
        PROVE  hourly'[e][i].acct = hourly[e][i].acct
    <3>1. i \in DOMAIN moved /\ moved[i] \in RowKey
      BY <2>1, <2>2, <2>4, ElementOfSeq, LenProperties
    <3> QED
      BY <2>1, <2>2, <2>3, <3>1
  <2> QED
    BY <2>4 DEF HandedOver
<1>4. ASSUME NEW from \in Accounts, NEW to \in Accounts, RemapAccountFingerprint(from, to),
             NEW i \in DOMAIN hourly[e], HandedOver(hourly[e], hourly'[e], i)
      PROVE  FALSE
  <2> DEFINE row == RemapRow(raw[e], from, to)
             moved == RewrittenRows(e, hourly[e], row)
  <2>1. hourly'[e] = [j \in DOMAIN moved |-> MoveAccount(moved[j], from, to)]
    BY <1>4 DEF RemapAccountFingerprint, MovedRows
  <2>2. i \in DOMAIN moved /\ hourly[e][i].acct = NoAccount /\ hourly'[e][i].acct # NoAccount
    BY <1>4, <2>1 DEF HandedOver
  <2>3. moved = hourly[e]
    <3>1. CASE row = raw[e]
      BY <3>1 DEF RewrittenRows
    <3>2. CASE row # raw[e]
      <4>1. raw[e].acct = from /\ from # NoAccount
        BY <3>2, LedgerAssumption DEF RemapRow
      <4>2. IsRaw(e)
        BY <4>1 DEF IsRaw, Absent
      <4>3. hourly[e] = <<KeyOf(raw[e])>> /\ KeyOf(raw[e]).acct = from
        BY <4>1, <4>2 DEF HourlyExact, KeyOf
      <4> QED
        BY <2>2, <4>1, <4>3
    <3> QED
      BY <3>1, <3>2
  <2> HIDE DEF moved
  <2>4. hourly'[e][i] = MoveAccount(hourly[e][i], from, to)
    BY <2>1, <2>2, <2>3
  <2> QED
    BY <2>2, <2>4, LedgerAssumption DEF MoveAccount
<1> QED
    BY <1>3, <1>4

\* A switch inside a period leaves the period unknown: what a replay hands to an
\* account happened while that account was logged in, whatever was imported,
\* compacted and merged before.
THEOREM BoundaryStaysUnknownHolds ==
    ASSUME LogsKept, HistoriesStartFirst
    PROVE  Spec => BoundaryStaysUnknown
<1> DEFINE Unknown ==
        verified /\ cursor' = cursor =>
          \A e \in {f \in Events : Stored(f)} :
             /\ \A i \in DOMAIN daily[e] : HandedOver(daily[e], daily'[e], i) =>
                   LoggedIn(timeline', daily'[e][i].acct, TimeOf[e])
             /\ \A i \in DOMAIN hourly[e] : HandedOver(hourly[e], hourly'[e], i) =>
                   LoggedIn(timeline', hourly'[e][i].acct, TimeOf[e])
<1>1. IInv /\ HourlyExact /\ [Next]_vars => Unknown
  <2> SUFFICES ASSUME IInv, HourlyExact, [Next]_vars, verified, cursor' = cursor,
                      NEW e \in Events, Stored(e)
               PROVE  /\ \A i \in DOMAIN daily[e] : HandedOver(daily[e], daily'[e], i) =>
                            LoggedIn(timeline', daily'[e][i].acct, TimeOf[e])
                      /\ \A i \in DOMAIN hourly[e] : HandedOver(hourly[e], hourly'[e], i) =>
                            LoggedIn(timeline', hourly'[e][i].acct, TimeOf[e])
    OBVIOUS
  <2>1. CASE ReprojectUsageFromCatalog
    <3>1. \A i \in DOMAIN daily[e] : ~HandedOver(daily[e], daily'[e], i)
      <4>1. DOMAIN daily[e] = {1} /\ daily'[e][1].acct = daily[e][1].acct
        <5>1. daily[e] \in Seq(RowKey)
          BY DEF IInv, TypeOK
        <5> QED
          BY <2>1, <5>1, ReprojectedRow
      <4> QED
        BY <4>1 DEF HandedOver
    <3> QED
      BY <2>1, <3>1, OtherHours
  <2>2. ASSUME NEW from \in Accounts, NEW to \in Accounts, RemapAccountFingerprint(from, to)
        PROVE  \A i \in DOMAIN daily[e] : ~HandedOver(daily[e], daily'[e], i)
    <3>1. DOMAIN daily[e] = {1} /\ daily'[e][1].acct \in {daily[e][1].acct, to}
          /\ (daily'[e][1].acct # daily[e][1].acct => daily[e][1].acct = from)
      <4>1. daily[e] \in Seq(RowKey)
        BY DEF IInv, TypeOK
      <4> QED
        BY <2>2, <4>1, RemappedRow
    <3> QED
      BY <3>1, LedgerAssumption DEF HandedOver
  <2>3. ASSUME NEW tl \in Timelines, ReplaceHistoricalAuthEpochs(tl)
        PROVE  /\ \A i \in DOMAIN daily[e] : HandedOver(daily[e], daily'[e], i) =>
                     LoggedIn(timeline', daily'[e][i].acct, TimeOf[e])
               /\ \A i \in DOMAIN hourly[e] : HandedOver(hourly[e], hourly'[e], i) =>
                     LoggedIn(timeline', hourly'[e][i].acct, TimeOf[e])
    <3>1. timeline' = tl
      BY <2>3 DEF ReplaceHistoricalAuthEpochs
    <3> QED
      BY <2>3, <3>1, HistoryDays, HistoryHours DEF IInv
  <2>4. CASE daily' = daily /\ hourly' = hourly
    BY <2>4 DEF HandedOver
  <2> QED
    BY <2>1, <2>2, <2>3, <2>4, RewritesOnly, OtherHours
<1>2. IInv /\ HourlyExact /\ [Next]_vars => HourlyExact'
    BY HourlyKept
<1>3. Unknown => [Unknown]_vars
    OBVIOUS
<1> QED
    BY <1>1, <1>2, <1>3, HourlyInit, Invariance, PTL DEF Spec, BoundaryStaysUnknown

\* A merge is whole: once an account gives way in one row, no fact, no row and no
\* epoch is left under it.
THEOREM AccountsMergeWholeHolds ==
    ASSUME LogsKept, HistoriesStartFirst
    PROVE  Spec => AccountsMergeWhole
<1> DEFINE Gone(from) ==
              /\ \A f \in Events : raw'[f].acct # from
              /\ \A f \in Events : \A j \in DOMAIN daily'[f] : daily'[f][j].acct # from
              /\ \A j \in DOMAIN timeline' : timeline'[j].acct # from
           Whole == \A e \in Events : \A i \in DOMAIN daily[e] :
              LET from == daily[e][i].acct
              IN  /\ verified /\ Stored(e) /\ from # NoAccount /\ cursor' = cursor
                  /\ i \in DOMAIN daily'[e] /\ daily'[e][i].acct # from
                  => Gone(from)
<1>1. IInv /\ [Next]_vars => Whole
  <2> SUFFICES ASSUME IInv, [Next]_vars, NEW e \in Events, NEW i \in DOMAIN daily[e],
                      verified, Stored(e), daily[e][i].acct # NoAccount, cursor' = cursor,
                      i \in DOMAIN daily'[e], daily'[e][i].acct # daily[e][i].acct
               PROVE  Gone(daily[e][i].acct)
    OBVIOUS
  <2>1. daily[e] \in Seq(RowKey) /\ TypeOK
    BY DEF IInv, TypeOK
  <2>2. ~ReprojectUsageFromCatalog
    BY <2>1, ReprojectedRow
  <2>3. ASSUME NEW tl \in Timelines, ReplaceHistoricalAuthEpochs(tl) PROVE FALSE
    BY <2>3, HistoryDays
  <2>4. daily' # daily
    OBVIOUS
  <2>5. PICK from \in Accounts, to \in Accounts : RemapAccountFingerprint(from, to)
    BY <2>2, <2>3, <2>4, RewritesOnly
  <2>6. daily[e][i].acct = from
    BY <2>1, <2>5, RemappedRow
  <2>7. from # to /\ from # NoAccount
    BY <2>5, LedgerAssumption DEF RemapAccountFingerprint
  <2>8. ASSUME NEW f \in Events PROVE raw'[f].acct # from
    <3>1. raw'[f] = RemapRow(raw[f], from, to) /\ raw[f] \in RawRow \cup {Absent}
      BY <2>1, <2>5 DEF RemapAccountFingerprint, TypeOK
    <3> QED
      BY <2>7, <3>1 DEF RemapRow, RawRow, Absent
  <2>9. ASSUME NEW f \in Events, NEW j \in DOMAIN daily'[f] PROVE daily'[f][j].acct # from
    <3> DEFINE moved == RewrittenRows(f, daily[f], RemapRow(raw[f], from, to))
    <3>1. daily'[f] = [k \in DOMAIN moved |-> MoveAccount(moved[k], from, to)]
      BY <2>5 DEF RemapAccountFingerprint, MovedRows
    <3>2. moved \in Seq(RowKey)
      BY <2>1, RemapRowType, RewrittenRowsType DEF TypeOK
    <3> HIDE DEF moved
    <3>3. j \in DOMAIN moved /\ moved[j] \in RowKey
      BY <2>9, <3>1, <3>2, ElementOfSeq, LenProperties
    <3>4. MoveAccount(moved[j], from, to).acct # from
      BY <2>7, <3>3 DEF MoveAccount, RowKey
    <3> QED
      BY <3>1, <3>3, <3>4
  <2>10. ASSUME NEW j \in DOMAIN timeline' PROVE timeline'[j].acct # from
    <3>1. j \in DOMAIN timeline /\ timeline'[j] = IF timeline[j].acct = from
                                     THEN [timeline[j] EXCEPT !.acct = to] ELSE timeline[j]
      BY <2>5, <2>10 DEF RemapAccountFingerprint
    <3>2. timeline[j] \in Epoch
      BY <2>1, <3>1, ElementOfSeq, LenProperties DEF TypeOK
    <3> QED
      BY <2>7, <3>1, <3>2 DEF Epoch
  <2> QED
    BY <2>6, <2>8, <2>9, <2>10
<1>2. Whole => [Whole]_vars
    OBVIOUS
<1> QED
    BY <1>1, <1>2, Invariance, PTL DEF Spec, AccountsMergeWhole
=============================================================================
