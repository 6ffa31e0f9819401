# A formal model of Codex Usage Ledger

TLA+ specifications of the accounting core of this repository, the TLC
configurations that check them on small instances, and proofs that TLAPS checks
for every instance. `src/...` below is a path in the repository.

## The system

Codex writes three kinds of local evidence: rows of a log database
(`logs_2.sqlite`, one row per model call), rollout files (JSONL, one per
thread, holding token counts and copies of inherited history), and a directory
database (`state_5.sqlite`). One process (`run_daemon`, `src/src/main.rs`) owns
the only writer connection to a SQLite ledger and imports this evidence in a
loop; an HTTP server reads the ledger on connections of its own; a macOS app
starts, stops and supervises the process.

| Component | State | Operations |
|---|---|---|
| Usage ledger (`store.rs`, `store/*_repository.rs`) | raw facts, daily and hourly rollups, compact keys, thread catalog, auth epochs, file cursors, rollup state | batch upserts with a cursor, rollup triggers, backfill, verification, compaction, reprojection, account merge, history replay |
| Post-sampling collector (`sampling.rs`) | log cursor per shard, candidate cursor per thread | read both sources up to a watermark, match, commit in chunks |
| JSONL tailer (`ingest.rs`) and rollout ingestion (`runtime.rs`) | durable checkpoint per file | poll a chunk, commit lines with the checkpoint |
| Account history (`account_history.rs`) | login markers, cursor per log shard | read the login rows, infer epochs, link aliases, replace the inferred epochs |
| Identity and auth epochs (`identity.rs`, `account_repository.rs`) | auth epochs, workspace aliases | observe `auth.json`, open and close epochs, merge accounts |
| Replay guard (`replay.rs`) | phase and counters of one file | classify a line, subtract counters, quarantine |
| Reconstruction (`reconstruction.rs`) | per-source status, parser state | pick eight files a round, ingest a slice, replace a file |
| Quota tails (`runtime.rs`, `quota.rs`) | cursor per thread, snapshots | read rate-limit lines, attribute to epochs |
| Projects and directory (`project.rs`, `runtime.rs`) | project catalog, thread catalog | mirror the native directory, reproject usage |
| Effective selection and queries (`usage_repository.rs`, `migrations.rs`) | dirty flag, source per thread and day | mark dirty (triggers), refresh, aggregate raw, hourly and daily rows |
| Official usage (`official_usage.rs`) | one record per account | ask the app-server, store the answer |
| Daemon (`main.rs`) | account binding, timers | the order of everything above |
| API and reconciliation (`api.rs`, `api/`) | query cache | queries of several statements, reconciliation with official days, residual estimates, refresh of official usage |
| macOS app (`macos/`) | child process, mode, health | launch, switch, stop, poll health |
| Web dashboard (`web/`) | the answer shown, a refresh timer | fetch on opening, navigation, change events; refresh, confirm |

How they interact: the collectors call the ledger, and each call is one
immediate SQLite transaction that carries the facts and the cursor behind them.
The ledger's triggers keep the rollups. Rewrites (history, merge, reprojection)
reach both raw facts and the rollups of facts whose raw detail is gone. The
collectors read sources that Codex is appending to at that moment.

### What is hard

- Facts lose their raw detail after a retention window and survive only as
  sums. Every later rewrite must move the sums the way it would have moved the
  facts, and no replay may add a fact again.
- The rollups are kept by triggers that subtract at the *old* key. Any rewrite
  of rollup rows that leaves a raw fact's own row elsewhere makes the next
  subtraction miss.
- A log row and its token line are two records written at slightly different
  times, read up to one watermark compared in different units, and committed
  in several transactions.
- Files grow between any two reads, also in the middle of a line; they can be
  replaced or truncated; the process can die between any two commits.
- A login is seen three times: in `auth.json` every so often, in Codex' log
  seconds later, and in the quota lines that were written meanwhile. Whose a
  line is depends on which of these the ledger has taken in, over epochs,
  aliases and merges that are written in transactions of their own.
- One answer of the API is several statements on a connection of its own. Each
  refreshes the choice of evidence first, while the collector writes, withdraws
  and compacts.
- The app, the process and its HTTP server each hear of a signal in their own
  way, and each has its own idea of the mode that is meant.

### What makes each component correct

- Ledger: each fact is counted exactly once; compaction loses nothing; rewrites
  conserve totals; a period cut by an account switch stays unknown.
- Collector: no log row skipped, none imported twice, each token line used once.
- Tailer: the durable lines are those of a prefix of the file, each once.
- Identity: at most one account at a time, and no attribution before a login.
- Replay guard: inherited history contributes nothing, own usage everything.
- Reconstruction: every file is read in the end, a replaced file starts anew.
- Quota: snapshots in order, and no line that blocks the ones behind it.
- Selection: never the sum of both sources; a reader sees a current choice.
- API: totals, series, breakdowns and trees agree; no day counts officially and
  locally at once; the page is not long behind the ledger.
- Daemon: an answer is stored for the account that asked for it; epochs and
  aliases agree once they are written.
- macOS app: the running mode is in the end the requested one.

## Modules

| Module | What it is |
|---|---|
| `UsageLedger` | the ledger and every transaction on it |
| `UsageLedger_proofs` | its theorems |
| `SamplingCollector` | the post-sampling collector, Codex writing beside it |
| `SamplingCollector_proofs` | its theorems |
| `JsonlTail` | one poll of the tailer, as operators |
| `LineStream` | the abstract specification of tailing a file |
| `RolloutTail` | a run over one rollout; implements `LineStream` for every file |
| `RolloutTail_proofs` | its theorems, the refinement among them, and lemmas about lines and polls |
| `RolloutRecords` | what the reconstruction's parser makes of a record, as operators |
| `RecordStream` | the parser over any stream of records, and what its facts add up to |
| `RecordStream_proofs` | its theorems, and lemmas about reading records one after the other |
| `Reconstruction` | rounds over the sources: status, checkpoint and facts; uses `RolloutRecords` |
| `Reconstruction_proofs` | its theorems |
| `EffectiveSource` | two kinds of evidence, the choice between them, and every aggregate over the effective views |
| `Queries` | periods, the exact rolling window, series, breakdowns and session trees; extends `EffectiveSource` |
| `Reconciliation` | official totals beside local ones, and the estimate for accounts not yet seen; extends `Queries` |
| `Dashboard` | composition: writers, requests read statement by statement, the query cache and the page; extends `Reconciliation` |
| `Dashboard_proofs` | theorems about the choice of evidence, the requests, and official and local totals |
| `AuthEpochs` | epochs, aliases, merges and the inference from login rows, as operators |
| `QuotaTail` | one file of the quota pass, as operators; extends `AuthEpochs` |
| `Daemon` | the Rust process in both modes, among logins, logs and rollouts; extends `QuotaTail` |
| `ServiceController` | the macOS app's controller of that process; extends `Daemon` |
| `Service` | composition of process and controller, its fairness and its properties |
| `Service_proofs` | its theorems |
| `Induction` | induction over the natural numbers and sums over finite sets, in a form the provers can apply |
| `MC...` | instances for TLC |

### UsageLedger

A rollup row is a sum over events with equal period, thread, model, account,
project and quality. The properties tell apart *under which rows* and *how
often* an event is counted, so `daily` and `hourly` map each event to the
sequence of row keys it is counted under. Period, thread, model and quality of
an event never change, hence a key is an account and a project. Sums are
additive, so keeping the contributions of two events apart loses nothing, with
one exception: a subtraction that hits a row which exists only because of some
other event. `EventsApart` excludes that: facts of one thread are put on
different days.

| Variable | Code |
|---|---|
| `raw` | `usage_events`: account, confidence and project of each row |
| `keys` | `compacted_event_keys` |
| `daily`, `hourly` | `daily_usage_rollups`, `hourly_usage_rollups` |
| `catalog`, `native` | `thread_catalog.project_id`; the directory Codex keeps |
| `timeline` | the historical rows of `auth_epochs` |
| `backfilled`, `complete`, `verified` | `rollup_state` |
| `cursor` | `file_cursors.byte_offset` of the log and of the rollouts |
| `retainSince` | start of the retention window |

`IngestSample` is `upsert_verified_events_and_cursor`, `IngestRollout` is
`upsert_events_and_cursor` with `upsert_compact_event_in` for expired facts.
One fact per step: a longer batch is a run of steps that no other transaction
interrupts, and every interleaving is allowed here. `BackfillRollupChunk`,
`VerifyRollup`, `CompactRawEventsChunk`, `ReprojectUsageFromCatalog`,
`RemapAccountFingerprint` and `ReplaceHistoricalAuthEpochs` are the functions
of those names, triggers included. The daemon runs them in one order; the model
lets them run in any. `LoseCursor` is a cursor filed under a machine id that
has been regenerated.

Verified epochs are not state: an import may give a sample any account as
verified, which covers every content of the verified part of `auth_epochs`.

### SamplingCollector

One log shard and any number of threads. `ReadSources` reads both sources and
matches in memory, `CommitChunk` and `CommitCandidateCursor` are the
transactions that follow, `Crash` may come between any two of them. Codex
appends rows and lines at any time up to `WriteDelay` after their time stamps;
the code assumes that this is less than the watermark's lag and that row ids
follow time stamps, and the model makes both assumptions explicit in
`AppendRow` and `Tick`. A tick is the matching tolerance (250 ms); rows are
compared in whole seconds and lines by the tick, as in the code. `torn` and
`cuts` are history variables: whether a crash has parted committed events from
their candidate cursors, and which watermarks a thread was read up to.

### JsonlTail, LineStream, RolloutTail

`JsonlTail` states what `poll_reader` returns and the checkpoint it leaves, as
a function of the checkpoint before and the bytes of the file. A byte is a
letter, a carriage return or a newline. Lines are records with place, number
and bytes, so a set of them says all that the code's vector says.

`LineStream` is the promise: the lines taken are those of some prefix, and the
prefix only grows. `RolloutTail` is `ingest_one_file`: `BeginRun` reads the
cursor, `Poll` and `Commit` alternate until the end of the file is reached, a
reset under a durable cursor or a line that is too long ends the run. Codex
appends, replaces and truncates at any point. The refinement mapping takes each
physical file: its bytes, whether it was ever truncated, and its durable lines.

Only tests call `ingest_one_file` (`ingest_all` and `ingest_paths` of a private
module, `src/src/lib.rs:21`); what the daemon uses of this is the tailer, through
the reconstruction. So nothing repeats a run, and no liveness is claimed.

### RolloutRecords, RecordStream

`process_line` as a function of the parser's state and a record. Of the seven
token dimensions two are kept, input and the cached part of it; they show both
ways in which a difference fails, a dimension that goes back and a difference
that `validate` refuses. Records that the parser passes over (other kinds,
malformed lines, totals that are invalid) are left out, except a `token_count`
without a total.

`RecordStream` lets Codex append any record and states the result without the
parser, of the stream as a whole: `Prefix` is the copy a child begins with, its
token records up to the first pause; `Restarts` says where the counter goes
back; `UsageTelescopes` says what the facts of each epoch add up to. It is what
`src/docs/contracts/accounting.md:36` asks of inherited prefixes, repeated
totals and regressions.

### Reconstruction

| Variable | Code |
|---|---|
| `status` | `reconstruction_sources`: state, file identity, `bytes_processed` |
| `cursor` | `file_cursors`: the file, the tailer's checkpoint, the parser's state |
| `facts` | `reconstruction_usage_events` |
| `step`, `targets`, `queue`, `target`, `opened` | where a round is, and its locals |
| `content`, `disk`, `place`, `listed` | the rollouts, how much of them is on disk, which file is at each path, `state_5.sqlite` |
| `lost` | history: rollouts that were missing, rewritten or unlisted |
| `rewritten` | history: files that were given other records while a checkpoint was at them |

The transactions of a round are one action each: `StartRound` reclaims
checkpoints, `IndexSources` gives new sources a status, `MarkUnlisted` and
`DropUnlistedCursor` give up what Codex no longer lists, `ReplaceSources` starts
replaced files anew, `BuildQueue` orders and cuts the queue, `OpenTarget` and
`PollTarget` are `ingest_target`, `MarkUnrecoverable` and `DropCursor` its
failure. Codex may act, and the process may die, between any two of them; an
error that ends a round is such a death too. Reading a chunk and committing it
are one step: nothing else writes to the ledger in between, and a death in
between leaves no trace.

`Rewrite` is a rollout that is cut, or given other records, without becoming
another file, as when Codex compacts it in place (`src/src/sampling.rs:875`). The
code knows a file by its identity and its length. A rollout that is found shorter
than its checkpoint is given up. One that has grown past it again is read on with
the facts of the records that are gone: nothing tells it from a file that has
grown. `FactsMatchCheckpoint` therefore speaks of files that are not `rewritten`;
without that condition TLC finds the case within a few steps. The records are of
one length, so a rewritten file has a record where the checkpoint was; one that
has another record's middle there would yield a malformed line, which
`process_line` passes over.

Places in a file are counted in half records, so that the last record may be
unterminated and a chunk may end inside one. A chunk holds at least one record,
as `RECONSTRUCTION_READ_CHUNK_BYTES` does. That `poll_reader` finds lines where
they are is `RolloutTail`'s matter and taken from there; the reset, the limit on
a line and the regression of a cursor are modelled here as well, because they
make a source unrecoverable.

### EffectiveSource, Queries, Reconciliation, Dashboard

| Variable | Code |
|---|---|
| `sampled`, `raw` | samples in the rollups; those whose `usage_events` row is retained |
| `rebuilt` | `reconstruction_usage_events` with its rollups |
| `dirty`, `choice` | `effective_source_selection_state`, `effective_thread_day_source` |
| `catalog`, `standalone`, `rootOf` | `thread_catalog` and the two membership tables |
| `snapshot`, `buckets`, `confirmedCount` | official usage per account, its daily buckets, the confirmed number of accounts |
| `requests` | per computation of the server: the statements it has still to read, and what it has summed up |
| `cache` | `query_cache` at the page's query |
| `client` | the page: the fetch it waits for, the answer it shows, the revision it has seen, its timer and its refresh |
| `writes`, `disturbed`, `due` | ghosts: the version of the ledger, requests read across a write, what a fetch of the timer has to show |

An aggregate is modelled as the *set of facts* it counts: `COUNT` and every
`SUM` are functions of that set, and that a rollup row is the sum of its facts
is `UsageLedger`'s matter. A fact counted twice shows up as two tables with a
fact in common. Usage has five disjoint parts, of which the code's dimensions
are sums. The queries are defined statement by statement
(`AggregateRollupBy`, `AggregateExactTimeSeries`, `AggregateRollupByRootThreads`
and so on), each over the table its SQL names; `Queries` puts them together as
`api/queries.rs`, `summary.rs` and `explorer.rs` do, and `Reconciliation` as
`api/reconciliation.rs` does. The filter by model behaves as the filter by
account and is left out; `month`, `weeks12` and `months12` differ from `week`
in the calendar unit alone.

A request is `Start` (a cache hit or the list of statements), then `RefreshFirst`
and `Read` for each statement, then `Finish`, which fills the cache. The page's
query is answered in these steps; what the properties say of the other routes
is evaluated in states without an open page. The page's clock (ticks of cache
and timer) is not the clock of the facts: a unit of the latter passes between
pages only.

### AuthEpochs, QuotaTail, Daemon

| Variable | Code |
|---|---|
| `login` | `auth.json`: the account, and the generation of its credentials |
| `log`, `files` | login rows of `logs_2.sqlite`; the quota lines of each rollout and which physical file it is |
| `epochs`, `alias` | `auth_epochs` and `account_workspace_aliases` |
| `imported` | `auth_log_markers`: how many rows of `log` it holds |
| `quota`, `cursors` | `quota_snapshots` in the order of their row ids, and the `quota-rollout` cursors |
| `official` | `official_usage_snapshots`: whose answer is stored for each account |
| `proc` | the process: its mode, the steps it still takes before it waits again (`todo`), the account it is bound to, whether its server listens (`http`), whether SIGTERM no longer kills it (`handles`), and whether a page held the stream of changes when the server was told to end (`held`) |
| `request` | a refresh of official usage that the page asked for |
| `torn` | ghost: work of several transactions that a kill cut short |

A fingerprint is the person and workspace it is the digest of, and the
provisional account of a workspace has no person. An epoch has a source
(`observed` in `auth.json`, or from the history) and a confidence (`verified`): of
an observed one it is verified if the claims name the issuer and agree on the
workspace (`src/src/identity.rs:256`, the constant `Consistent`), and inferred, as
of a historical one, if not. The choice among epochs goes by the confidence, what
is replaced or merged by the source. An `auth.json` with a person only, or with
neither, is left out. `observe_auth` is `ObserveAuth`,
`LinkAlias` and `RemapAccount`; `sync_account_history` is `ReadMarkers`,
`LinkHistory` and `ReplaceHistory`: one action for each transaction, and a kill
may come between any two, as may a tick of the other writer, the HTTP route
(`AskOfficialUsage`, `StoreOfficialUsage`). `IngestQuotaTail` takes one file;
`DieInQuotaTail` is a death after some of its lines, since the lines are stored
one by one and the cursor last. The order of a startup and of a tick is that of
`run_daemon` and `run_dashboard_only`. `Terminated` is SIGTERM: it kills until
the server has installed its handler; afterwards the server takes no connection
any more, and the daemon's loop ends if it waits at that moment. A dashboard ends
with its server, and that (`with_graceful_shutdown`, `src/src/main.rs:694`) once
every connection is closed: answered requests are, but a page holds the stream of
changes until it goes (`ClosePage`). The port may be in use (`ListenFails`): a
daemon goes on without a server, a dashboard ends when it comes to wait. Login
rows become readable five seconds after they were written: `OldRows` is all rows
up to some moment of the last `Recent` units of time, in which several events
may fit.

The time of the first sample, where the first window of the login rows begins,
is a constant: 0 in the run, so that every row counts. Logouts within a second
of each other, which the code takes for one, do not occur.

### ServiceController, Service

| Variable | Code |
|---|---|
| `enabled` | `collectionEnabled`, kept in the user defaults |
| `app` | whether the app runs |
| `ctl` | `state`, `child`, `childMode`, `pendingMode`, `expectedTermination`, `failureAfterTermination`, whether `waitUntilHealthy` is at work, and whether the termination handler of the last process is due |
| `crossed` | ghost: a mode was asked for while another one was pending, and ignored |

The controller runs on the main actor, so a step is a call up to its next
`await`. `Launch` may fail in two ways: before the generation is raised
(`LedgerServiceController.swift:194`), which leaves the pending mode and a handler
that is due, or when the process does not run. `Service` lets the controller start and signal the
process, and the process do the rest. Everything that comes from outside
(logins, log rows, lines, replaced and cut files, toggles, quitting, kills and
health time-outs) takes one unit of `MaxTime`.

## Runs

| Run | Question | Result |
|---|---|---|
| `UsageLedger` | Is every fact counted exactly once, under the row its columns name, whatever the order of transactions? | holds |
| `UsageLedgerLateStart` | Does a switch inside a day leave that day unknown, if the *first* resolved login starts in mid-day? | violated |
| `UsageLedgerReplay` | Do the compact keys protect against a lost log cursor? | violated |
| `SamplingCollector` | Is every row imported once, finally and with its own tokens, through chunked commits and a crash? | holds |
| `SamplingWatermark` | Do both sources share one watermark? | violated |
| `SamplingTorn` | Is a token line used once, through a crash? | violated |
| `RolloutTail` | Is chunked tailing a line stream? | holds |
| `RecordStream` | Does the usage counted from a rollout add up to how far its counter went? | holds |
| `Reconstruction` | Do status, checkpoint and facts agree whatever happens between two steps, and is every rollout read to its end? | holds |
| `Dashboard` | Do the parts of an answer agree, and with the ledger's evidence, whatever is written meanwhile? | holds |
| `DashboardStale` | Does a live update reach the page? | violated |
| `Service` | Is what is filed under an account that account's, do epochs and aliases settle, and does the process follow the user? | holds |

### UsageLedger (`TypeOK`, `CountedOnce`, `RawRowsFound`, `CompactionLosesNothing`, `TotalsUnchanged`, `AccountsMergeWhole`, `BoundaryStaysUnknown`)

Three facts: one present before the rollups were introduced, one later sample
of another thread in the next hour, one rollout fact on the next day. Two
accounts, one project, hours of two units in days of four. Three starts of the
retention window: none, one and all of the facts expire. Two histories: an
epoch that ends in mid-day, and two epochs with an ambiguous gap whose later
one starts in mid-day, so that an hour and a day are cut on either side. Three
facts are enough because the rows of a fact depend on no other fact, except
through the catalog of its thread (two facts share a thread) and through the
chunks of backfill and compaction (which take a prefix). Two accounts suffice
since a merge names two. The rollout cursor may be lost, the log cursor not.

The run shows that backfill beside live ingestion counts nothing twice, that
verification accepts only exact rollups, that reprojection never fails on a
verified ledger, that compaction keeps a key and a count for each fact, and
that a merge moves the rows of compacted facts along with the raw ones.

### SamplingCollector (`TypeOK`, `NoSampleSkipped`, `OneToOneUnlessTorn`, `MatchedUnlessParted`, `ImportIsFinal`, `EverySampleImported`)

Four samples in two threads. In one, two samples lie on either side of a whole
second and each is as near to the other's line as to its own; in the other, two
samples have no such neighbour. Chunks of one event, so that a crash falls
between chunks; one crash; a clock that runs until every sample is below the
watermark. `NoSampleSkipped` and `EverySampleImported` say that the log cursor
leaves no row behind and catches up. `OneToOneUnlessTorn` and
`MatchedUnlessParted` say what matching promises, with the two exceptions that
the two violated runs exhibit.

### RolloutTail (`TypeOK`, `CursorMatchesLines`, `LinesApart`, `FilesAreStreams`, `CursorKeepsItsFile`)

Two physical files, five bytes on disk altogether, chunks of two bytes, lines
of at most two, one truncation, one crash. So a line spans two chunks, a chunk
holds two lines, a carriage return is parted from its newline, a line is too
long, and a truncated file grows past its checkpoint again before the next
poll. `FilesAreStreams` is the refinement. Each step of the code is a step of
`LineStream` for one file and a stutter for the others.

### RecordStream (`TypeOK`, `UsageTelescopes`)

Every stream of up to five records, for a child and for its parent: enough for
the thread's own `session_meta`, a copy of two records, a pause, a regression
and growth after it. Ten records: time stamps within the gap of each other but
not of the first (1 and 2), or after a pause (4), so that a dense run outlasts
the gap and time can go back; totals that rise, repeat, lose cached tokens, or
gain more cached than input tokens; a restart with and without usage of its
own; a `session_meta` of another thread and one without a time.

### Reconstruction (`TypeOK`, `FactsMatchCheckpoint`, `StatusMatchesCheckpoint`, `OneFileCounted`, `CheckpointReclaimed`, `EveryRolloutRead`)

Two sources, parent and child, and a spare file that may take either path;
rollouts of two or three records, chunks of a record and a half, so that a
rollout takes two or three chunks and each later one starts by rereading a
record; one source a round, so that both compete for the queue. In the first
choice of contents the child's prefix and its own usage are in different
chunks; in the second the parent's counter goes back between two chunks and the
child's second record is beyond the limit. One fault (replaced, hidden, rewritten or
unlisted) and one crash, each at any step: two are what it takes for the
process to die while it gives up a source that was replaced under it.
A rewritten rollout holds the records of any of the others. `FactsMatchCheckpoint`
compares with a reading from scratch, rewritten files excepted. `EveryRolloutRead`
exempts rollouts that were lost and those with a record beyond the limit.
`StatusMatchesCheckpoint` does not constrain unrecoverable sources; what must
become of their checkpoints is `CheckpointReclaimed`.

### Dashboard (`DashboardTypeOK`, `SelectionCurrent`, `WindowCountsOnce`, `SameAnswerEveryWay`, `TreesAgree`, `AllNotBelowOne`, `PointsAddUp`, `ExactIsEveryDay`, `ResidualConserved`)

Two accounts, a project, and five threads of which three are nested subagents,
the deepest one beyond the depth at which the recursive queries stop (32 in the
code, `TreeDepth = 2` here); hours of two and days of four time units, so that the rolling window of five
units starts and ends inside an hour and its middle is made of hour rollups.
Usages are sums of distinct powers of two where a sum has to tell its facts
apart; two facts are there in both kinds of evidence, once with more and once
with equal usage. `MaxWrites = 4` writes in any order are what it takes to
ingest, rebuild, answer and compact; two of them (`MaxPageWrites`) may fall
into the requests of an open page, which fetches twice (`MaxFetches`): one
write between two statements is what disturbs a request, and the second fetch
meets the cache of the first. Official answers have a day of zero, a missing
day, and a missing lifetime total.

`WindowCountsOnce` compares what an undisturbed request has summed up with the
evidence itself. `SameAnswerEveryWay` and `TreesAgree` compare every route with
every other one, for each period and filter. `TreesAgree` is stated of moments
after a scan has rebuilt both memberships. Before that the list and the detail
may differ; so may the breakdown by project and the list of filters: an event
that names a project for a standalone root takes the standalone conversations
from the filters at once, since `standalone_conversation_stats` reads the
catalog (`src/src/store/dashboard_repository.rs:432`), while their usage stays
standalone until the next scan. A thread deeper than `TreeDepth` has no root
and counts in no tree, whereas the standalone membership has no limit of depth
(`src/src/store.rs:590`). `AllNotBelowOne` excepts the
lifetime total of accounts of which only some have an official one: there the
code falls back to daily buckets for all (`src/src/api/reconciliation.rs:792`),
and all accounts may come out below one. `PointsAddUp` excepts local usage of
days before an account's coverage, which the chart shows and the total leaves
out.

### Service (`ServiceTypeOK`, `FiledRightly`, `SettledUnlessTorn`, `CollectionFollows`)

Two people with a workspace each, the `auth.json` of one of them consistent, one
rollout with at most two payloads, and
three histories before the app is first opened: another `auth.json` put in
place without a logout, a logout with a login by the other, and a logout alone,
each with a line of the one who was logged in first. Two more events from
outside (`MaxTime = FirstNow + 2`), at any step: a login change and a line, a
toggle and a kill, a toggle back during a switch, a cut file and a restart, a
port in use. `Recent = 1`: the rows of the latest time, of the two latest, or none
are still unread.
The steps of the process itself, launches that fail, retries, failed reads of
`auth.json`, requests of the page, and pages that stay open are not bounded. Three events with the
liveness property would not fit in minutes.

`FiledRightly` leaves out the lines of which the ledger could not know better:
those written between a login and its observation, and those whose login rows
were not yet imported (`Doubtful`); and official answers given while the login
was not the one observed. `SettledUnlessTorn` leaves out ledgers in which a
kill came between two transactions of an observation or an import: the code
does not take that work up again, because the alias or the markers that would
call for it are already there (`src/src/runtime.rs:168`,
`src/src/account_history.rs:106`). `CollectionFollows` leaves out three cases of
a switch that the code loses: a toggle back while the process is being stopped
is compared with the mode of that process and ignored
(`LedgerServiceController.swift:176`), and a SIGTERM that comes while the
daemon is at work ends its server but not its loop, which listens only while it
waits (`src/src/main.rs:548`): collection goes on, and the app waits in
`stopping`. And the dashboard's server, told to end, waits for the page's stream
of changes, which has no end (`src/src/api/routes.rs:228`), while the app keeps
the page and sends nothing after SIGTERM: **with the page open, switching to
collection hangs** until the page is gone. The property claims nothing while a
page holds the server (`HeldOpen`); without that condition TLC finds the hanging
switch. A failed service is left to the user's retry.

Everyone has a workspace of their own in this run. With a shared workspace,
`upsert_workspace_account_alias` returns the account linked before even if it is
not provisional (`src/src/store/account_repository.rs:212`), and `observe_auth`
merges one person into the other.

### Fairness and deadlock

`SamplingCollector` assumes `WF(Codex)` and `WF(Import)`: the daemon's loop
(`src/src/main.rs:469`) runs the import on every tick and the import never
waits for anything, and time passes. No fairness is assumed of `Crash`.
`Reconstruction` assumes `WF(Round)`: the daemon runs a round on every
tick (`src/src/main.rs:506`), also after one that failed, and a round only
works on local files and its own database. Nothing is assumed of Codex there.
`RolloutTail` assumes no fairness, since nothing in the code repeats its run.
`SamplingCollector`, `RolloutTail` and `RecordStream` say `CHECK_DEADLOCK FALSE` because the bounds on the clock, the bytes and the records stop the
writer once the reader has caught up. `Reconstruction` does not deadlock, rounds
go on for ever. `Service` assumes that a process at work goes on (`WF(Work)`),
that a tick that is due and a server that has ended stay so until the loop,
which picks at random among what is ready, takes them (`SF(Tick)`,
`SF(ServeEnds)`, where a server has ended only when no connection is left), that a
request is answered or fails, and that the main actor
runs its termination handler; nothing is assumed of people, Codex, launches,
health polls, pages (`ClosePage`), timers of official usage or signals. `Dashboard` and `Service` say
`CHECK_DEADLOCK FALSE`: without a page, or with the app quit and the bound on
events used up, nothing more has to happen. `UsageLedger` never stops: a history can be replayed at
any time.

### What the violated runs show

1. **Late start** (`src/src/store/account_repository.rs:541`). The day in which
   the first epoch starts is rounded down. When the first window of the log was
   ambiguous, the first *resolved* epoch starts in mid-day, and the unassigned
   rollup rows of that whole day go to its account, although the comment above
   and `src/docs/contracts/accounting.md:264` limit history to complete periods.
2. **Replay** (`src/src/store/ingest_repository.rs:85`). The sampling import
   inserts a row without looking at `compacted_event_keys`, so the keys do not
   protect it against a cursor reset, which is what
   `src/src/store/migrations.rs:395` says they are for.
3. **Watermark** (`src/src/sampling.rs:347`). Rows are admitted by whole seconds
   and lines by nanoseconds. A line just before its row, on the other side of a
   whole second, is consumed by a run that does not see the row; the row is
   imported later without tokens. `src/README.md:208` says that this cannot
   happen.
4. **Torn commit** (`src/src/sampling.rs:303`). Events and candidate cursors are
   committed separately. After a crash in between, a consumed line can be
   matched to a second row, so its tokens count twice. `src/README.md:261` says
   that the match is one to one.
5. **Stale page** (`src/src/api.rs:46`). An answer is cached for ten seconds, and
   the page fetches once after the first change event it has not yet fetched
   for (`src/web/src/App.tsx:107`). If that fetch meets an entry older than the
   change, the page shows the old answer until the ledger changes again; the
   comment at `src/src/api.rs:39` has live updates at most one tick behind.

## Proofs

### The ledger

`UsageLedger_proofs` proves, for any facts, threads, accounts, projects,
histories and retention windows that satisfy `LedgerAssumption` and
`EventsApart` (the named assumptions of `UsageLedger`, which TLC evaluates):

| Theorem | States | Hypotheses |
|---|---|---|
| `TypeCorrect` | `[]TypeOK` | none |
| `FactsCountedOnce` | `[]CountedOnce` | `LogsKept`, `HistoriesStartFirst` |
| `RowsOfRawFactsFound` | `[]RawRowsFound` | the same |
| `CompactionIsLossless` | `CompactionLosesNothing` | the same |
| `TotalsKept` | `TotalsUnchanged` | the same |
| `BoundaryStaysUnknownHolds` | `BoundaryStaysUnknown` | the same |
| `AccountsMergeWholeHolds` | `AccountsMergeWhole` | the same |

`LogsKept` says that the log cursor is not lost. `HistoriesStartFirst` says that
no fact precedes a history on the day its first epoch starts. Neither is a
convenience: run `UsageLedgerReplay` drops the first and breaks `CountedOnce`.
Without the second, the day's row of a fact before the epoch moves to the
account while the fact itself stays unassigned, so `RawRowsFound` breaks (run
`UsageLedgerLateStart` shows the same step violating `BoundaryStaysUnknown`).

The argument. `CountedOnce` is not inductive: before verification rollups may
be incomplete, and whether a later step counts a fact once depends on where the
fact is counted now. The invariant `IInv` adds what is missing:

- `SettledExact`: every fact once the rollup is verified, and a fact that is not
  a legacy one even before, is counted exactly once if stored and under its own
  key if it is raw, and is never both raw and compacted;
- `LegacyCounted`: until then a legacy fact keeps its raw detail, and once
  backfill has passed it its own key is among its rows, possibly beside others
  that an early update trigger left; so equal totals mean exactly that row;
- `PhasesOrdered`: verified implies complete, complete implies backfilled;
- `LogsAhead`: the log cursor is past every stored sample, so an import meets
  only new ones;
- `KeysExpired`: a compacted fact is below the retention window, so a rollout
  that is read again takes the path that consults the keys.

Each action has a lemma (`SampleKeeps`, `RolloutKeeps`, `BackfillKeeps`,
`VerifyKeeps`, `CompactKeeps`, `ReprojectKeeps`, `RemapKeeps`, `HistoryKeeps`),
resting on lemmas about the triggers (`TriggerUpdateSingle`, `RewriteKeeps`) and
about the periods a history claims (`DayClaimCovers`: under `HistoriesStartFirst`
an epoch that claims a day covers every fact of it). `NextIInv` combines them.
`CompactionLosesNothing` and `TotalsUnchanged` follow from the invariant, and
`OnlyCompactionForgets` shows that no other action gives up raw detail.

The other two action properties speak of accounts. `IInv` leaves the hourly rows
open, since only days are backfilled and verified; a second invariant,
`HourlyExact`, says that the hour of a raw fact is its own row and that a fact
which is not stored has none. A row then changes its account in two ways only
(`RewritesOnly`). Either a history is stored: a raw fact is rewritten from the
epoch that covers it, and a row without raw detail is handed over only if its
claimed hour or day lies within one epoch (`HourClaimCovers`, `DayClaimCovers`),
which then covers the fact: `BoundaryStaysUnknown` (`HistoryHours`,
`HistoryDays`). Or the ledger is remapped along the aliases, which leaves nothing
under the old account anywhere: `AccountsMergeWhole` (`RemappedRow`).

### Induction over data

The induction theorems of the TLAPS library take an operator as a parameter,
which the installed provers cannot instantiate. `Induction` states the same with
sets: `SetInduction` and `BoundedInduction` are derived from the well-foundedness
of `<` on the numbers (a fact without operator parameters), and `GreatestElement`
from them. `RecursionExists` says that a function defined by recursion on
`0 .. N` exists, with the steps given as a function. `TotalUnion` says that the
sum over two disjoint finite sets is the sum of both, for weights given as a
function, whichever element the fold of the community modules takes first. From
it follow, by `FiniteInduction`, what the totals of the dashboard need: sums of
equal, smaller or added weights (`TotalSame`, `TotalGrows`, `TotalPlus`,
`TotalPart`), the exchange of rows and columns of a table (`TotalTable`) and the
sum over the fibers of a map (`TotalFibers`). The shares of a whole rest on sums
of counts, multiples and products (`TotalCounts`, `TotalScales`, `TotalProduct`),
on the ranks of a strict order (`RankCounts`) and on `LargestRemainders`. With
these, the recursive functions of the model (the chunks of a poll, the rows a
run observes, the records a parser reads, the tokens of a set of facts) are
reasoned about for every input.

### The collector

| Theorem | States | Hypotheses |
|---|---|---|
| `TypeCorrect` | `[]TypeOK` | none |
| `NoSampleSkippedHolds` | `[]NoSampleSkipped` | none |
| `OneToOneUnlessTornHolds` | `[]OneToOneUnlessTorn` | none |
| `ImportIsFinalHolds` | `ImportIsFinal` | none |
| `MatchedUnlessPartedHolds` | `[]MatchedUnlessParted` | `PromptWriter`, `TailHoldsThread` |

All under `CollectorAssumption`. The inductive invariant `CollectorInvariant`
says what a run may rely on between two of its transactions, in particular after
a crash has thrown its locals away: rows and lines are in the order of their
time stamps (`LogInOrder`, `FilesInOrder`); the events are exactly the rows up to
the log cursor (`ImportedAreBehind`), and what is still to be committed are the
rows that follow it (`BatchIsNext`); the lines of the events to be committed lie
between the durable candidate cursor and the one to come, no two alike
(`BatchLinesAhead`); and the line of an event is before the candidate cursor, or
will be when the run is through, unless a crash was torn (`LinesHeld`), so that
no later run can match it again (`EachLineOnce`). `BatchIsNext` is where the
watermark meets the order of ids: the eligible rows past the cursor are a
segment of the log, because a row with a greater id has no smaller time stamp.

`MatchedUnlessParted` needs more: at the time the watermark reaches a sample,
its row and its line are both on disk, and the line is within what is read of
the thread. The first is `PromptWriter`: the tolerance and the delay together
are less than the watermark's lag (a quarter of a second and a writer's delay
against five seconds). The second is `TailHoldsThread`: a thread that has no
candidate cursor yet is read from its last 16 MiB only
(`src/src/sampling.rs:173`), so a line before them is not found. Both hold in
the instance TLC checks.

### The tailer

| Theorem | States |
|---|---|
| `TypeCorrect` | `[]TypeOK` |
| `CursorMatchesLinesHolds` | `[]CursorMatchesLines` |
| `LinesApartHolds` | `[]LinesApart` |
| `FilesAreStreamsHolds` | `FilesAreStreams`, the refinement |
| `CursorKeepsItsFileHolds` | `CursorKeepsItsFile` |

All under the assumptions of `JsonlTail` and `RolloutTail`, for any files, chunk
sizes and line limits. The lemmas are about `poll_reader` alone: its lines are
those that end between the checkpoint and the end of the chunk
(`LinesBetween`), whatever of a line was already in the checkpoint's partial
buffer, and the checkpoint it leaves stands in the file again (`StandsIn`). The
invariant `TailInvariant` then says of the durable cursor, and of a batch that
is polled but not committed, that the lines taken are those before it in a file
that was never cut (`Faithful`), and that in any file they end before it
(`Settled`), so that lines polled from a file that was cut and grew again do not
overlap the old ones. `CurrentUnread` and `FreshFilesUntouched` say that no other
file has lines: a replacement under a durable cursor ends the run.

Each action of the code is a step of `LineStream` for one file and a stutter for
the others: an append, replacement or truncation by Codex, and a commit, which
takes lines up to a prefix that is not shorter than the one before.

### The reconstruction

| Theorem | States | Assumptions |
|---|---|---|
| `RecordStream_proofs!TypeCorrect` | `[]TypeOK` | those of `RolloutRecords` and `RecordStream` |
| `RecordStream_proofs!UsageTelescopesHolds` | `[]UsageTelescopes` | the same |
| `Reconstruction_proofs!TypeCorrect` | `[]TypeOK` | those of `Reconstruction` |
| `Reconstruction_proofs!StatusAgrees` | `[]StatusMatchesCheckpoint` | the same |
| `Reconstruction_proofs!FactsOfOneFile` | `[]OneFileCounted` | the same |
| `Reconstruction_proofs!OneReading` | `[]FactsMatchCheckpoint` | the same |

`RecordStream_proofs!TypeCorrect` rests on `Consistent`: a parser that has seen a
total has its time, and one that still looks for its own `session_meta` has seen
none. What it shows is that `process_line` never makes a fact the ledger
refuses, whatever the counter does.

`UsageTelescopes` is stated of the stream, without the parser: the facts of an
epoch add up to the last total in it, less the first total after the copied
prefix if the epoch began with one. The invariant `Tracking` ties the parser to
the stream (`ParserTracks`: its phase, its previous total and its epoch are those
the stream determines) and the facts to the parser (`FactsBehind`: none is of a
later epoch), and has the sum of every epoch as a conjunct. A record then either
leaves an epoch alone (`TelescopesKept`), or adds one fact to the last one, or
begins a new one. Sums over sets of facts are a fold that the module defines by
choice of an order; that one more fact adds its usage (`SumAdds`) is an induction
over the size of the set.

For the properties of the rounds, neither `StatusMatchesCheckpoint` nor
`OneFileCounted` is inductive: a commit files facts under the file that was
*opened*, which need not be the one in the status, and a poll must not be taken
for a source that was given up. `Inv` adds

- `QueueReady`: the sources in the queue are distinct and can be read on, so
  giving one up leaves the others as they were queued;
- `OpenedFits`: between stat and poll, a source that has a checkpoint keeps the
  file of the checkpoint, so old and new facts are of one file; a source without
  one has no facts at all, by `StatusMatchesCheckpoint`;
- `TargetLost`: a checkpoint is dropped only behind a status that gives the
  source up.

`PollTargetInv` is where these meet. `OneReading` has an invariant of its own,
`CheckpointInv`, and rests on `ReadInPieces`: what a parser makes of a file in
two pieces, the second with the parser the first has left, is what it makes of
it in one. So however a rollout is cut into chunks, and whatever crash, replaced
or missing file comes between them, its facts and the parser in its checkpoint are
those of one reading of the file up to the checkpoint. The exception is a file
that was given other records in place while a checkpoint was at it: `CheckpointCodex`
shows that no other step of Codex changes the records before a checkpoint, and
there the code has no such guarantee. The theorems hold for any number of
sources, files, faults and crashes.

### The dashboard

| Theorem | States |
|---|---|
| `TypeCorrect` | `[]DashboardTypeOK` |
| `SelectionCurrentHolds` | `[]SelectionCurrent` |
| `WindowCountsOnceHolds` | `[]WindowCountsOnce` |
| `AllNotBelowOneHolds` | `[]AllNotBelowOne` |
| `ExactIsEveryDayHolds` | `[]ExactIsEveryDay` |
| `PointsAddUpHolds` | `[]PointsAddUp` |
| `SameAnswerEveryWayHolds` | `[]SameAnswerEveryWay` |
| `ResidualConservedHolds` | `[]ResidualConserved` |
| `TreesAgreeHolds` | `[]TreesAgree` |

All for any facts, threads, batches, scans, answers, slots, periods and
filters of the page, lengths of hour, day and week, under the named assumptions
of `EffectiveSource`, `Queries`, `Reconciliation` and `Dashboard`. Among these are
that the accounts are finitely many, and that the collector's batches hold
sampled facts and the tailer's reconstructed ones.

The type invariant is inductive with `TypeInv`, in six parts: the evidence lies
before the clock and the raw rows of the rolling window are kept (`EvidenceInv`);
requests, cache and page (`RequestsOK`, `PageOK`); the catalog and the
memberships made of it (`CatalogOK`); the choice (`ChoiceOK`); and what is stored
of the official answers (`OfficialOK`).

`SelectionCurrent` is inductive with the type of the marker. A transaction that
changes confirmed evidence marks it dirty (`Dirtied`), one that does not leaves
the best choice as it was (`SameBest`), compaction among them, since the rollups
keep what it removes; and a refresh makes the choice that the evidence of its
moment calls for.

`WindowCountsOnce` is about a request that reads its window statement by
statement, raw rows at the ends and hour rollups between, each in a transaction
of its own. The invariant `WindowInv` has four parts:

- `Spans`: the statements still to be read begin where the last one ended and
  end at the end of the window, each of whole hours or days except where raw
  rows are read, and those only within the rolling window
  (`StatementsSpan`, from the arithmetic of `ExactHourWindow`);
- `EvidenceInv`: raw rows of the rolling window are retained, so raw rows and
  rollups hold the same facts there (`ReadsEvidence`);
- `Counting`: the sum of an undisturbed request is that of the evidence from the
  start of its window to where the rest begins, and a request that has refreshed
  for its next statement reads a clean marker unless a write has disturbed it;
- `NoReader`: the clock stands while a page is open, so the window of a request
  does not move.

A statement then adds the evidence of its own part (`CountingReads`), and with
none left the sum is that of the whole window.

The other six say how the answers of one state hang together, so they follow
from `TypeInv` (and from `RebuiltOK`, that the rebuilt evidence is all
reconstructed). The first three are shown for one account at a time, and then
summed.

- `AllNotBelowOne`: an account that was seen is among all of them, so the scope of
  all accounts covers it when it does (`CoverageGrows`), and each of the three
  parts of the total shown is at least that of the one account (`OfficialGrows`,
  `LocalGrows`). The exception about lifetime is needed exactly there: with some
  lifetime totals missing, all accounts fall back to buckets and one does not.
- `ExactIsEveryDay`: a total is exact only if every account expected is covered,
  from the first day of the period to its last, so each day of the chart is too
  (`CoveredDayExact`), and nothing local is left to add.
- `PointsAddUp`: the days of one account are those before its coverage, which only
  the chart has, those covered, which are its buckets, and those after, which are
  the local usage after coverage (`AccountAddsUp`). The chart sums by day and the
  total by account; `TotalTable` exchanges the two. The weeks are the fibers of
  the days (`TotalFibers`), the official points are the buckets day by day
  (`OfficialPointsAddUp`), and the coverage of the attribution shares the days of
  the buckets out (`CoverAddsUp`).
- `SameAnswerEveryWay`: a period stands for one set of facts per statement
  (`PeriodSets`). `IsSplit(A, R, g)` says that the answer `A` shares out the tokens
  of the sets `R` by the key `g`, and then `A` adds up to all of them
  (`SplitWhole`), to those with one key where that key is asked for (`SplitValue`),
  and stays a split when its keys are made coarser (`SplitRekeyed`) or the buckets
  of several statements are merged (`SplitMerged`). Each route is a split of the
  same sets: the points by hour, day and week (`PointsWhole`), the breakdowns
  (`BreakdownShares`), the projects (`ProjectSeriesWhole`, `ExplorerAgrees`) and the
  coverage (`CoverShares`). Hours and days hold the same facts of a period of whole
  days (`HoursAsDays`). Usage of unknown quality is read from the exact window in
  the chart and by whole days in the total, so for `rolling7` the points are at
  most the total: the statements of the window are apart (`StatementsApart`), and
  each lies within its days (`DoubtWithin`). The raw rows of days that compaction
  cannot have touched are the rows of their rollups (`RawMatches`).
- `ResidualConserved`: the whole parts of the shares and their remainders add up to
  the target, so the tokens left over are at most as many as there are components
  with a remainder. As many components have a rank below that number
  (`RankCounts`), each with a remainder, so one more token takes no component above
  its weight (`LargestRemainders`). The rows of an account and day hold its facts
  (`RowsWhole`), the allocation gives out its residual (`RowsAllocated`), and the
  days and projects are the fibers, and the columns, of the account days
  (`EstimateAddsUp`).
- `TreesAgree`: a thread of a session tree is the root or has its parent in the
  tree, one level above (`DepthsGrow`), so no thread is in two trees (`OneRoot`)
  and the members of a root are the threads of its tree (`TreesAreMembers`): list
  and detail are about the same threads. The detail adds up level by level, the
  deepest first. What the root and the threads above the levels already added
  (`Remaining`) hold together is the usage of the whole tree: adding one more level
  to its parents loses nothing of it (`LevelGathers`), and once all levels are
  added the root holds the sum (`RootGathers`, `SubtreeIsWhole`), which is what the list reads for the
  tree (`ThreadsShare`) and what the days of its timeline add up to
  (`TimelineShares`). The trees are the fibers of the memberships, so they share
  out the usage of all threads with a root (`TreesAddUp`). A fact counts as
  standalone only if its thread is a member of a standalone root, which a fresh
  membership takes from the catalog that the filters are made of
  (`UsageIsOffered`).

### The service

| Theorem | States | Hypotheses |
|---|---|---|
| `TypeCorrect` | `[]ServiceTypeOK` | none |
| `SettledUnlessTornHolds` | `[]SettledUnlessTorn` | none |
| `FiledRightlyHolds` | `[]FiledRightly` | `OnePersonPerWorkspace`, `TruthfulPasts` |

All under the named assumptions of `AuthEpochs` and `Daemon`: for any number of
people, workspaces, files and pasts, and runs of any length.

A step of the process finishes what an earlier one began, so the first invariant,
`IInv`, says what is owed to the step that comes next. `ProcessOK`: a link, a
merge or a history that is begun is at the head of `todo`, and a history that is
linked is replaced next. `ReadOK`: a link or merge to come is of the identity
that was read, and the merge's alias is already written. `Settled` is
`SettledUnlessTorn` with the work under way excepted: an epoch has the account of
its alias, unless the link or the merge that comes next is about that account;
the inferred epochs are those of the imported rows, unless the history comes
next; and if they are to be replaced, every workspace has its alias. A kill
empties `todo`, and `torn` records what was owed. `Owns` ties the controller to
the process: one that runs is its child, in its mode.

`FiledRightly` is about the world as well as the ledger: that a line is filed
under the person who wrote it depends on who was logged in. `RightInv` adds

- `WorldTrue`: the rows show whoever is logged in, and whoever wrote a line when
  it was written (`Witnessed`);
- `EpochsTrue`: an observed epoch has the account of its credentials, and so have
  the lines in it that were not written before the login was observed; a
  historical one has a known account, whose workspace was seen in it or later;
- `AliasTrue` and `BindingTrue`: aliases lead to known accounts, and the open
  epoch is that of the account that is bound, or about to be;
- `RequestTrue`: an answer under way was asked for who was logged in.

A line in an observed epoch is then filed rightly by `ObservedTrue`. For one in a
historical epoch, unless the history is torn, `Settled` has the epoch as one that
the imported rows call for, a window between two logouts with one workspace in it
(`WindowFrom`, `InferredWindow`). The row that witnesses the line's writer is in
that window, if it is imported (`InferredRight`); if it is not, the line is
`Doubtful`.

The two hypotheses are about the world that is given, and each is needed.
Without `OnePersonPerWorkspace` the merge at
`src/src/store/account_repository.rs:182` hands the epochs of one person to
another of the same workspace, and the lines in them with it. `TruthfulPasts`
says of what happened before the app was first opened what the model itself
sees to afterwards: that no one writes without being logged in, and that the log
shows a login. It also says that the rows which show a login are not older than the first
sample. Otherwise they are in no window (`src/src/account_history.rs:294`), and
what looks like one workspace's window may have begun as another's: with
`FirstSample = 1` in `Service.cfg`, the first past violates `FiledRightly`. Both
hold in the instance of the run: `MCService` has them as an assumption, which
TLC evaluates.

### What is only model-checked

The liveness properties (`EverySampleImported`, `CheckpointReclaimed`,
`EveryRolloutRead`, `CollectionFollows`): they are out of the prover's reach, which has no rules for fairness and `ENABLED`. Every safety
invariant and action property of a passing run is a theorem.

## Not modelled, and why

The arithmetic of the token dimensions beyond the five parts of `Dashboard`,
thread titles and models (they ride along with a fact and no modelled step
depends on them); the accounts and projects of reconstructed facts, which the
ledger's rewrites touch as well; a round limited to one project, and rollouts
outside the Codex directories, which a round passes over; an `auth.json` that
names no workspace; two processes
writing to one database, such as a daemon that outlives an app that crashed;
several log shards; a rollout that is missing or replaced while the sampling
collector reads it; malformed lines; quota side effects of `ingest_one_file`;
official usage of single threads; an error between two transactions of the
account history, which leaves what a kill leaves. Of the API, labels, quota
views, snapshot export and the shape of the JSON; of the web dashboard, the
components that draw it; the windows and menus of the macOS app: they only
read. `normalize_quota_payload` and path matching are conversions without state.
The app-server protocol is external. The replay guard serves `ingest_one_file`
alone, which only tests call, and is in the plan.

## Plan

1. `ReplayGuard`: the phases of inherited history, counter subtraction with
   overflow and resets (`replay.rs`, `types.rs`), against the abstract
   specification "own usage is added once, inherited usage never".
2. `AuthEpochs` implements the `Timelines` of `UsageLedger`: the epochs it infers
   are ordered and disjoint.
3. The rollups of reconstructed facts as `Reconstruction` writes them, which
   `EffectiveSource` takes as given, and rounds for one project.
