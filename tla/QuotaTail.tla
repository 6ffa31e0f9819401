----------------------------- MODULE QuotaTail ------------------------------
(***************************************************************************)
(* One file of ingest_quota_tails (src/src/runtime.rs): the complete quota *)
(* lines behind the cursor are filed, in order, under the account of the   *)
(* epoch that covers each, up to the first line that no epoch covers.      *)
(*                                                                         *)
(* Offsets are counted in quota lines: lines without rate limits, and a    *)
(* last line that is still being written, are never taken.                 *)
(***************************************************************************)
EXTENDS AuthEpochs, SequencesExt

CONSTANTS
    Values,          \* quota payloads, after normalisation
    BootstrapLines   \* lines in the last 4 MiB of a file

\* A quota line: who was logged in when Codex wrote it, and whether the
\* ledger then held another login for the current one (ghosts).
Line == [at : Nat, value : Values, by : Identity, stale : BOOLEAN]
\* A row of quota_snapshots, in the order of their row ids.  doubt is a ghost:
\* the reader had reason not to know who was logged in at the line's time.
Snapshot == [account : Fingerprint, at : Nat, value : Values, by : Identity, doubt : BOOLEAN]

Cursor == [id : Nat, taken : Nat]

CursorMatches(cursor, file) == cursor # None /\ cursor.id = file.id

StartLine(cursor, file) ==
    LET size == Len(file.lines)
    IN  IF CursorMatches(cursor, file)
        THEN IF cursor.taken <= size THEN cursor.taken ELSE size
        ELSE IF size <= BootstrapLines THEN 0 ELSE size - BootstrapLines

\* safe_offset: the first uncovered line stays before the cursor.
SafeLine(epochs, file, start) ==
    LET size == Len(file.lines)
        held == {i \in start + 1 .. size : EpochAt(epochs, file.lines[i].at) = None}
    IN  IF held = {} THEN size ELSE Min(held) - 1

\* ORDER BY observed_at DESC, rowid DESC LIMIT 1
LatestSnapshot(quota, account) ==
    LET rows == {i \in DOMAIN quota : quota[i].account = account}
    IN  IF rows = {} THEN None
        ELSE quota[CHOOSE i \in rows : \A j \in rows :
                       \/ quota[j].at < quota[i].at
                       \/ quota[j].at = quota[i].at /\ j <= i]

\* INSERT OR IGNORE: the id of a snapshot is a digest of account, time and
\* payload (and of the epoch's generation, which adds nothing here).
AppendQuotaSnapshot(quota, snapshot) ==
    IF \E i \in DOMAIN quota : /\ quota[i].account = snapshot.account
                               /\ quota[i].at = snapshot.at /\ quota[i].value = snapshot.value
    THEN quota ELSE Append(quota, snapshot)

\* A payload equal to the latest of its account is not stored again.
FileLine(quota, epochs, line, doubt) ==
    LET account == EpochAt(epochs, line.at).account
        latest  == LatestSnapshot(quota, account)
    IN  IF latest # None /\ latest.value = line.value THEN quota
        ELSE AppendQuotaSnapshot(quota, [account |-> account, at |-> line.at, value |-> line.value,
                                         by |-> line.by, doubt |-> doubt])

\* Doubt(line) is evaluated when the line is filed.
FileLines(quota, epochs, lines, Doubt(_)) ==
    LET filed[n \in 0 .. Len(lines)] ==
            IF n = 0 THEN quota
            ELSE FileLine(filed[n - 1], epochs, lines[n], Doubt(lines[n]))
    IN  filed[Len(lines)]
=============================================================================
