----------------------------- MODULE RolloutTail -----------------------------
(***************************************************************************)
(* ingest_one_file of src/src/runtime.rs over the tailer of src/src/       *)
(* ingest.rs: a rollout is polled chunk by chunk; the lines of a chunk and *)
(* the checkpoint behind them are committed in one transaction; the next   *)
(* run resumes from the committed checkpoint.  Codex appends to the file   *)
(* at any moment, also in the middle of a line; the file may be replaced   *)
(* or truncated, and the process may die, between any two steps.  Only     *)
(* tests call ingest_one_file; what the daemon has of all this is the      *)
(* tailer, which the reconstruction reads with.  Nothing repeats a run, so *)
(* nothing is said here of what runs reach in the end.                     *)
(***************************************************************************)
EXTENDS JsonlTail

CONSTANTS
    Writes,          \* the byte strings Codex appends at once
    First,           \* the file at the path to begin with
    NoCursor,
    MaxBytes,        \* bound on the bytes on disk
    MaxTruncations,  \* bound on truncations
    MaxCrashes       \* bound on crashes

ASSUME RolloutAssumption ==
    /\ Writes \subseteq Seq(Byte)
    /\ First \in Identities
    /\ NoCursor \notin Checkpoint
    /\ {MaxBytes, MaxTruncations, MaxCrashes} \subseteq Nat

VARIABLES
    disk,         \* disk[f]: the bytes of file f
    current,      \* the file at the path
    cursor,       \* file_cursors: the durable checkpoint, or NoCursor
    stored,       \* stored[f]: the lines of f whose events are durable
    phase,        \* "idle", "reading" or "polled"
    tail,         \* the tailer's checkpoint
    batch,        \* the polled lines and the checkpoint behind them
    resumed,      \* the run began from a durable cursor
    cut,          \* history: the files that were ever truncated
    truncations,
    crashes

reader == <<cursor, stored, phase, tail, batch, resumed>>
writer == <<disk, current, cut, truncations>>
vars == <<disk, current, cursor, stored, phase, tail, batch, resumed, cut,
          truncations, crashes>>

NoBatch == [lines |-> {}, checkpoint |-> Fresh]

TypeOK ==
    /\ disk \in [Identities -> Seq(Byte)]
    /\ current \in Identities
    /\ cursor \in {c \in Checkpoint : c.identity # NoFile} \cup {NoCursor}
    /\ stored \in [Identities -> SUBSET Line]
    /\ phase \in {"idle", "reading", "polled"}
    /\ tail \in Checkpoint
    /\ batch.lines \subseteq Line
    /\ batch.checkpoint \in Checkpoint
    /\ resumed \in BOOLEAN
    /\ cut \in SUBSET Identities
    /\ truncations \in Nat
    /\ crashes \in Nat

-----------------------------------------------------------------------------
(* Codex.                                                                  *)

BytesOnDisk == FoldSet(LAMBDA f, n : Len(disk[f]) + n, 0, Identities)

AppendBytes(w) ==
    /\ BytesOnDisk + Len(w) <= MaxBytes
    /\ disk' = [disk EXCEPT ![current] = @ \o w]
    /\ UNCHANGED <<current, cut, truncations, crashes, reader>>

\* Another physical file takes the path; it has not been there before.
Replace(f) ==
    /\ f # current
    /\ disk[f] = << >>
    /\ disk[current] # << >>
    /\ current' = f
    /\ UNCHANGED <<disk, cut, truncations, crashes, reader>>

Truncate(n) ==
    /\ truncations < MaxTruncations
    /\ n < Len(disk[current])
    /\ disk' = [disk EXCEPT ![current] = SubSeq(@, 1, n)]
    /\ cut' = cut \cup {current}
    /\ truncations' = truncations + 1
    /\ UNCHANGED <<current, crashes, reader>>

-----------------------------------------------------------------------------
(* The run over one file.                                                  *)

EndRun ==
    /\ phase' = "idle"
    /\ tail' = Fresh
    /\ batch' = NoBatch
    /\ resumed' = FALSE

\* discover_pending_rollouts passes over a file that its cursor has finished.
Pending ==
    \/ cursor = NoCursor
    \/ cursor # NoCursor /\ cursor.identity # current
    \/ cursor # NoCursor /\ cursor.next # Len(disk[current])

BeginRun ==
    /\ phase = "idle"
    /\ Pending
    /\ phase' = "reading"
    /\ resumed' = (cursor # NoCursor)
    /\ tail' = IF cursor = NoCursor THEN Fresh ELSE cursor
    /\ UNCHANGED <<cursor, stored, batch, writer, crashes>>

\* Mutant: a file that was replaced under a cursor is read from its start.
RefusedNever(from) == TooLong(Combined(from, disk[current]))

\* A reset ends a run that began from a cursor, a line too long any run.
Refused(from) ==
    \/ resumed /\ Reset(tail, current, Len(disk[current]))
    \/ TooLong(Combined(from, disk[current]))

Poll ==
    /\ phase = "reading"
    /\ LET from == Resumed(tail, current, Len(disk[current]))
       IN  IF Refused(from)
           THEN EndRun
           ELSE /\ batch' = [lines      |-> PolledLines(from, disk[current]),
                             checkpoint |-> PolledCheckpoint(from, disk[current])]
                /\ phase' = "polled"
                /\ UNCHANGED <<tail, resumed>>
    /\ UNCHANGED <<cursor, stored, writer, crashes>>

\* Mutant: a cursor may be moved back.
RegressionAllowed == FALSE

\* advance_cursor_in
CursorRegresses ==
    /\ cursor # NoCursor
    /\ cursor.identity = batch.checkpoint.identity
    /\ batch.checkpoint.next < cursor.next

\* The chunk was the last of the file, or brought nothing new.
ReachedEnd ==
    \/ batch.checkpoint.next >= Len(disk[current])
    \/ batch.checkpoint.next = tail.next

Commit ==
    /\ phase = "polled"
    /\ ~CursorRegresses
    /\ stored' = [stored EXCEPT ![batch.checkpoint.identity] = @ \cup batch.lines]
    /\ cursor' = batch.checkpoint
    /\ IF ReachedEnd
       THEN EndRun
       ELSE /\ phase' = "reading"
            /\ tail' = batch.checkpoint
            /\ batch' = NoBatch
            /\ UNCHANGED resumed
    /\ UNCHANGED <<writer, crashes>>

\* CursorRegression: the transaction rolls back and the run ends.
CommitFails ==
    /\ phase = "polled"
    /\ CursorRegresses
    /\ EndRun
    /\ UNCHANGED <<cursor, stored, writer, crashes>>

Crash ==
    /\ phase # "idle"
    /\ crashes < MaxCrashes
    /\ crashes' = crashes + 1
    /\ EndRun
    /\ UNCHANGED <<cursor, stored, writer>>

-----------------------------------------------------------------------------
Init ==
    /\ disk = [f \in Identities |-> << >>]
    /\ current = First
    /\ cursor = NoCursor
    /\ stored = [f \in Identities |-> {}]
    /\ phase = "idle"
    /\ tail = Fresh
    /\ batch = NoBatch
    /\ resumed = FALSE
    /\ cut = {}
    /\ truncations = 0
    /\ crashes = 0

Codex ==
    \/ \E w \in Writes : AppendBytes(w)
    \/ \E f \in Identities : Replace(f)
    \/ \E n \in 0 .. MaxBytes : Truncate(n)

Run ==
    \/ BeginRun
    \/ Poll
    \/ Commit
    \/ CommitFails

Next ==
    \/ Codex
    \/ Run
    \/ Crash

Spec == Init /\ [][Next]_vars

-----------------------------------------------------------------------------
(* Properties.                                                             *)

Stream(f) == INSTANCE LineStream WITH
    content <- disk[f], cut <- f \in cut, taken <- stored[f]

\* Each physical file is a line stream: chunk boundaries, resumed runs, crashes
\* and a file taking another's path do not show in the lines that are durable.
FilesAreStreams ==
    /\ \A f \in Identities : Stream(f)!Init
    /\ [][\A f \in Identities :
             Stream(f)!Next \/ UNCHANGED <<disk[f], f \in cut, stored[f]>>]_vars

\* The durable lines are exactly those before the durable cursor: a crash between
\* reading and committing neither loses a line nor stores it twice.
CursorMatchesLines ==
    cursor # NoCursor /\ cursor.identity \notin cut =>
        stored[cursor.identity] =
            LinesOf(SubSeq(disk[cursor.identity], 1, cursor.next))

\* Even when a file was truncated and grew again between two polls, no two events
\* claim the same bytes, and line numbers follow the places.
LinesApart ==
    \A f \in Identities : \A l, m \in stored[f] :
        l # m => \/ l.number < m.number /\ l.offset + Len(l.raw) < m.offset
                 \/ m.number < l.number /\ m.offset + Len(m.raw) < l.offset

BelongsTo(f) == cursor # NoCursor /\ cursor.identity = f

\* A cursor a run has left behind stays with its file: when the file is replaced
\* or truncated, later runs refuse to touch the audit history.
CursorKeepsItsFile ==
    \A f \in Identities : [](phase = "idle" /\ BelongsTo(f) => []BelongsTo(f))
=============================================================================
