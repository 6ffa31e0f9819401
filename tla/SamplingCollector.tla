-------------------------- MODULE SamplingCollector --------------------------
(***************************************************************************)
(* Post-sampling import, src/src/sampling.rs.  A row of Codex's logs_2     *)
(* database says that a thread sampled the model; the token counts of that *)
(* sample are a line of the thread's rollout file.  A run reads the rows   *)
(* past its log cursor and the lines past each thread's candidate cursor,  *)
(* both up to a watermark some seconds in the past, matches each row to    *)
(* the nearest unused line within a tolerance, and commits events in       *)
(* chunks with the log cursor, then the candidate cursors one by one.  The *)
(* process may die between any two commits.                                *)
(*                                                                         *)
(* Time is counted in ticks of the tolerance's size; a row's eligibility   *)
(* is decided in whole seconds, a line's to the tick.                      *)
(***************************************************************************)
EXTENDS Naturals, Sequences, FiniteSets, SequencesExt

CONSTANTS
    Samples,       \* model calls; each writes one log row and one rollout line
    Threads,
    ThreadOf,
    ObservedAt,    \* time stamp of a sample's log row
    LineAt,        \* time stamp of its token_count line
    Tolerance,     \* 250 milliseconds
    SecondLength,  \* ticks in a second
    SafeLag,       \* ticks the watermark stays behind the clock
    WriteDelay,    \* ticks a row or a line may take to reach the disk
    ChunkSize,     \* events committed in one transaction
    TailLines,     \* lines in the tail a thread without a cursor is read from
    MaxTime,       \* bound on the clock
    MaxCrashes,    \* bound on crashes
    NoCursor,      \* a thread without a candidate cursor
    Missing,       \* a sample that is not imported
    Unknown        \* one imported with zero usage: no line nearby

ASSUME CollectorAssumption ==
    /\ IsFiniteSet(Samples)
    /\ ThreadOf \in [Samples -> Threads]
    /\ ObservedAt \in [Samples -> Nat]
    /\ LineAt \in [Samples -> Nat]
    /\ Tolerance \in Nat
    /\ SecondLength \in Nat \ {0}
    /\ SafeLag \in Nat
    /\ WriteDelay \in 0 .. SafeLag
    /\ ChunkSize \in Nat \ {0}
    /\ TailLines \in Nat
    /\ MaxTime \in Nat
    /\ MaxCrashes \in Nat
    /\ NoCursor \notin Nat
    /\ {Missing, Unknown} \cap Samples = {}
    /\ Missing # Unknown

VARIABLES
    now,
    log,      \* logs: the sample of each row, by id
    file,     \* file[t]: the rollout lines of thread t, by the sample they count
    cursor,   \* log id of the last imported row
    offset,   \* candidate cursors: lines consumed per thread, or NoCursor
    usage,    \* usage_events: the line that gave a sample its tokens
    phase,    \* "idle", "read" or, once a chunk is committed, "committed"
    batch,    \* events of the current run still to be committed
    ends,     \* candidate cursors of the current run still to be committed
    crashes,
    torn,     \* history: a crash has parted events from their candidate cursors
    cuts      \* history: the watermarks each thread was read up to

vars == <<now, log, file, cursor, offset, usage, phase, batch, ends, crashes,
          torn, cuts>>

Second(t) == t \div SecondLength

Distance(a, b) == IF a <= b THEN b - a ELSE a - b

Event == [sample : Samples, line : Samples \cup {Unknown}]

TypeOK ==
    /\ now \in 0 .. MaxTime
    /\ log \in Seq(Samples)
    /\ file \in [Threads -> Seq(Samples)]
    /\ cursor \in 0 .. Len(log)
    /\ offset \in [Threads -> Nat \cup {NoCursor}]
    /\ \A t \in Threads : offset[t] # NoCursor => offset[t] <= Len(file[t])
    /\ usage \in [Samples -> Samples \cup {Missing, Unknown}]
    /\ phase \in {"idle", "read", "committed"}
    /\ batch \in Seq(Event)
    /\ DOMAIN ends \subseteq Threads
    /\ crashes \in 0 .. MaxCrashes
    /\ torn \in BOOLEAN
    /\ cuts \in [Threads -> SUBSET (0 .. MaxTime)]

-----------------------------------------------------------------------------
(* Codex, the writer of both sources.  Rows get ids, and lines places, in  *)
(* the order of their time stamps: the reader relies on it.                *)

Logged(s)  == s \in ToSet(log)
Written(s) == s \in ToSet(file[ThreadOf[s]])

AppendRow(s) ==
    /\ ~Logged(s)
    /\ ObservedAt[s] <= now
    /\ \A r \in Samples : ObservedAt[r] < ObservedAt[s] => Logged(r)
    /\ log' = Append(log, s)
    /\ UNCHANGED <<now, file, cursor, offset, usage, phase, batch, ends,
                   crashes, torn, cuts>>

AppendLine(s) ==
    /\ ~Written(s)
    /\ LineAt[s] <= now
    /\ \A r \in Samples :
          ThreadOf[r] = ThreadOf[s] /\ LineAt[r] < LineAt[s] => Written(r)
    /\ file' = [file EXCEPT ![ThreadOf[s]] = Append(@, s)]
    /\ UNCHANGED <<now, log, cursor, offset, usage, phase, batch, ends,
                   crashes, torn, cuts>>

\* No row or line is later on disk than WriteDelay.
Tick ==
    /\ now < MaxTime
    /\ \A s \in Samples : ObservedAt[s] + WriteDelay <= now => Logged(s)
    /\ \A s \in Samples : LineAt[s] + WriteDelay <= now => Written(s)
    /\ now' = now + 1
    /\ UNCHANGED <<log, file, cursor, offset, usage, phase, batch, ends,
                   crashes, torn, cuts>>

-----------------------------------------------------------------------------
(* One run.                                                                *)

\* A row is eligible by the second of its time stamp.
Eligible(s, safe) == Second(ObservedAt[s]) <= Second(safe)

\* WHERE id > start AND ts <= safe_before.timestamp() ORDER BY id
RowsAfter(start, safe) ==
    LET rows[n \in 0 .. Len(log) - start] ==
            IF n = 0 THEN << >>
            ELSE IF Eligible(log[start + n], safe)
                 THEN Append(rows[n - 1], log[start + n])
                 ELSE rows[n - 1]
    IN  rows[Len(log) - start]

\* Mutant: the row at the cursor is read again (id >= cursor).
ObservationsRereading(safe) == RowsAfter(IF cursor = 0 THEN 0 ELSE cursor - 1, safe)

Observations(safe) == RowsAfter(cursor, safe)

IdOf(s) == CHOOSE id \in DOMAIN log : log[id] = s

\* A first run reads every rollout whole, later ones from the candidate cursor;
\* a thread that has none is read from the tail of its file.
StartOffset(t) ==
    IF cursor = 0 THEN 0
    ELSE IF offset[t] # NoCursor THEN offset[t]
    ELSE IF Len(file[t]) > TailLines THEN Len(file[t]) - TailLines
    ELSE 0

\* Mutant: the whole file counts as read, its tail past the watermark too.
NextOffsetAtEnd(t, safe) == Len(file[t])

\* Reading stops before the first line that is past the watermark.
NextOffset(t, safe) ==
    CHOOSE end \in StartOffset(t) .. Len(file[t]) :
        /\ \A i \in StartOffset(t) + 1 .. end : LineAt[file[t][i]] <= safe
        /\ end < Len(file[t]) => LineAt[file[t][end + 1]] > safe

Candidates(t, safe) ==
    {file[t][i] : i \in StartOffset(t) + 1 .. NextOffset(t, safe)}

\* The nearest unused line, the earlier of two equally near ones.
Nearest(s, lines) ==
    CHOOSE l \in lines : \A k \in lines \ {l} :
        LET dl == Distance(LineAt[l], ObservedAt[s])
            dk == Distance(LineAt[k], ObservedAt[s])
        IN  dl < dk \/ (dl = dk /\ LineAt[l] <= LineAt[k])

\* Mutant: a line that is taken stays on offer.
UnusedOrUsed(s, used, safe) ==
    {l \in Candidates(ThreadOf[s], safe) :
        Distance(LineAt[l], ObservedAt[s]) <= Tolerance}

Unused(s, used, safe) ==
    {l \in Candidates(ThreadOf[s], safe) \ used :
        Distance(LineAt[l], ObservedAt[s]) <= Tolerance}

\* Rows are matched in the order of their ids.
MatchNext(matched, s, safe) ==
    LET used  == {matched[i].line : i \in DOMAIN matched}
        lines == Unused(s, used, safe)
    IN  Append(matched, [sample |-> s,
                         line |-> IF lines = {} THEN Unknown ELSE Nearest(s, lines)])

Matched(observations, safe) ==
    LET matched[n \in 0 .. Len(observations)] ==
            IF n = 0 THEN << >>
            ELSE MatchNext(matched[n - 1], observations[n], safe)
    IN  matched[Len(observations)]

ReadSources ==
    /\ phase = "idle"
    /\ now >= SafeLag
    /\ LET safe == now - SafeLag
           observations == Observations(safe)
           threads == {ThreadOf[s] : s \in ToSet(observations)}
       IN  /\ observations # << >>
           /\ batch' = Matched(observations, safe)
           /\ ends' = [t \in threads |-> NextOffset(t, safe)]
           /\ cuts' = [t \in Threads |->
                          IF t \in threads THEN cuts[t] \cup {safe} ELSE cuts[t]]
    /\ phase' = "read"
    /\ UNCHANGED <<now, log, file, cursor, offset, usage, crashes, torn>>

Chunk == SubSeq(batch, 1, IF Len(batch) < ChunkSize THEN Len(batch) ELSE ChunkSize)

\* Mutant: the log cursor moves to the last row of the run.
BatchEnd == IdOf(Last(batch).sample)

\* Mutant: the log cursor is the id the next run starts at.
NextId == IdOf(Last(Chunk).sample) + 1

\* The log cursor moves to the last row of the chunk.
ChunkEnd == IdOf(Last(Chunk).sample)

CommitChunk ==
    /\ batch # << >>
    /\ usage' = [s \in Samples |->
                    IF \E i \in DOMAIN Chunk : Chunk[i].sample = s
                    THEN Chunk[CHOOSE i \in DOMAIN Chunk : Chunk[i].sample = s].line
                    ELSE usage[s]]
    /\ cursor' = ChunkEnd
    /\ batch' = SubSeq(batch, Len(Chunk) + 1, Len(batch))
    /\ phase' = "committed"
    /\ UNCHANGED <<now, log, file, offset, ends, crashes, torn, cuts>>

CommitCandidateCursor(t) ==
    /\ phase = "committed"
    /\ batch = << >>
    /\ t \in DOMAIN ends
    /\ offset' = [offset EXCEPT ![t] = ends[t]]
    /\ ends' = [u \in DOMAIN ends \ {t} |-> ends[u]]
    /\ phase' = IF DOMAIN ends = {t} THEN "idle" ELSE "committed"
    /\ UNCHANGED <<now, log, file, cursor, usage, batch, crashes, torn, cuts>>

\* The process dies, or an error ends the run.
Crash ==
    /\ phase # "idle"
    /\ crashes < MaxCrashes
    /\ crashes' = crashes + 1
    /\ torn' = (torn \/ phase = "committed")
    /\ phase' = "idle"
    /\ batch' = << >>
    /\ ends' = << >>
    /\ UNCHANGED <<now, log, file, cursor, offset, usage, cuts>>

-----------------------------------------------------------------------------
Init ==
    /\ now = 0
    /\ log = << >>
    /\ file = [t \in Threads |-> << >>]
    /\ cursor = 0
    /\ offset = [t \in Threads |-> NoCursor]
    /\ usage = [s \in Samples |-> Missing]
    /\ phase = "idle"
    /\ batch = << >>
    /\ ends = << >>
    /\ crashes = 0
    /\ torn = FALSE
    /\ cuts = [t \in Threads |-> {}]

Codex ==
    \/ \E s \in Samples : AppendRow(s) \/ AppendLine(s)
    \/ Tick

Import ==
    \/ ReadSources
    \/ CommitChunk
    \/ \E t \in Threads : CommitCandidateCursor(t)

Next ==
    \/ Codex
    \/ Import
    \/ Crash

Spec == Init /\ [][Next]_vars

(***************************************************************************)
(* The daemon runs the import in every round of its loop, and a run has no *)
(* way to wait; time passes and Codex writes what it logs.                 *)
(***************************************************************************)
Fairness == WF_vars(Codex) /\ WF_vars(Import)

FairSpec == Spec /\ Fairness

-----------------------------------------------------------------------------
(* Properties.                                                             *)

\* Every row the log cursor has passed is an event, also after a crash between
\* two chunks: nothing before the cursor will be read again.
NoSampleSkipped ==
    \A id \in 1 .. cursor : usage[log[id]] # Missing

\* What is imported is final: no later run gives a sample another line, or takes
\* its tokens away.
ImportIsFinal ==
    [][\A s \in Samples : usage[s] # Missing => usage'[s] = usage[s]]_vars

UsedOnce ==
    \A r, s \in Samples : r # s /\ usage[r] = usage[s] => usage[r] \in {Missing, Unknown}

\* Unless a crash has parted events from their candidate cursors, the tokens of a
\* line are counted once.
OneToOneUnlessTorn == ~torn => UsedOnce

\* No other sample of the thread competes for the line of s.
Isolated(s) ==
    \A r \in Samples \ {s} : ThreadOf[r] = ThreadOf[s] =>
        /\ Distance(ObservedAt[r], LineAt[s]) > Tolerance
        /\ Distance(LineAt[r], ObservedAt[s]) > Tolerance

\* A watermark parts a row from its line if it admits one of them only.
Parted(s) ==
    \E cut \in cuts[ThreadOf[s]] :
        (LineAt[s] <= cut) # Eligible(s, cut)

\* A sample with a line nearby that nothing else competes for gets the tokens of
\* that line, unless a watermark fell between the two or a crash was torn.
MatchedUnlessParted ==
    ~torn => \A s \in Samples :
        /\ usage[s] # Missing
        /\ Distance(LineAt[s], ObservedAt[s]) <= Tolerance
        /\ Isolated(s)
        /\ ~Parted(s)
        => usage[s] = s

\* The import catches up with the log again and again, though the process may
\* die in the middle of a run.
EverySampleImported ==
    (\E s \in Samples : Logged(s)) ~> (\A s \in Samples : Logged(s) => usage[s] # Missing)

Consumed(s) ==
    LET t == ThreadOf[s]
    IN  /\ offset[t] # NoCursor
        /\ \E i \in 1 .. offset[t] : file[t][i] = s

\* README.md: "Both sources share a five-second watermark so a rollout cursor
\* cannot consume token detail before its post-sampling row becomes eligible."
\* Between runs, a line behind the candidate cursor belongs to an imported row.
WatermarkShared ==
    phase = "idle" => \A s \in Samples : Consumed(s) => usage[s] # Missing

\* README.md: the rollout supplies tokens "only after a one-to-one time match".
OneToOne == UsedOnce
=============================================================================
