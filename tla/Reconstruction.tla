---------------------------- MODULE Reconstruction ----------------------------
(***************************************************************************)
(* ingest_reconstruction_batch of src/src/reconstruction.rs.  Round after  *)
(* round, every rollout Codex lists gets a durable status, and a few of    *)
(* them are read a chunk further; the facts of a chunk, the status and the *)
(* checkpoint are committed together.  A rollout that cannot be read on    *)
(* becomes unrecoverable; one whose file was replaced begins anew.         *)
(*                                                                         *)
(* disk[f] counts the half records of content[f] that are on disk, so that *)
(* a record may be unterminated.  Codex may rewrite a file in place, with  *)
(* other records or fewer; those are all of one length here, so that the   *)
(* bytes behind a checkpoint begin with a record also then.  The stats a   *)
(* round takes of several files at one point of the code are one step.     *)
(***************************************************************************)
EXTENDS RolloutRecords, Functions

CONSTANTS
    Files,      \* physical files (device and inode)
    NoFile,     \* the identity of a source never seen on disk
    Missing,    \* no file at the path
    Contents,   \* what the files hold once they are complete
    Starts,     \* the files that are at the paths to begin with
    Written,    \* the half records on disk to begin with
    Chunk,      \* half records read by one poll
    MaxFiles,   \* sources read in one round
    NoThread,
    MaxFaults,  \* bound on replaced, missing, rewritten or unlisted rollouts
    MaxCrashes  \* bound on crashes

ASSUME ReconstructionAssumption ==
    /\ Contents \subseteq [Files -> Seq(Record)]
    /\ Starts \subseteq [Threads -> Files \cup {Missing}]
    /\ Written \in [Files -> Nat]
    /\ \A records \in Contents : \A f \in Files : Written[f] <= 2 * Len(records[f])
    /\ {NoFile, Missing} \cap Files = {}
    /\ Chunk \in Nat /\ Chunk >= 3
    /\ MaxFiles \in Nat \ {0}
    /\ NoThread \notin Threads
    /\ {MaxFaults, MaxCrashes} \subseteq Nat

VARIABLES
    content,    \* content[f]: the records of file f
    disk,       \* disk[f]: the half records of f on disk
    place,      \* place[s]: the file at the path of thread s
    listed,     \* the threads in Codex's own database
    lost,       \* history: threads whose rollout was missing, rewritten or unlisted
    rewritten,  \* history: files given other records while a checkpoint was at them
    faults,
    crashes,
    status,     \* reconstruction_sources
    cursor,     \* file_cursors
    facts,      \* facts[s]: reconstruction_usage_events
    step,       \* the step of the round
    targets,    \* the threads the round works on
    queue,      \* the sources it has still to read
    target,     \* the source whose cursor is to be dropped
    opened      \* the file that ingest_target found, and its length

codex == <<content, disk, place, listed, lost, rewritten>>
ledger == <<status, cursor, facts>>
round == <<step, targets, queue, target, opened>>
vars == <<content, disk, place, listed, lost, rewritten, faults, crashes, status, cursor, facts,
          step, targets, queue, target, opened>>

States == {"none", "pending", "reconstructing", "reconstructed", "unrecoverable"}

Status == [state : States, file : Files \cup {NoFile}, processed : Nat]

Checkpoint ==
    [file : Files \cup {NoFile}, tailFile : Files \cup {NoFile}, next : Nat,
     parser : Parser]

\* No row in the ledger; a file without one is read from its start.
NoStatus == [state |-> "none", file |-> NoFile, processed |-> 0]

NoCursor ==
    [file |-> NoFile, tailFile |-> NoFile, next |-> 0, parser |-> NewParser]

Nothing == [file |-> NoFile, len |-> 0]

Fact == [file : Files, place : Nat, usage : Usage \ {Zero}, epoch : Nat]

TypeOK ==
    /\ content \in [Files -> Seq(Record)]
    /\ disk \in [Files -> Nat]
    /\ place \in [Threads -> Files \cup {Missing}]
    /\ listed \subseteq Threads
    /\ lost \subseteq Threads
    /\ rewritten \subseteq Files
    /\ faults \in 0 .. MaxFaults
    /\ crashes \in 0 .. MaxCrashes
    /\ status \in [Threads -> Status]
    /\ cursor \in [Threads -> Checkpoint]
    /\ \A s \in Threads : facts[s] \subseteq Fact
    /\ step \in {"idle", "index", "reap", "reaping", "queue", "work", "opened",
                 "failed", "dropping"}
    /\ targets \subseteq Threads
    /\ queue \in Seq(Threads)
    /\ target \in Threads \cup {NoThread}
    /\ opened \in [file : Files \cup {NoFile}, len : Nat]

-----------------------------------------------------------------------------
(* Codex and the file system.                                              *)

Fault ==
    /\ faults < MaxFaults
    /\ faults' = faults + 1

Write(s) ==
    /\ place[s] # Missing
    /\ disk[place[s]] < 2 * Len(content[place[s]])
    /\ disk' = [disk EXCEPT ![place[s]] = @ + 1]
    /\ UNCHANGED <<content, place, listed, lost, rewritten, faults, crashes, ledger, round>>

\* A new file takes the path.
Replace(s, f) ==
    /\ Fault
    /\ place[s] # Missing
    /\ disk[f] = 0
    /\ f \notin Range(place)
    /\ place' = [place EXCEPT ![s] = f]
    /\ UNCHANGED <<content, disk, listed, lost, rewritten, crashes, ledger, round>>

Hide(s) ==
    /\ Fault
    /\ place[s] # Missing
    /\ place' = [place EXCEPT ![s] = Missing]
    /\ lost' = lost \cup {s}
    /\ UNCHANGED <<content, disk, listed, rewritten, crashes, ledger, round>>

Show(s, f) ==
    /\ place[s] = Missing
    /\ f \notin Range(place)
    /\ place' = [place EXCEPT ![s] = f]
    /\ UNCHANGED <<content, disk, listed, lost, rewritten, faults, crashes, ledger, round>>

\* Codex writes the file anew without giving it up, as it does to compact it;
\* n half records of the new ones are on disk at once.
Rewrite(s, records, n) ==
    /\ Fault
    /\ place[s] # Missing
    /\ records # content[place[s]] \/ n < disk[place[s]]
    /\ n <= 2 * Len(records)
    /\ content' = [content EXCEPT ![place[s]] = records]
    /\ disk' = [disk EXCEPT ![place[s]] = n]
    /\ lost' = lost \cup {s}
    /\ rewritten' = IF records # content[place[s]] /\ \E t \in Threads : cursor[t].file = place[s]
                    THEN rewritten \cup {place[s]} ELSE rewritten
    /\ UNCHANGED <<place, listed, crashes, ledger, round>>

List(s) ==
    /\ s \notin listed
    /\ listed' = listed \cup {s}
    /\ UNCHANGED <<content, disk, place, lost, rewritten, faults, crashes, ledger, round>>

Unlist(s) ==
    /\ Fault
    /\ s \in listed
    /\ listed' = listed \ {s}
    /\ lost' = lost \cup {s}
    /\ UNCHANGED <<content, disk, place, rewritten, crashes, ledger, round>>

-----------------------------------------------------------------------------
(* One round.                                                              *)

State(s) == status[s].state

\* Mutant: no cursor is reclaimed.
ReclaimedNever == {}

\* remove_unrecoverable_reconstruction_cursors
Reclaimed == {s \in Threads : State(s) = "unrecoverable"}

StartRound ==
    /\ step = "idle"
    /\ cursor' = [s \in Threads |-> IF s \in Reclaimed THEN NoCursor ELSE cursor[s]]
    /\ step' = "index"
    /\ UNCHANGED <<status, facts, targets, queue, target, opened>>

FirstStatus(s) ==
    IF place[s] = Missing
    THEN [state |-> "unrecoverable", file |-> NoFile, processed |-> 0]
    ELSE [state |-> "pending", file |-> place[s], processed |-> 0]

\* load_targets; every source seen for the first time gets a status.
IndexSources ==
    /\ step = "index"
    /\ targets' = listed
    /\ status' = [s \in Threads |->
                     IF s \in listed /\ State(s) = "none"
                     THEN FirstStatus(s)
                     ELSE status[s]]
    /\ step' = "reap"
    /\ UNCHANGED <<cursor, facts, queue, target, opened>>

Unfinished(s) == State(s) \in {"pending", "reconstructing"}

\* Codex no longer lists the rollout.
MarkUnlisted(s) ==
    /\ step = "reap"
    /\ s \notin targets
    /\ Unfinished(s)
    /\ status' = [status EXCEPT ![s].state = "unrecoverable"]
    /\ target' = s
    /\ step' = "reaping"
    /\ UNCHANGED <<cursor, facts, targets, queue, opened>>

DropUnlistedCursor ==
    /\ step = "reaping"
    /\ cursor' = [cursor EXCEPT ![target] = NoCursor]
    /\ target' = NoThread
    /\ step' = "reap"
    /\ UNCHANGED <<status, facts, targets, queue, opened>>

Replaced ==
    {s \in targets : /\ place[s] # Missing
                     /\ status[s].file \notin {NoFile, place[s]}}

\* Mutant: the facts of the old file stay.
AllKept(s) == facts[s]

KeptFacts(s) == IF s \in Replaced THEN {} ELSE facts[s]

\* replace_reconstruction_sources, in one transaction.
ReplaceSources ==
    /\ step = "reap"
    /\ \A s \in Threads \ targets : ~Unfinished(s)
    /\ facts' = [s \in Threads |-> KeptFacts(s)]
    /\ cursor' = [s \in Threads |-> IF s \in Replaced THEN NoCursor ELSE cursor[s]]
    /\ status' = [s \in Threads |-> IF s \in Replaced THEN FirstStatus(s) ELSE status[s]]
    /\ step' = "queue"
    /\ UNCHANGED <<targets, queue, target, opened>>

-----------------------------------------------------------------------------
(* The queue.                                                              *)

Priority(s) ==
    CASE State(s) = "reconstructing" -> 0
      [] State(s) = "reconstructed"  -> 1
      [] OTHER                       -> 2

Before(s, t) ==
    \/ Priority(s) < Priority(t)
    \/ /\ Priority(s) = Priority(t)
       /\ \/ status[s].processed > status[t].processed
          \/ status[s].processed = status[t].processed /\ s < t

\* Mutant: a rollout that was read to its end is not looked at again.
QueueableOnce(s) ==
    /\ Unfinished(s)
    /\ place[s] # Missing
    /\ disk[place[s]] # status[s].processed

Queueable(s) ==
    /\ State(s) \in {"pending", "reconstructing", "reconstructed"}
    /\ place[s] # Missing
    /\ disk[place[s]] # status[s].processed

\* q holds the first MaxFiles sources of the ready ones, in order.
FirstOf(q, ready) ==
    /\ \A i, j \in DOMAIN q : i < j => Before(q[i], q[j])
    /\ Len(q) < MaxFiles => ready \subseteq Range(q)
    /\ \A i \in DOMAIN q : \A s \in ready \ Range(q) : Before(q[i], s)

BuildQueue ==
    /\ step = "queue"
    /\ LET ready == {s \in targets : Queueable(s)}
       IN  \E n \in 0 .. MaxFiles : \E q \in [1 .. n -> ready] :
               FirstOf(q, ready) /\ queue' = q
    /\ step' = "work"
    /\ UNCHANGED <<ledger, targets, target, opened>>

EndRound ==
    /\ step = "work"
    /\ queue = << >>
    /\ targets' = {}
    /\ step' = "idle"
    /\ UNCHANGED <<ledger, queue, target, opened>>

-----------------------------------------------------------------------------
(* ingest_target.                                                          *)

Openable(s) ==
    /\ place[s] # Missing
    /\ cursor[s] # NoCursor => cursor[s].file = place[s]

OpenTarget ==
    /\ step = "work"
    /\ queue # << >>
    /\ LET s == Head(queue)
       IN  IF Openable(s)
           THEN /\ opened' = [file |-> place[s], len |-> disk[place[s]]]
                /\ step' = "opened"
           ELSE /\ step' = "failed"
                /\ UNCHANGED opened
    /\ UNCHANGED <<ledger, targets, queue, target>>

\* Mutant: the unterminated record is passed over.
FromNext(s) == cursor[s].next + (cursor[s].next % 2)

\* The offset the poll starts from: an unterminated record is read again.
From(s) == cursor[s].next - (cursor[s].next % 2)

\* Where the chunk ends.
End(s) == Min({disk[place[s]], From(s) + Chunk})

NewFacts(s) ==
    FactsBetween(cursor[s].parser, content[place[s]], From(s) \div 2, End(s) \div 2,
                 opened.file, s)

\* The tailer finds another or a shorter file than it has read before.
Resets(s) ==
    /\ cursor[s] # NoCursor
    /\ \/ cursor[s].tailFile # place[s]
       \/ disk[place[s]] < From(s)

MeetsOversized(s) ==
    \E i \in From(s) \div 2 + 1 .. End(s) \div 2 : content[place[s]][i] = Oversized

\* upsert_reconstruction_event_in: a fact stored before has another hash, for it
\* was observed at another time.
Conflicts(s) ==
    \E new \in NewFacts(s), old \in facts[s] :
        new.file = old.file /\ new.place = old.place

\* advance_cursor_in
CursorRegresses(s) ==
    /\ cursor[s] # NoCursor
    /\ cursor[s].file = opened.file
    /\ End(s) < cursor[s].next

Readable(s) ==
    /\ place[s] # Missing
    /\ ~Resets(s)
    /\ ~MeetsOversized(s)
    /\ ~Conflicts(s)
    /\ ~CursorRegresses(s)

\* Mutant: a source is as far as its file was long when it was opened.
ProcessedToLength(s) == opened.len

Processed(s) == End(s)

CommitChunk(s) ==
    /\ facts' = [facts EXCEPT ![s] = @ \cup NewFacts(s)]
    /\ cursor' = [cursor EXCEPT ![s] =
                     [file     |-> opened.file,
                      tailFile |-> place[s],
                      next     |-> End(s),
                      parser   |-> ParserAfter(cursor[s].parser, content[place[s]],
                                               From(s) \div 2, End(s) \div 2, s)]]
    /\ status' = [status EXCEPT ![s] =
                     [state     |-> IF End(s) >= opened.len /\ End(s) % 2 = 0
                                    THEN "reconstructed" ELSE "reconstructing",
                      file      |-> opened.file,
                      processed |-> Processed(s)]]

\* poll_path, process_line on every line, and
\* upsert_reconstruction_events_and_cursor, in one transaction.
PollTarget ==
    /\ step = "opened"
    /\ LET s == Head(queue)
       IN  IF Readable(s)
           THEN /\ CommitChunk(s)
                /\ queue' = Tail(queue)
                /\ step' = "work"
           ELSE /\ step' = "failed"
                /\ UNCHANGED <<ledger, queue>>
    /\ opened' = Nothing
    /\ UNCHANGED <<targets, target>>

MarkUnrecoverable ==
    /\ step = "failed"
    /\ status' = [status EXCEPT ![Head(queue)].state = "unrecoverable"]
    /\ target' = Head(queue)
    /\ queue' = Tail(queue)
    /\ step' = "dropping"
    /\ UNCHANGED <<cursor, facts, targets, opened>>

\* The facts stay.
DropCursor ==
    /\ step = "dropping"
    /\ cursor' = [cursor EXCEPT ![target] = NoCursor]
    /\ target' = NoThread
    /\ step' = "work"
    /\ UNCHANGED <<status, facts, targets, queue, opened>>

Idle ==
    /\ step' = "idle"
    /\ targets' = {}
    /\ queue' = << >>
    /\ target' = NoThread
    /\ opened' = Nothing

Crash ==
    /\ step # "idle"
    /\ crashes < MaxCrashes
    /\ crashes' = crashes + 1
    /\ Idle
    /\ UNCHANGED <<codex, faults, ledger>>

-----------------------------------------------------------------------------
Init ==
    /\ content \in Contents
    /\ disk = Written
    /\ place \in Starts
    /\ listed = Threads
    /\ lost = {s \in Threads : place[s] = Missing}
    /\ rewritten = {}
    /\ faults = 0
    /\ crashes = 0
    /\ status = [s \in Threads |-> NoStatus]
    /\ cursor = [s \in Threads |-> NoCursor]
    /\ facts = [s \in Threads |-> {}]
    /\ step = "idle"
    /\ targets = {}
    /\ queue = << >>
    /\ target = NoThread
    /\ opened = Nothing

Texts == {records[f] : records \in Contents, f \in Files}

Codex ==
    \E s \in Threads :
        \/ Write(s)
        \/ \E f \in Files : Replace(s, f) \/ Show(s, f)
        \/ Hide(s)
        \/ \E records \in Texts : \E n \in 0 .. 2 : Rewrite(s, records, n)
        \/ List(s)
        \/ Unlist(s)

Round ==
    /\ \/ StartRound
       \/ IndexSources
       \/ \E s \in Threads : MarkUnlisted(s)
       \/ DropUnlistedCursor
       \/ ReplaceSources
       \/ BuildQueue
       \/ OpenTarget
       \/ PollTarget
       \/ MarkUnrecoverable
       \/ DropCursor
       \/ EndRound
    /\ UNCHANGED <<codex, faults, crashes>>

Next ==
    \/ Codex
    \/ Round
    \/ Crash

Spec == Init /\ [][Next]_vars

\* The daemon starts round after round, and a round never waits.
FairSpec == Spec /\ WF_vars(Round)

-----------------------------------------------------------------------------
(* Properties.                                                             *)

RecordsRead(s) == cursor[s].next \div 2

\* The checkpoint, the parser in it and the facts are those of one reading of the
\* file from its first byte, however many rounds, crashes and failures it took:
\* no record is counted twice, none is left out.  Only where Codex has put other
\* records into a file that was partly read is this not so: the code compares the
\* file's identity and length, and one that has grown past its checkpoint again
\* goes on with the facts of the records that are gone.
FactsMatchCheckpoint ==
    \A s \in Threads :
        /\ cursor[s] # NoCursor /\ cursor[s].tailFile = cursor[s].file
        /\ cursor[s].file \notin rewritten
        =>
            LET records == content[cursor[s].file]
            IN  /\ facts[s] = FactsBetween(NewParser, records, 0, RecordsRead(s),
                                           cursor[s].file, s)
                /\ cursor[s].parser =
                       ParserAfter(NewParser, records, 0, RecordsRead(s), s)

\* A status tells the truth about the checkpoint: a pending source has none and
\* nothing counted, a source at work has one at the offset the status gives.
StatusMatchesCheckpoint ==
    \A s \in Threads :
        /\ State(s) \in {"none", "pending"} => cursor[s] = NoCursor /\ facts[s] = {}
        /\ State(s) \in {"reconstructing", "reconstructed"} =>
              /\ cursor[s] # NoCursor
              /\ cursor[s].next = status[s].processed
              /\ cursor[s].file = status[s].file

\* A thread's usage is never counted from two physical files, also when the file
\* is replaced while a chunk is read or the reading has failed.
OneFileCounted ==
    \A s \in Threads : \A fact \in facts[s] : fact.file = status[s].file

\* The checkpoint of an unrecoverable source is reclaimed, also when the process
\* dies between giving the source up and dropping its checkpoint.
CheckpointReclaimed ==
    \A s \in Threads : State(s) = "unrecoverable" ~> cursor[s] = NoCursor

ReadToEnd(s) ==
    /\ status[s].file = place[s]
    /\ status[s].processed = disk[place[s]]

\* Every rollout that stays listed and on disk is read to its end, unless it holds
\* a record beyond the limit: neither a crash, nor a replaced file, nor the failure
\* of another source stops it.
EveryRolloutRead ==
    <>[](\A s \in Threads :
            \/ s \in lost
            \/ Oversized \in Range(content[place[s]])
            \/ ReadToEnd(s))
=============================================================================
