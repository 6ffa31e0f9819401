------------------------------ MODULE JsonlTail ------------------------------
(***************************************************************************)
(* IncrementalJsonlTailer of src/src/ingest.rs as operators: what one poll *)
(* of a growing file returns and the checkpoint it leaves.  A file is a    *)
(* sequence of bytes, a checkpoint the position of the next read with the  *)
(* unterminated line already read.  No variable, no recursion: the lines   *)
(* of a byte string are the set of its line records, each with the place   *)
(* and the number that order them.                                         *)
(***************************************************************************)
EXTENDS Naturals, Sequences, FiniteSets, FiniteSetsExt

CONSTANTS
    Newline,
    Return,      \* carriage return
    Letters,     \* every other byte
    Identities,  \* physical files (device and inode)
    NoFile,      \* the identity of a checkpoint that has read nothing
    ReadChunk,   \* bytes read by one poll
    MaxLine      \* bytes a line may have

Byte == Letters \cup {Newline, Return}

ASSUME TailAssumption ==
    /\ Newline \notin Letters \cup {Return}
    /\ NoFile \notin Identities
    /\ ReadChunk \in Nat \ {0}
    /\ MaxLine \in Nat \ {0}

Line == [offset : Nat, number : Nat \ {0}, raw : Seq(Byte)]

Checkpoint ==
    [identity : Identities \cup {NoFile}, next : Nat, completed : Nat,
     partialAt : Nat, partial : Seq(Byte)]

Fresh ==
    [identity |-> NoFile, next |-> 0, completed |-> 0, partialAt |-> 0,
     partial |-> << >>]

-----------------------------------------------------------------------------
(* The lines of a byte string.                                             *)

Breaks(s) == {i \in DOMAIN s : s[i] = Newline}

\* The break before place i, or 0.
BreakBefore(s, i) == Max({0} \cup {j \in Breaks(s) : j < i})

LastBreak(s) == BreakBefore(s, Len(s) + 1)

Stripped(raw) ==
    IF raw # << >> /\ raw[Len(raw)] = Return
    THEN SubSeq(raw, 1, Len(raw) - 1)
    ELSE raw

\* The line that ends at break i of s, when s begins at byte base and after
\* number lines.
LineEndingAt(s, i, base, number) ==
    [offset |-> base + BreakBefore(s, i),
     number |-> number + Cardinality({j \in Breaks(s) : j <= i}),
     raw    |-> Stripped(SubSeq(s, BreakBefore(s, i) + 1, i - 1))]

LinesIn(s, base, number) == {LineEndingAt(s, i, base, number) : i \in Breaks(s)}

\* The complete lines of a whole file.
LinesOf(content) == LinesIn(content, 0, 0)

Unterminated(s) == SubSeq(s, LastBreak(s) + 1, Len(s))

TooLong(s) ==
    \/ \E i \in Breaks(s) : i - BreakBefore(s, i) - 1 > MaxLine
    \/ Len(Unterminated(s)) > MaxLine

-----------------------------------------------------------------------------
(* poll_reader.                                                            *)

Reset(c, id, len) == c.identity \notin {NoFile, id} \/ len < c.next

\* Mutant: a poll that starts anew does not note the file it reads.
ResumedUnnamed(c, id, len) == IF Reset(c, id, len) \/ c = Fresh THEN Fresh ELSE c

\* The checkpoint the poll starts from.
Resumed(c, id, len) ==
    IF Reset(c, id, len) THEN [Fresh EXCEPT !.identity = id]
    ELSE [c EXCEPT !.identity = id]

\* The end of the chunk read from a file of this length.
ChunkEnd(start, len) ==
    IF len - start <= ReadChunk THEN len ELSE start + ReadChunk

Combined(c, content) ==
    c.partial \o SubSeq(content, c.next + 1, ChunkEnd(c.next, Len(content)))

\* Mutant: lines are placed as if no partial line preceded the chunk.
BaseAtRead(c) == c.next

\* Where the combined bytes begin.
Base(c) == IF c.partial = << >> THEN c.next ELSE c.partialAt

PolledLines(c, content) == LinesIn(Combined(c, content), Base(c), c.completed)

\* Mutant: the unterminated line is not kept for the next poll.
PolledWithoutPartial(c, content) ==
    LET next == ChunkEnd(c.next, Len(content))
    IN  [identity  |-> c.identity,
         next      |-> next,
         completed |-> c.completed + Cardinality(Breaks(Combined(c, content))),
         partialAt |-> next,
         partial   |-> << >>]

PolledCheckpoint(c, content) ==
    LET all  == Combined(c, content)
        rest == Unterminated(all)
        next == ChunkEnd(c.next, Len(content))
    IN  [identity  |-> c.identity,
         next      |-> next,
         completed |-> c.completed + Cardinality(Breaks(all)),
         partialAt |-> IF rest = << >> THEN next ELSE Base(c) + LastBreak(all),
         partial   |-> rest]
=============================================================================
