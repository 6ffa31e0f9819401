--------------------------- MODULE RolloutRecords ---------------------------
(***************************************************************************)
(* process_line of src/src/reconstruction.rs as operators.  The records of *)
(* a rollout carry a cumulative token counter.  A thread spawned by        *)
(* another begins with a copy of its parent's records, written within a    *)
(* short time; that dense prefix sets the baseline and counts for nothing. *)
(* A counter that goes back opens a new epoch.                             *)
(*                                                                         *)
(* Of the token dimensions two are kept, input and the cached part of it:  *)
(* a difference fails if either goes back, and is invalid if more cached   *)
(* than input tokens were added.                                           *)
(***************************************************************************)
EXTENDS Integers, Sequences, FiniteSets, FiniteSetsExt

CONSTANTS
    Threads,    \* thread ids, in their order
    Children,   \* threads that were spawned by another
    PrefixGap,  \* 2000 milliseconds
    None        \* no usage, no time stamp

ASSUME RecordsAssumption ==
    /\ Threads \subseteq Nat
    /\ Children \subseteq Threads
    /\ PrefixGap \in Nat
    /\ None \notin Int \cup [input : Nat, cached : Nat]

Usage == {u \in [input : Nat, cached : Nat] : u.cached <= u.input}

Zero == [input |-> 0, cached |-> 0]

\* A session_meta record, a token_count, or a record longer than the limit.
Meta(thread, at) == [kind |-> "meta", thread |-> thread, at |-> at]
Token(at, total, last) ==
    [kind |-> "token", at |-> at, total |-> total, last |-> last]
Oversized == [kind |-> "oversized"]

Record ==
    [kind : {"meta"}, thread : Threads, at : Nat \cup {None}]
    \cup [kind : {"token"}, at : Nat, total : Usage \cup {None},
          last : Usage \cup {None}]
    \cup {Oversized}

\* What the checkpoint keeps of the records behind it.
Parser ==
    [phase : {"awaiting", "prefix", "live"}, canonicalAt : Nat \cup {None},
     previous : Usage \cup {None}, lastAt : Nat \cup {None}, epoch : Nat]

NewParser ==
    [phase |-> "awaiting", canonicalAt |-> None, previous |-> None,
     lastAt |-> None, epoch |-> 0]

-----------------------------------------------------------------------------
\* Mutant: the counter may go back as long as its input does not.
HasInputDelta(total, previous) == previous.input <= total.input

\* checked_delta followed by validate.
HasDelta(total, previous) ==
    /\ previous.input <= total.input
    /\ previous.cached <= total.cached
    /\ total.cached - previous.cached <= total.input - previous.input

Delta(total, previous) ==
    [input  |-> total.input - previous.input,
     cached |-> total.cached - previous.cached]

\* Time stamps out of order count as no time at all.
Within(earlier, later) == later - earlier <= PrefixGap

\* The record opens the thread's own stream.
Opens(p, r, thread) ==
    r.kind = "meta" /\ p.phase = "awaiting" /\ r.thread = thread

Counted(p, r) == r.kind = "token" /\ p.phase # "awaiting" /\ r.total # None

\* Mutant: every record of a dense prefix is measured from the first.
InheritedFromFirst(p, r) ==
    p.phase = "prefix" /\ p.canonicalAt # None /\ Within(p.canonicalAt, r.at)

\* The record belongs to the dense prefix of a child.
Inherited(p, r) ==
    /\ p.phase = "prefix"
    /\ IF p.previous = None
       THEN p.canonicalAt # None /\ Within(p.canonicalAt, r.at)
       ELSE Within(p.lastAt, r.at)

Regresses(p, r) ==
    p.previous # None /\ r.total # p.previous /\ ~HasDelta(r.total, p.previous)

\* The parser behind record r.
After(p, r, thread) ==
    IF Opens(p, r, thread) THEN
        [p EXCEPT !.phase = IF thread \in Children THEN "prefix" ELSE "live",
                  !.canonicalAt = r.at]
    ELSE IF ~Counted(p, r) THEN p
    ELSE IF Inherited(p, r) THEN [p EXCEPT !.previous = r.total, !.lastAt = r.at]
    ELSE [p EXCEPT !.phase = "live", !.previous = r.total, !.lastAt = r.at,
                   !.epoch = IF Regresses(p, r) THEN @ + 1 ELSE @]

\* The usage record r adds, or None.
UsageAdded(p, r) ==
    IF ~Counted(p, r) \/ Inherited(p, r) \/ r.total = p.previous THEN None
    ELSE LET usage == IF p.previous = None THEN r.total
                      ELSE IF Regresses(p, r) THEN r.last
                      ELSE Delta(r.total, p.previous)
         IN  IF usage = Zero THEN None ELSE usage

\* The parser behind record n, from a parser that is behind record m.
ParserAfter(p, records, m, n, thread) ==
    LET behind[i \in m .. n] ==
            IF i = m THEN p ELSE After(behind[i - 1], records[i], thread)
    IN  behind[n]

\* The fact that record i gives, as a set.
FactAt(p, records, i, file, thread) ==
    LET usage == UsageAdded(p, records[i])
    IN  IF usage = None THEN {}
        ELSE {[file |-> file, place |-> i, usage |-> usage,
               epoch |-> After(p, records[i], thread).epoch]}

\* The facts of records m + 1 to n, read by a parser that is behind record m.
FactsBetween(p, records, m, n, file, thread) ==
    UNION {FactAt(ParserAfter(p, records, m, i - 1, thread), records, i, file, thread) :
               i \in m + 1 .. n}
=============================================================================
