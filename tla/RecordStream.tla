----------------------------- MODULE RecordStream -----------------------------
(***************************************************************************)
(* process_line over one rollout: Codex appends any record, the parser     *)
(* takes it.  What is counted is stated of the stream as a whole, without  *)
(* the parser: which records are inherited, where the counter goes back,   *)
(* and what the facts of each epoch add up to.                             *)
(***************************************************************************)
EXTENDS RolloutRecords

CONSTANTS
    Records,    \* the records Codex may append
    MaxRecords  \* bound on the length of the stream

ASSUME StreamAssumption ==
    /\ Records \subseteq Record
    /\ MaxRecords \in Nat

VARIABLES
    thread,  \* the thread of the rollout
    stream,  \* the records so far
    parser,
    facts

vars == <<thread, stream, parser, facts>>

Fact == [file : {thread}, place : Nat \ {0}, usage : Usage \ {Zero}, epoch : Nat]

TypeOK ==
    /\ thread \in Threads
    /\ stream \in Seq(Records)
    /\ parser \in Parser
    /\ facts \subseteq Fact

Init ==
    /\ thread \in Threads
    /\ stream = << >>
    /\ parser = NewParser
    /\ facts = {}

Take(r) ==
    /\ Len(stream) < MaxRecords
    /\ stream' = Append(stream, r)
    /\ parser' = After(parser, r, thread)
    /\ facts' = facts \cup FactAt(parser, stream', Len(stream'), thread, thread)
    /\ UNCHANGED thread

Next == \E r \in Records : Take(r)

Spec == Init /\ [][Next]_vars

-----------------------------------------------------------------------------
(* The stream, read as a whole.                                            *)

IsOpening(i) == stream[i].kind = "meta" /\ stream[i].thread = thread

\* The place of the record that opens the thread's own stream, or 0.
Opening ==
    LET openings == {i \in DOMAIN stream : IsOpening(i)}
    IN  IF openings = {} THEN 0 ELSE Min(openings)

\* The token records behind it.
Counts ==
    {i \in DOMAIN stream : /\ Opening \in 1 .. i
                           /\ stream[i].kind = "token"
                           /\ stream[i].total # None}

Earlier(i) == {j \in Counts : j < i}

TimeBefore(i) ==
    IF Earlier(i) = {} THEN stream[Opening].at ELSE stream[Max(Earlier(i))].at

Dense(i) == TimeBefore(i) # None /\ stream[i].at - TimeBefore(i) <= PrefixGap

\* The copy a child begins with: its token records up to the first pause.
Prefix == {i \in Counts : thread \in Children /\ \A j \in Earlier(i) \cup {i} : Dense(j)}

Live == Counts \ Prefix

\* Some kind of token, cached or uncached, became fewer.
Shrinks(from, to) ==
    \/ to.cached < from.cached
    \/ to.input - to.cached < from.input - from.cached

Restarts(i) ==
    Earlier(i) # {} /\ Shrinks(stream[Max(Earlier(i))].total, stream[i].total)

EpochOf(i) == Cardinality({j \in Live : j <= i /\ Restarts(j)})

PlacesIn(e) == {i \in Live : EpochOf(i) = e}

Plus(u, v) == [input |-> u.input + v.input, cached |-> u.cached + v.cached]

Sum(some) == FoldSet(LAMBDA fact, u : Plus(fact.usage, u), Zero, some)

\* What the child took over; what the record of a restart says of itself.
Inheritance == IF Prefix = {} THEN Zero ELSE stream[Max(Prefix)].total

OwnUsage(i) == IF stream[i].last = None THEN Zero ELSE stream[i].last

\* In every epoch the facts add up to how far the counter went: from what was
\* inherited, or from the restart and the usage it reports.  Repeated totals, the
\* copied prefix and regressions never add to it.
UsageTelescopes ==
    \A e \in 0 .. Len(stream) :
        IF PlacesIn(e) = {}
        THEN {fact \in facts : fact.epoch = e} = {}
        ELSE LET first   == Min(PlacesIn(e))
                 reached == stream[Max(PlacesIn(e))].total
                 counted == Sum({fact \in facts : fact.epoch = e})
             IN  IF e = 0
                 THEN Plus(counted, Inheritance) = reached
                 ELSE Plus(counted, stream[first].total) = Plus(reached, OwnUsage(first))
=============================================================================
