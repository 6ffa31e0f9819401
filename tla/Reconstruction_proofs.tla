------------------------ MODULE Reconstruction_proofs ------------------------
(***************************************************************************)
(* For any rollouts, however they are replaced, cut, hidden and listed and *)
(* wherever the process dies: a thread's facts all come from one physical  *)
(* file, every status agrees with its checkpoint, and the checkpoint, the  *)
(* parser in it and the facts are those of one reading of the file.        *)
(***************************************************************************)
EXTENDS Reconstruction, Induction, SequenceTheorems, TLAPS

-----------------------------------------------------------------------------
(* What the parser does with one record: it goes on from a state it can go *)
(* on from, and adds a usage the ledger accepts or nothing.                *)

\* A parser that has seen a total has its time; one that has not found the
\* thread's own stream has seen none.
Consistent(p) ==
    /\ p.previous = None <=> p.lastAt = None
    /\ p.phase = "awaiting" => p.previous = None

\* The mark of an absent value is neither a usage nor a time.
LEMMA NoneApart == None \notin Usage /\ None \notin Nat
  BY RecordsAssumption DEF RecordsAssumption, Usage

\* A record that is counted has a time and a total.
LEMMA CountedType ==
    ASSUME NEW p \in Parser, NEW r \in Record, Counted(p, r)
    PROVE  r.at \in Nat /\ r.total \in Usage /\ r.last \in Usage \cup {None}
  BY DEF Counted, Record, Oversized

\* The difference to an earlier total is a usage, where there is one.
LEMMA DeltaType ==
    ASSUME NEW t \in Usage, NEW u \in Usage, HasDelta(t, u)
    PROVE  Delta(t, u) \in Usage
  BY DEF HasDelta, Delta, Usage

\* What a record adds is a usage other than zero, if it adds anything.
LEMMA UsageAddedType ==
    ASSUME NEW p \in Parser, NEW r \in Record
    PROVE  UsageAdded(p, r) \in (Usage \ {Zero}) \cup {None}
  <1>1. CASE ~Counted(p, r) \/ Inherited(p, r) \/ r.total = p.previous
    BY <1>1 DEF UsageAdded
  <1>2. CASE Counted(p, r) /\ ~Inherited(p, r) /\ r.total # p.previous
    <2>1. r.total \in Usage /\ r.last \in Usage \cup {None}
      BY <1>2, CountedType
    <2>2. p.previous \in Usage \cup {None}
      BY DEF Parser
    <2>3. CASE p.previous = None
      BY <1>2, <2>1, <2>3 DEF UsageAdded
    <2>4. CASE Regresses(p, r)
      BY <1>2, <2>1, <2>4 DEF UsageAdded, Regresses
    <2>5. CASE p.previous # None /\ ~Regresses(p, r)
      <3>1. Delta(r.total, p.previous) \in Usage
        BY <1>2, <2>1, <2>2, <2>5, DeltaType DEF Regresses
      <3> QED
        BY <1>2, <2>5, <3>1 DEF UsageAdded
    <2> QED
      BY <2>3, <2>4, <2>5
  <1> QED
    BY <1>1, <1>2

\* A record leaves a parser the next one can go on from.
LEMMA AfterType ==
    ASSUME NEW p \in Parser, Consistent(p), NEW r \in Record, NEW t \in Threads
    PROVE  After(p, r, t) \in Parser /\ Consistent(After(p, r, t))
  <1>1. CASE Opens(p, r, t)
    <2>1. r.at \in Nat \cup {None}
      BY <1>1 DEF Opens, Record, Oversized
    <2> DEFINE q == [p EXCEPT !.phase = IF t \in Children THEN "prefix" ELSE "live",
                              !.canonicalAt = r.at]
    <2>2. After(p, r, t) = q
      BY <1>1 DEF After
    <2>3. q \in Parser
      BY <2>1 DEF Parser
    <2>4. Consistent(q)
      BY DEF Consistent, Parser
    <2> QED
      BY <2>2, <2>3, <2>4
  <1>2. CASE ~Opens(p, r, t) /\ ~Counted(p, r)
    BY <1>2 DEF After
  <1>3. CASE ~Opens(p, r, t) /\ Counted(p, r)
    <2>1. r.at \in Nat /\ r.total \in Usage
      BY <1>3, CountedType
    <2>2. p.phase # "awaiting"
      BY <1>3 DEF Counted
    <2> DEFINE q == [p EXCEPT !.previous = r.total, !.lastAt = r.at]
               e == IF Regresses(p, r) THEN p.epoch + 1 ELSE p.epoch
               l == [p EXCEPT !.phase = "live", !.previous = r.total,
                              !.lastAt = r.at, !.epoch = e]
    <2>3. After(p, r, t) \in {q, l}
      BY <1>3 DEF After
    <2>4. q \in Parser /\ l \in Parser
      <3>1. q \in Parser
        BY <2>1 DEF Parser
      <3>2. e \in Nat
        BY DEF Parser
      <3> HIDE DEF e
      <3>3. l \in Parser
        BY <2>1, <3>2 DEF Parser
      <3> QED
        BY <3>1, <3>3
    <2>5. Consistent(q) /\ Consistent(l)
      BY <2>1, <2>2, NoneApart DEF Consistent, Parser
    <2> QED
      BY <2>3, <2>4, <2>5
  <1> QED
    BY <1>1, <1>2, <1>3

-----------------------------------------------------------------------------
(* Reading record after record.                                            *)

GoodParser == {p \in Parser : Consistent(p)}

\* g[i] is the parser behind record i, if p is the one behind record m.
Reading(g, p, records, m, n, thread) ==
    /\ g[m] = p
    /\ \A i \in m .. n : i # n => g[i + 1] = After(g[i], records[i + 1], thread)
    /\ \A i \in m .. n : ParserAfter(p, records, m, i, thread) = g[i]

\* The parsers behind the records of a rollout follow from one another.
LEMMA ParsersInTurn ==
    ASSUME NEW p \in GoodParser, NEW records, NEW thread \in Threads,
           NEW m \in Nat, NEW n \in Nat, m <= n,
           \A i \in m + 1 .. n : records[i] \in Record
    PROVE  \E g \in [m .. n -> GoodParser] : Reading(g, p, records, m, n, thread)
<1> DEFINE D == GoodParser
           N == n - m
           Step(q, i) == After(q, records[i], thread)
           F == [k \in Nat |-> [q \in D |-> IF k \in 1 .. N THEN Step(q, m + k) ELSE q]]
<1>1. N \in Nat /\ (\A k \in 1 .. N : m + k \in m + 1 .. n)
      /\ \A i \in m .. n : i - m \in 0 .. N /\ m + (i - m) = i
    OBVIOUS
<1>2. ASSUME NEW q \in D, NEW i \in m + 1 .. n PROVE Step(q, i) \in D
    BY AfterType DEF GoodParser
<1> HIDE DEF D, N, Step
<1>3. F \in [Nat -> [D -> D]]
    BY <1>1, <1>2
<1>4. PICK h \in [0 .. N -> D] : Recursive(h, p, F, N)
  <2> HIDE DEF F
  <2>1. p \in D
    BY DEF D
  <2> QED
    BY <1>1, <1>3, <2>1, RecursionExists
<1>5. h[0] = p
  <2>1. 0 \in 0 .. N
    BY <1>1
  <2> HIDE DEF F
  <2> QED
    BY <1>4, <2>1 DEF Recursive
<1>6. \A k \in 0 .. N : k # N => h[k + 1] = Step(h[k], m + (k + 1))
  <2> SUFFICES ASSUME NEW k \in 0 .. N, k # N PROVE h[k + 1] = Step(h[k], m + (k + 1))
    OBVIOUS
  <2>1. k + 1 \in 1 .. N /\ k + 1 \in 0 .. N /\ k + 1 # 0 /\ (k + 1) - 1 = k /\ k + 1 \in Nat
    BY <1>1
  <2>2. h[k + 1] = F[k + 1][h[k]]
    BY <1>4, <2>1 DEF Recursive
  <2>3. h[k] \in D
    BY <1>4
  <2> QED
    BY <2>1, <2>2, <2>3
<1> HIDE DEF F
<1> DEFINE g == [i \in m .. n |-> h[i - m]]
<1>7. g \in [m .. n -> D]
    BY <1>1, <1>4
<1>8. g[m] = p
    BY <1>5
<1>9. ASSUME NEW i \in m .. n, i # n PROVE i + 1 \in m .. n /\ g[i + 1] = Step(g[i], i + 1)
  <2>1. i + 1 \in m .. n /\ (i + 1) - m = (i - m) + 1 /\ i - m \in 0 .. N /\ i - m # N
        /\ m + ((i - m) + 1) = i + 1
    BY <1>9 DEF N
  <2> QED
    BY <1>6, <2>1
<1> HIDE DEF g
<1>10. ASSUME NEW i \in m .. n PROVE ParserAfter(p, records, m, i, thread) = g[i]
  <2> DEFINE Body(b) == [j \in m .. i |-> IF j = m THEN p ELSE Step(b[j - 1], j)]
             f == CHOOSE b : b = Body(b)
             b0 == [j \in m .. i |-> g[j]]
  <2>1. ParserAfter(p, records, m, i, thread) = f[i]
    BY DEF ParserAfter, Step
  <2>2. \A j \in m .. i : j # m => /\ j - 1 \in m .. i /\ j - 1 \in m .. n /\ j - 1 # n
                                   /\ (j - 1) + 1 = j
    OBVIOUS
  <2>3. b0 = Body(b0)
    BY <1>8, <1>9, <2>2
  <2>4. f = Body(f)
    BY <2>3
  <2> HIDE DEF f
  <2>5. /\ f[m] = p
        /\ \A j \in m .. i : j # i => f[j + 1] = Step(f[j], j + 1)
    <3>1. m \in m .. i
      OBVIOUS
    <3>2. \A j \in m .. i : f[j] = IF j = m THEN p ELSE Step(f[j - 1], j)
      BY <2>4
    <3>3. \A j \in m .. i : j # i => j + 1 \in m .. i /\ j + 1 # m /\ (j + 1) - 1 = j
      OBVIOUS
    <3> QED
      BY <3>1, <3>2, <3>3
  <2> DEFINE S == {k \in 0 .. i - m : f[m + k] = g[m + k]}
  <2>6. 0 \in S
    BY <1>8, <2>5
  <2>7. ASSUME NEW k \in 0 .. i - m, k # i - m, k \in S PROVE k + 1 \in S
    <3>1. /\ m + k \in m .. i /\ m + k # i /\ m + k \in m .. n /\ m + k # n
          /\ (m + k) + 1 = m + (k + 1) /\ k + 1 \in 0 .. i - m
      BY <2>7
    <3>2. f[(m + k) + 1] = Step(f[m + k], (m + k) + 1)
      BY <2>5, <3>1
    <3>3. g[(m + k) + 1] = Step(g[m + k], (m + k) + 1)
      BY <1>9, <3>1
    <3> QED
      BY <2>7, <3>1, <3>2, <3>3
  <2>8. i - m \in Nat /\ i - m \in 0 .. i - m /\ m + (i - m) = i
    OBVIOUS
  <2>9. i - m \in S
    <3> DEFINE K == i - m
    <3> HIDE DEF S
    <3>1. K \in Nat /\ 0 \in S /\ \A k \in 0 .. K : k # K /\ k \in S => k + 1 \in S
      BY <2>6, <2>7, <2>8
    <3> HIDE DEF K
    <3>2. \A k \in 0 .. K : k \in S
      BY <3>1, BoundedInduction
    <3> QED
      BY <2>8, <3>2 DEF K
  <2> QED
    BY <2>1, <2>8, <2>9
<1>11. Reading(g, p, records, m, n, thread)
    BY <1>8, <1>9, <1>10 DEF Reading, Step
<1> QED
    BY <1>7, <1>11 DEF D

\* Reading on from record k goes where reading from record m goes.
LEMMA ReadOn ==
    ASSUME NEW p \in GoodParser, NEW records, NEW thread \in Threads,
           NEW m \in Nat, NEW n \in Nat, NEW k \in m .. n,
           \A i \in m + 1 .. n : records[i] \in Record
    PROVE  LET q == ParserAfter(p, records, m, k, thread)
           IN  /\ q \in GoodParser
               /\ \A i \in k .. n : ParserAfter(q, records, k, i, thread)
                                     = ParserAfter(p, records, m, i, thread)
<1> DEFINE q == ParserAfter(p, records, m, k, thread)
           Step(o, i) == After(o, records[i], thread)
<1>1. k \in Nat /\ m <= n /\ k <= n /\ \A i \in k + 1 .. n : records[i] \in Record
    OBVIOUS
<1>2. PICK g \in [m .. n -> GoodParser] : Reading(g, p, records, m, n, thread)
    BY <1>1, ParsersInTurn
<1>3. q = g[k] /\ q \in GoodParser
    BY <1>2 DEF Reading
<1> HIDE DEF q
<1>4. PICK h \in [k .. n -> GoodParser] : Reading(h, q, records, k, n, thread)
    BY <1>1, <1>3, ParsersInTurn
<1>5. /\ \A i \in m .. n : i # n => g[i + 1] = Step(g[i], i + 1)
      /\ \A i \in m .. n : ParserAfter(p, records, m, i, thread) = g[i]
      /\ h[k] = g[k]
      /\ \A i \in k .. n : i # n => h[i + 1] = Step(h[i], i + 1)
      /\ \A i \in k .. n : ParserAfter(q, records, k, i, thread) = h[i]
    BY <1>2, <1>3, <1>4 DEF Reading
<1> HIDE DEF Step
<1> DEFINE S == {j \in 0 .. n - k : h[k + j] = g[k + j]}
<1>6. 0 \in S
    BY <1>1, <1>5
<1>7. ASSUME NEW j \in 0 .. n - k, j # n - k, j \in S PROVE j + 1 \in S
  <2>1. /\ k + j \in k .. n /\ k + j # n /\ k + j \in m .. n
        /\ (k + j) + 1 = k + (j + 1) /\ j + 1 \in 0 .. n - k
    BY <1>1, <1>7
  <2>2. h[(k + j) + 1] = Step(h[k + j], (k + j) + 1)
    BY <1>5, <2>1
  <2>3. g[(k + j) + 1] = Step(g[k + j], (k + j) + 1)
    BY <1>5, <2>1
  <2> QED
    BY <1>7, <2>1, <2>2, <2>3
<1>8. \A j \in 0 .. n - k : j \in S
  <2> DEFINE K == n - k
  <2> HIDE DEF S
  <2>1. K \in Nat /\ 0 \in S /\ \A j \in 0 .. K : j # K /\ j \in S => j + 1 \in S
    BY <1>1, <1>6, <1>7
  <2> HIDE DEF K
  <2>2. \A j \in 0 .. K : j \in S
    BY <2>1, BoundedInduction
  <2> QED
    BY <2>2 DEF K
<1>9. ASSUME NEW i \in k .. n PROVE h[i] = g[i]
  <2>1. i - k \in 0 .. n - k /\ k + (i - k) = i
    BY <1>1
  <2> QED
    BY <1>8, <2>1
<1>10. \A i \in k .. n : i \in m .. n
    BY <1>1
<1> QED
    BY <1>3, <1>5, <1>9, <1>10 DEF q

\* A rollout that is read in two pieces gives the facts of one that is read whole,
\* and leaves the parser in the same state.
LEMMA ReadInPieces ==
    ASSUME NEW records, NEW file, NEW thread \in Threads,
           NEW k \in Nat, NEW n \in Nat, k <= n,
           \A i \in 1 .. n : records[i] \in Record
    PROVE  LET q == ParserAfter(NewParser, records, 0, k, thread)
           IN  /\ q \in GoodParser
               /\ ParserAfter(q, records, k, n, thread)
                     = ParserAfter(NewParser, records, 0, n, thread)
               /\ FactsBetween(NewParser, records, 0, n, file, thread)
                     = FactsBetween(NewParser, records, 0, k, file, thread)
                       \cup FactsBetween(q, records, k, n, file, thread)
<1> DEFINE q == ParserAfter(NewParser, records, 0, k, thread)
           P(i) == ParserAfter(NewParser, records, 0, i, thread)
           Q(i) == ParserAfter(q, records, k, i, thread)
<1>1. NewParser \in GoodParser
    BY DEF NewParser, GoodParser, Parser, Consistent
<1>2. k \in 0 .. n /\ 0 \in Nat /\ \A i \in 0 + 1 .. n : records[i] \in Record
    OBVIOUS
<1>3. q \in GoodParser /\ \A i \in k .. n : Q(i) = P(i)
  <2> DEFINE p == NewParser
  <2>1. p \in GoodParser
    BY <1>1
  <2> HIDE DEF p
  <2>2. LET o == ParserAfter(p, records, 0, k, thread)
        IN  /\ o \in GoodParser
            /\ \A i \in k .. n : ParserAfter(o, records, k, i, thread)
                                  = ParserAfter(p, records, 0, i, thread)
    BY <1>2, <2>1, ReadOn
  <2> QED
    BY <2>2 DEF p
<1>4. /\ FactsBetween(NewParser, records, 0, n, file, thread)
            = UNION {FactAt(P(i - 1), records, i, file, thread) : i \in 0 + 1 .. n}
      /\ FactsBetween(NewParser, records, 0, k, file, thread)
            = UNION {FactAt(P(i - 1), records, i, file, thread) : i \in 0 + 1 .. k}
      /\ FactsBetween(q, records, k, n, file, thread)
            = UNION {FactAt(Q(i - 1), records, i, file, thread) : i \in k + 1 .. n}
    BY DEF FactsBetween
<1> HIDE DEF q, P, Q
<1>5. \A i \in k + 1 .. n : Q(i - 1) = P(i - 1)
  <2>1. \A i \in k + 1 .. n : i - 1 \in k .. n
    OBVIOUS
  <2> QED
    BY <1>3, <2>1
<1>6. 0 + 1 .. n = (0 + 1 .. k) \cup (k + 1 .. n)
    OBVIOUS
<1> DEFINE A(i) == FactAt(P(i - 1), records, i, file, thread)
           B(i) == FactAt(Q(i - 1), records, i, file, thread)
<1>7. \A i \in k + 1 .. n : A(i) = B(i)
    BY <1>5
<1> HIDE DEF A, B
<1>8. UNION {A(i) : i \in 0 + 1 .. n} = (UNION {A(i) : i \in 0 + 1 .. k}) \cup UNION {B(i) : i \in k + 1 .. n}
    BY <1>6, <1>7
<1>9. Q(n) = P(n)
  <2>1. n \in k .. n
    OBVIOUS
  <2> QED
    BY <1>3, <2>1
<1> QED
    BY <1>3, <1>4, <1>8, <1>9 DEF q, A, B, P, Q

\* The facts of a rollout are usages the ledger accepts.
LEMMA FactsBetweenType ==
    ASSUME NEW p \in GoodParser, NEW records, NEW file, NEW thread \in Threads,
           NEW m \in Nat, NEW n \in Nat,
           \A i \in m + 1 .. n : records[i] \in Record
    PROVE  FactsBetween(p, records, m, n, file, thread)
               \subseteq [file : {file}, place : m + 1 .. n, usage : Usage \ {Zero}, epoch : Nat]
<1> SUFFICES ASSUME NEW i \in m + 1 .. n,
                    NEW fact \in FactAt(ParserAfter(p, records, m, i - 1, thread),
                                        records, i, file, thread)
             PROVE  fact \in [file : {file}, place : m + 1 .. n, usage : Usage \ {Zero}, epoch : Nat]
    BY DEF FactsBetween
<1> DEFINE q == ParserAfter(p, records, m, i - 1, thread)
           usage == UsageAdded(q, records[i])
<1>1. q \in GoodParser
  <2>1. i - 1 \in Nat /\ i - 1 \in m .. i - 1 /\ \A j \in m + 1 .. i - 1 : records[j] \in Record
    OBVIOUS
  <2> QED
    BY <2>1, ReadOn
<1> HIDE DEF q
<1>2. usage \in (Usage \ {Zero}) \cup {None}
    BY <1>1, UsageAddedType DEF GoodParser
<1>3. After(q, records[i], thread).epoch \in Nat
    BY <1>1, AfterType DEF GoodParser, Parser
<1>4. usage # None
      /\ fact = [file |-> file, place |-> i, usage |-> usage,
                 epoch |-> After(q, records[i], thread).epoch]
    BY DEF FactAt, q
<1> HIDE DEF usage
<1> QED
    BY <1>2, <1>3, <1>4

-----------------------------------------------------------------------------
(* The states of the component.                                            *)

AtWork == {"pending", "reconstructing", "reconstructed"}

Typed ==
    /\ listed \subseteq Threads
    /\ targets \subseteq Threads
    /\ disk \in [Files -> Nat]
    /\ place \in [Threads -> Files \cup {Missing}]
    /\ status \in [Threads -> Status]
    /\ cursor = [s \in Threads |-> cursor[s]]
    /\ \A s \in Threads : cursor[s].next \in Nat
    /\ facts = [s \in Threads |-> facts[s]]
    /\ queue \in Seq(Threads)

\* The sources in the queue are apart and can be read on; so the first of them
\* still can when those before it have failed.
QueueReady ==
    /\ step \in {"idle", "index", "reap", "reaping", "queue"} => queue = << >>
    /\ step \in {"opened", "failed"} => queue # << >>
    /\ \A i \in 1 .. Len(queue) : State(queue[i]) \in AtWork
    /\ \A i, j \in 1 .. Len(queue) : i < j => queue[i] # queue[j]

\* Between the stat and the poll a source keeps the file of its checkpoint.
OpenedFits ==
    step = "opened" =>
        /\ opened.file \in Files
        /\ cursor[Head(queue)] # NoCursor => cursor[Head(queue)].file = opened.file

\* A checkpoint is dropped only behind a status that gives the source up.
TargetLost ==
    step \in {"reaping", "dropping"} =>
        target \in Threads /\ State(target) = "unrecoverable"

Inv ==
    /\ Typed
    /\ QueueReady
    /\ OpenedFits
    /\ TargetLost
    /\ StatusMatchesCheckpoint
    /\ OneFileCounted

-----------------------------------------------------------------------------
\* The lesser of two numbers is a number.
LEMMA MinOfTwo ==
    ASSUME NEW a \in Nat, NEW b \in Nat
    PROVE  Min({a, b}) \in Nat
  <1>1. \E x \in {a, b} : \A y \in {a, b} : x <= y
    <2>1. CASE a <= b
      BY <2>1
    <2>2. CASE b <= a
      BY <2>2
    <2> QED
      BY <2>1, <2>2
  <1> QED
    BY <1>1 DEF Min

\* A rollout that exists has an end that can be read up to.
LEMMA EndType ==
    ASSUME Typed, NEW s \in Threads, place[s] # Missing
    PROVE  End(s) \in Nat
  <1>1. disk[place[s]] \in Nat /\ cursor[s].next \in Nat /\ Chunk \in Nat
    BY ReconstructionAssumption DEF Typed, ReconstructionAssumption
  <1>2. cursor[s].next % 2 \in 0 .. 1 /\ cursor[s].next % 2 <= cursor[s].next
    BY <1>1
  <1>3. From(s) + Chunk \in Nat
    BY <1>1, <1>2 DEF From
  <1> QED
    BY <1>1, <1>3, MinOfTwo DEF End

\* The facts of a chunk carry the file that was opened.
LEMMA NewFactsFile ==
    ASSUME NEW s, NEW fact \in NewFacts(s)
    PROVE  fact.file = opened.file
  <1>1. PICK p, r, i : fact \in FactAt(p, r, i, opened.file, s)
    BY DEF NewFacts, FactsBetween
  <1> QED
    BY <1>1 DEF FactAt

\* An order in which no source stands before itself.
LEMMA BeforeIrreflexive ==
    ASSUME Typed, NEW s \in Threads
    PROVE  ~Before(s, s)
  <1>1. status[s].processed \in Nat /\ s \in Nat
    BY RecordsAssumption DEF Typed, Status, RecordsAssumption
  <1>2. Priority(s) \in {0, 1, 2}
    BY DEF Priority
  <1> QED
    BY <1>1, <1>2 DEF Before

\* The first status of a rollout is pending or unrecoverable.
LEMMA FirstStatusType ==
    ASSUME Typed, NEW s \in Threads
    PROVE  /\ FirstStatus(s) \in Status
           /\ State(s) \in States
           /\ FirstStatus(s).state \in {"pending", "unrecoverable"}
  BY DEF Typed, FirstStatus, Status, States, State

-----------------------------------------------------------------------------
\* The ledger begins without a source, a job or a fact.
LEMMA InitInv == Init => Inv
  <1> SUFFICES ASSUME Init PROVE Inv
    OBVIOUS
  <1>1. Typed
    BY ReconstructionAssumption
    DEF Init, Typed, NoStatus, NoCursor, Status, States, ReconstructionAssumption
  <1>2. StatusMatchesCheckpoint /\ OneFileCounted
    BY DEF Init, StatusMatchesCheckpoint, OneFileCounted, State, NoStatus
  <1> QED
    BY <1>1, <1>2 DEF Init, Inv, QueueReady, OpenedFits, TargetLost

\* Codex and the file system change nothing the ledger holds.
LEMMA CodexInv == Inv /\ Codex => Inv'
  <1> SUFFICES ASSUME Inv, Codex PROVE Inv'
    OBVIOUS
  <1>1. UNCHANGED <<ledger, round>>
    BY DEF Codex, Write, Replace, Hide, Show, Rewrite, List, Unlist
  <1>2. UNCHANGED <<status, cursor, facts, step, targets, queue, target, opened>>
    BY <1>1 DEF ledger, round
  <1>3. /\ listed' \subseteq Threads
        /\ disk' \in [Files -> Nat]
        /\ place' \in [Threads -> Files \cup {Missing}]
    <2>1. PICK s \in Threads :
             \/ Write(s)
             \/ \E f \in Files : Replace(s, f) \/ Show(s, f)
             \/ Hide(s)
             \/ \E records \in Texts : \E n \in 0 .. 2 : Rewrite(s, records, n)
             \/ List(s)
             \/ Unlist(s)
      BY DEF Codex
    <2>2. CASE Write(s)
      BY <2>2 DEF Write, Inv, Typed
    <2>3. CASE \E f \in Files : Replace(s, f) \/ Show(s, f)
      BY <2>3 DEF Replace, Show, Inv, Typed
    <2>4. CASE Hide(s)
      BY <2>4 DEF Hide, Inv, Typed
    <2>5. CASE \E records \in Texts : \E n \in 0 .. 2 : Rewrite(s, records, n)
      BY <2>5 DEF Rewrite, Inv, Typed
    <2>6. CASE List(s) \/ Unlist(s)
      BY <2>6 DEF List, Unlist, Inv, Typed
    <2> QED
      BY <2>1, <2>2, <2>3, <2>4, <2>5, <2>6
  <1>4. Typed'
    BY <1>2, <1>3 DEF Inv, Typed
  <1>5. (QueueReady /\ OpenedFits /\ TargetLost)'
    BY <1>2 DEF Inv, QueueReady, OpenedFits, TargetLost, State
  <1>6. (StatusMatchesCheckpoint /\ OneFileCounted)'
    BY <1>2 DEF Inv, StatusMatchesCheckpoint, OneFileCounted, State
  <1> QED
    BY <1>4, <1>5, <1>6 DEF Inv

\* A crash loses the round and nothing that is stored.
LEMMA CrashInv == Inv /\ Crash => Inv'
  <1> SUFFICES ASSUME Inv, Crash PROVE Inv'
    OBVIOUS
  <1>1. UNCHANGED <<listed, disk, place, status, cursor, facts>>
    BY DEF Crash, codex, ledger
  <1>2. step' = "idle" /\ targets' = {} /\ queue' = << >>
    BY DEF Crash, Idle
  <1>3. Typed'
    BY <1>1, <1>2 DEF Inv, Typed
  <1>4. (QueueReady /\ OpenedFits /\ TargetLost)'
    BY <1>2 DEF QueueReady, OpenedFits, TargetLost
  <1>5. (StatusMatchesCheckpoint /\ OneFileCounted)'
    BY <1>1 DEF Inv, StatusMatchesCheckpoint, OneFileCounted, State
  <1> QED
    BY <1>3, <1>4, <1>5 DEF Inv

\* The step leaves Codex alone.
RoundStep == UNCHANGED <<codex, faults, crashes>>

\* A round begins by giving up the cursors that are reclaimed.
LEMMA StartRoundInv == Inv /\ StartRound /\ RoundStep => Inv'
  <1> SUFFICES ASSUME Inv, StartRound, RoundStep PROVE Inv'
    OBVIOUS
  <1> USE DEF StartRound, RoundStep, codex
  <1>1. \A s \in Threads : cursor'[s] = IF s \in Reclaimed THEN NoCursor ELSE cursor[s]
    OBVIOUS
  <1>2. Typed'
    BY <1>1 DEF Inv, Typed, NoCursor
  <1>3. (QueueReady /\ OpenedFits /\ TargetLost)'
    BY DEF Inv, QueueReady, OpenedFits, TargetLost, State
  <1>4. StatusMatchesCheckpoint'
    BY <1>1 DEF Inv, StatusMatchesCheckpoint, State, Reclaimed
  <1>5. OneFileCounted'
    BY DEF Inv, OneFileCounted
  <1> QED
    BY <1>2, <1>3, <1>4, <1>5 DEF Inv

\* Indexing gives every source seen for the first time a status.
LEMMA IndexSourcesInv == Inv /\ IndexSources /\ RoundStep => Inv'
  <1> SUFFICES ASSUME Inv, IndexSources, RoundStep PROVE Inv'
    OBVIOUS
  <1> USE DEF IndexSources, RoundStep, codex
  <1>1. \A s \in Threads :
           status'[s] = IF s \in listed /\ State(s) = "none"
                        THEN FirstStatus(s) ELSE status[s]
    OBVIOUS
  <1>2. Typed'
    BY <1>1, FirstStatusType DEF Inv, Typed
  <1>3. (QueueReady /\ OpenedFits /\ TargetLost)'
    BY DEF Inv, QueueReady, OpenedFits, TargetLost, State
  <1>4. StatusMatchesCheckpoint'
    BY <1>1, FirstStatusType DEF Inv, StatusMatchesCheckpoint, State
  <1>5. OneFileCounted'
    BY <1>1 DEF Inv, OneFileCounted, StatusMatchesCheckpoint
  <1> QED
    BY <1>2, <1>3, <1>4, <1>5 DEF Inv

\* An unfinished thread that is no longer listed becomes unrecoverable.
LEMMA MarkUnlistedInv ==
    ASSUME NEW t \in Threads
    PROVE  Inv /\ MarkUnlisted(t) /\ RoundStep => Inv'
  <1> SUFFICES ASSUME Inv, MarkUnlisted(t), RoundStep PROVE Inv'
    OBVIOUS
  <1> USE DEF MarkUnlisted, RoundStep, codex
  <1>1. /\ status'[t] = [status[t] EXCEPT !.state = "unrecoverable"]
        /\ \A s \in Threads \ {t} : status'[s] = status[s]
        /\ status' \in [Threads -> Status]
    BY DEF Inv, Typed, Status, States
  <1>2. Typed'
    BY <1>1 DEF Inv, Typed
  <1>3. status'[t].state = "unrecoverable" /\ status'[t].file = status[t].file
    BY <1>1 DEF Inv, Typed, Status
  <1>4. (QueueReady /\ OpenedFits /\ TargetLost)'
    BY <1>3 DEF Inv, QueueReady, OpenedFits, TargetLost, State
  <1>5. StatusMatchesCheckpoint'
    BY <1>1, <1>3 DEF Inv, StatusMatchesCheckpoint, State
  <1>6. OneFileCounted'
    BY <1>1, <1>3 DEF Inv, OneFileCounted
  <1> QED
    BY <1>2, <1>4, <1>5, <1>6 DEF Inv

\* Dropping the checkpoint of a source given up, behind either step that does.
LEMMA DropInv ==
    Inv /\ (DropUnlistedCursor \/ DropCursor) /\ RoundStep => Inv'
  <1> SUFFICES ASSUME Inv, DropUnlistedCursor \/ DropCursor, RoundStep PROVE Inv'
    OBVIOUS
  <1> USE DEF DropUnlistedCursor, DropCursor, RoundStep, codex
  <1>1. target \in Threads /\ State(target) = "unrecoverable"
    BY DEF Inv, TargetLost
  <1>2. /\ cursor' = [s \in Threads |-> cursor'[s]]
        /\ cursor'[target] = NoCursor
        /\ \A s \in Threads \ {target} : cursor'[s] = cursor[s]
    BY <1>1 DEF Inv, Typed
  <1>3. Typed'
    BY <1>2 DEF Inv, Typed, NoCursor
  <1>4. (QueueReady /\ OpenedFits /\ TargetLost)'
    BY DEF Inv, QueueReady, OpenedFits, TargetLost, State
  <1>5. StatusMatchesCheckpoint'
    BY <1>1, <1>2 DEF Inv, StatusMatchesCheckpoint, State
  <1>6. OneFileCounted'
    BY DEF Inv, OneFileCounted
  <1> QED
    BY <1>3, <1>4, <1>5, <1>6 DEF Inv

\* Replacing a source withdraws its facts and starts it anew.
LEMMA ReplaceSourcesInv == Inv /\ ReplaceSources /\ RoundStep => Inv'
  <1> SUFFICES ASSUME Inv, ReplaceSources, RoundStep PROVE Inv'
    OBVIOUS
  <1> USE DEF ReplaceSources, RoundStep, codex
  <1>1. \A s \in Threads :
           /\ facts'[s] = IF s \in Replaced THEN {} ELSE facts[s]
           /\ cursor'[s] = IF s \in Replaced THEN NoCursor ELSE cursor[s]
           /\ status'[s] = IF s \in Replaced THEN FirstStatus(s) ELSE status[s]
    BY DEF KeptFacts
  <1>2. Typed'
    BY <1>1, FirstStatusType DEF Inv, Typed, NoCursor
  <1>3. (QueueReady /\ OpenedFits /\ TargetLost)'
    BY DEF Inv, QueueReady, OpenedFits, TargetLost
  <1>4. StatusMatchesCheckpoint'
    <2> SUFFICES ASSUME NEW s \in Threads
                 PROVE  /\ State(s)' \in {"none", "pending"} =>
                              cursor'[s] = NoCursor /\ facts'[s] = {}
                        /\ State(s)' \in {"reconstructing", "reconstructed"} =>
                              /\ cursor'[s] # NoCursor
                              /\ cursor'[s].next = status'[s].processed
                              /\ cursor'[s].file = status'[s].file
      BY DEF StatusMatchesCheckpoint, NoCursor
    <2>1. CASE s \in Replaced
      BY <1>1, <2>1, FirstStatusType DEF Inv, State
    <2>2. CASE s \notin Replaced
      BY <1>1, <2>2 DEF Inv, StatusMatchesCheckpoint, State
    <2> QED
      BY <2>1, <2>2
  <1>5. OneFileCounted'
    BY <1>1 DEF Inv, OneFileCounted
  <1> QED
    BY <1>2, <1>3, <1>4, <1>5 DEF Inv

\* The queue holds rollouts that exist, each once.
LEMMA BuildQueueInv == Inv /\ BuildQueue /\ RoundStep => Inv'
  <1> SUFFICES ASSUME Inv, BuildQueue, RoundStep PROVE Inv'
    OBVIOUS
  <1> USE DEF BuildQueue, RoundStep, codex, ledger
  <1>1. MaxFiles \in Nat
    BY ReconstructionAssumption DEF ReconstructionAssumption
  <1>2. PICK n \in 0 .. MaxFiles :
           /\ queue' \in [1 .. n -> {s \in targets : Queueable(s)}]
           /\ FirstOf(queue', {s \in targets : Queueable(s)})
    OBVIOUS
  <1>3. queue' \in [1 .. n -> Threads] /\ n \in Nat
    BY <1>1, <1>2 DEF Inv, Typed
  <1>4. queue' \in Seq(Threads) /\ Len(queue') = n
    BY <1>3
  <1>5. \A i \in 1 .. n : Queueable(queue'[i])
    BY <1>2
  <1>6. \A i, j \in 1 .. n : i < j => queue'[i] # queue'[j]
    <2>1. \A i, j \in 1 .. n : i < j => Before(queue'[i], queue'[j])
      BY <1>2 DEF FirstOf
    <2>2. \A s \in Threads : ~Before(s, s)
      BY BeforeIrreflexive DEF Inv
    <2> QED
      BY <1>3, <2>1, <2>2
  <1>7. Typed'
    BY <1>4 DEF Inv, Typed
  <1>8. QueueReady'
    BY <1>4, <1>5, <1>6 DEF QueueReady, Queueable, State, AtWork
  <1>9. (OpenedFits /\ TargetLost)'
    BY DEF OpenedFits, TargetLost
  <1>10. (StatusMatchesCheckpoint /\ OneFileCounted)'
    BY DEF Inv, StatusMatchesCheckpoint, OneFileCounted, State
  <1> QED
    BY <1>7, <1>8, <1>9, <1>10 DEF Inv

\* A round ends when its queue is empty.
LEMMA EndRoundInv == Inv /\ EndRound /\ RoundStep => Inv'
  <1> SUFFICES ASSUME Inv, EndRound, RoundStep PROVE Inv'
    OBVIOUS
  <1> USE DEF EndRound, RoundStep, codex, ledger
  <1>1. Typed'
    BY DEF Inv, Typed
  <1>2. (QueueReady /\ OpenedFits /\ TargetLost)'
    BY DEF Inv, QueueReady, OpenedFits, TargetLost, State
  <1>3. (StatusMatchesCheckpoint /\ OneFileCounted)'
    BY DEF Inv, StatusMatchesCheckpoint, OneFileCounted, State
  <1> QED
    BY <1>1, <1>2, <1>3 DEF Inv

\* The first source of a queue, and the queue without it.
LEMMA HeadAndTail ==
    ASSUME Typed, QueueReady, queue # << >>
    PROVE  /\ Head(queue) \in Threads
           /\ State(Head(queue)) \in AtWork
           /\ Tail(queue) \in Seq(Threads)
           /\ Len(Tail(queue)) = Len(queue) - 1
           /\ \A i \in 1 .. Len(Tail(queue)) :
                 /\ Tail(queue)[i] \in Threads \ {Head(queue)}
                 /\ State(Tail(queue)[i]) \in AtWork
           /\ \A i, j \in 1 .. Len(Tail(queue)) :
                 i < j => Tail(queue)[i] # Tail(queue)[j]
  <1>1. queue \in Seq(Threads) /\ Len(queue) \in Nat \ {0} /\ Head(queue) = queue[1]
    BY DEF Typed
  <1>2. /\ Tail(queue) \in Seq(Threads)
        /\ Len(Tail(queue)) = Len(queue) - 1
        /\ \A i \in 1 .. Len(queue) - 1 : Tail(queue)[i] = queue[i + 1]
    BY <1>1
  <1>3. \A i \in 1 .. Len(queue) - 1 : i + 1 \in 1 .. Len(queue) /\ 1 < i + 1
    BY <1>1
  <1> QED
    BY <1>1, <1>2, <1>3 DEF QueueReady

\* Opening a target notes the file it found and how long it was.
LEMMA OpenTargetInv == Inv /\ OpenTarget /\ RoundStep => Inv'
  <1> SUFFICES ASSUME Inv, OpenTarget, RoundStep PROVE Inv'
    OBVIOUS
  <1> USE DEF OpenTarget, RoundStep, codex, ledger
  <1>1. Head(queue) \in Threads
    BY HeadAndTail DEF Inv
  <1>2. Typed'
    BY DEF Inv, Typed
  <1>3. (QueueReady /\ TargetLost)'
    BY DEF Inv, QueueReady, TargetLost, State
  <1>4. OpenedFits'
    <2>1. CASE Openable(Head(queue))
      BY <1>1, <2>1 DEF Openable, OpenedFits, Inv, Typed
    <2>2. CASE ~Openable(Head(queue))
      BY <2>2 DEF OpenedFits
    <2> QED
      BY <2>1, <2>2
  <1>5. (StatusMatchesCheckpoint /\ OneFileCounted)'
    BY DEF Inv, StatusMatchesCheckpoint, OneFileCounted, State
  <1> QED
    BY <1>2, <1>3, <1>4, <1>5 DEF Inv

\* The source given up leaves the queue, whose other sources are not it.
LEMMA MarkUnrecoverableInv == Inv /\ MarkUnrecoverable /\ RoundStep => Inv'
  <1> SUFFICES ASSUME Inv, MarkUnrecoverable, RoundStep PROVE Inv'
    OBVIOUS
  <1> USE DEF MarkUnrecoverable, RoundStep, codex
  <1> DEFINE t == Head(queue)
  <1>1. queue # << >>
    BY DEF Inv, QueueReady
  <1>2. /\ t \in Threads
        /\ Tail(queue) \in Seq(Threads)
        /\ \A i \in 1 .. Len(Tail(queue)) :
              Tail(queue)[i] \in Threads \ {t} /\ State(Tail(queue)[i]) \in AtWork
        /\ \A i, j \in 1 .. Len(Tail(queue)) :
              i < j => Tail(queue)[i] # Tail(queue)[j]
    BY <1>1, HeadAndTail DEF Inv
  <1> HIDE DEF t
  <1>3. /\ status' = [status EXCEPT ![t].state = "unrecoverable"]
        /\ target' = t /\ queue' = Tail(queue) /\ step' = "dropping"
    BY DEF t
  <1> HIDE DEF MarkUnrecoverable
  <1>4. /\ status'[t] = [status[t] EXCEPT !.state = "unrecoverable"]
        /\ \A s \in Threads \ {t} : status'[s] = status[s]
        /\ status' \in [Threads -> Status]
    <2>1. status \in [Threads -> Status] /\ status[t] \in Status
      BY <1>2 DEF Inv, Typed
    <2>2. [status[t] EXCEPT !.state = "unrecoverable"] \in Status
      BY <2>1 DEF Status, States
    <2> QED
      BY <1>2, <1>3, <2>1, <2>2
  <1>5. status'[t].state = "unrecoverable" /\ status'[t].file = status[t].file
    BY <1>2, <1>4 DEF Inv, Typed, Status
  <1> USE DEF MarkUnrecoverable
  <1>6. Typed'
    BY <1>2, <1>3, <1>4 DEF Inv, Typed
  <1>7. \A i \in 1 .. Len(queue') : queue'[i] \in Threads \ {t}
    BY <1>2, <1>3
  <1>8. (QueueReady /\ OpenedFits /\ TargetLost)'
    BY <1>2, <1>3, <1>4, <1>5, <1>7 DEF QueueReady, OpenedFits, TargetLost, State
  <1>9. StatusMatchesCheckpoint'
    BY <1>4, <1>5 DEF Inv, StatusMatchesCheckpoint, State
  <1>10. OneFileCounted'
    BY <1>4, <1>5 DEF Inv, OneFileCounted
  <1> QED
    BY <1>6, <1>8, <1>9, <1>10 DEF Inv

\* A poll either commits a chunk or changes nothing.
LEMMA PollTargetInv == Inv /\ PollTarget /\ RoundStep => Inv'
  <1> SUFFICES ASSUME Inv, PollTarget, RoundStep PROVE Inv'
    OBVIOUS
  <1> USE DEF PollTarget, RoundStep, codex
  <1> DEFINE t == Head(queue)
  <1>1. step = "opened" /\ queue # << >>
    BY DEF Inv, QueueReady
  <1>2. /\ t \in Threads /\ State(t) \in AtWork
        /\ Tail(queue) \in Seq(Threads)
        /\ \A i \in 1 .. Len(Tail(queue)) :
              Tail(queue)[i] \in Threads \ {t} /\ State(Tail(queue)[i]) \in AtWork
        /\ \A i, j \in 1 .. Len(Tail(queue)) :
              i < j => Tail(queue)[i] # Tail(queue)[j]
    BY <1>1, HeadAndTail DEF Inv
  <1>3. CASE ~Readable(t)
    <2>1. UNCHANGED <<status, cursor, facts, queue, targets, listed, disk, place>>
             /\ step' = "failed"
      BY <1>3 DEF ledger
    <2>2. Typed'
      BY <2>1 DEF Inv, Typed
    <2>3. (QueueReady /\ OpenedFits /\ TargetLost)'
      BY <1>1, <2>1 DEF Inv, QueueReady, OpenedFits, TargetLost, State
    <2>4. (StatusMatchesCheckpoint /\ OneFileCounted)'
      BY <2>1 DEF Inv, StatusMatchesCheckpoint, OneFileCounted, State
    <2> QED
      BY <2>2, <2>3, <2>4 DEF Inv
  <1>4. CASE Readable(t)
    <2>1. CommitChunk(t) /\ queue' = Tail(queue) /\ step' = "work"
      BY <1>4
    <2> HIDE DEF t
    <2>2. End(t) \in Nat
      BY <1>2, <1>4, EndType DEF Readable, Inv
    <2>3. opened.file \in Files /\ (cursor[t] # NoCursor => cursor[t].file = opened.file)
      BY <1>1 DEF Inv, OpenedFits, t
    <2>4. /\ facts'[t] = facts[t] \cup NewFacts(t)
          /\ \A s \in Threads \ {t} : facts'[s] = facts[s]
          /\ facts' = [s \in Threads |-> facts'[s]]
      BY <1>2, <2>1 DEF CommitChunk, Inv, Typed
    <2>5. /\ cursor'[t].file = opened.file
          /\ cursor'[t].next = End(t)
          /\ \A s \in Threads \ {t} : cursor'[s] = cursor[s]
          /\ cursor' = [s \in Threads |-> cursor'[s]]
      BY <1>2, <2>1 DEF CommitChunk, Inv, Typed
    <2>6. /\ status'[t].state \in {"reconstructed", "reconstructing"}
          /\ status'[t].file = opened.file
          /\ status'[t].processed = End(t)
          /\ \A s \in Threads \ {t} : status'[s] = status[s]
      BY <1>2, <2>1 DEF CommitChunk, Processed, Inv, Typed
    <2>7. status' \in [Threads -> Status]
      BY <1>2, <2>1, <2>2, <2>3 DEF CommitChunk, Processed, Inv, Typed, Status, States
    <2>8. Typed'
      BY <1>2, <2>1, <2>2, <2>4, <2>5, <2>7 DEF Inv, Typed
    <2>9. \A i \in 1 .. Len(queue') : queue'[i] \in Threads \ {t}
      BY <1>2, <2>1
    <2>10. (QueueReady /\ OpenedFits /\ TargetLost)'
      BY <1>2, <2>1, <2>6, <2>9 DEF QueueReady, OpenedFits, TargetLost, State
    <2>11. StatusMatchesCheckpoint'
      <3>1. cursor'[t] # NoCursor
        BY <2>3, <2>5, ReconstructionAssumption DEF NoCursor, ReconstructionAssumption
      <3> QED
        BY <2>4, <2>5, <2>6, <3>1 DEF Inv, StatusMatchesCheckpoint, State
    <2>12. OneFileCounted'
      <3>1. \A fact \in facts[t] : fact.file = opened.file
        <4>1. CASE cursor[t] = NoCursor
          BY <1>2, <4>1 DEF Inv, StatusMatchesCheckpoint, AtWork
        <4>2. CASE cursor[t] # NoCursor
          BY <1>2, <2>3, <4>2 DEF Inv, StatusMatchesCheckpoint, OneFileCounted, AtWork
        <4> QED
          BY <4>1, <4>2
      <3>2. \A fact \in NewFacts(t) : fact.file = opened.file
        BY NewFactsFile
      <3> QED
        BY <2>4, <2>6, <3>1, <3>2 DEF Inv, OneFileCounted
    <2> QED
      BY <2>8, <2>10, <2>11, <2>12 DEF Inv
  <1> QED
    BY <1>3, <1>4

\* Every step of a round keeps the invariant.
LEMMA RoundInv == Inv /\ Round => Inv'
  <1> SUFFICES ASSUME Inv, Round PROVE Inv'
    OBVIOUS
  <1>1. RoundStep
    BY DEF Round, RoundStep
  <1>2. CASE StartRound \/ IndexSources \/ ReplaceSources \/ BuildQueue \/ EndRound
    BY <1>1, <1>2, StartRoundInv, IndexSourcesInv, ReplaceSourcesInv, BuildQueueInv,
       EndRoundInv
  <1>3. CASE OpenTarget \/ PollTarget \/ MarkUnrecoverable
    BY <1>1, <1>3, OpenTargetInv, PollTargetInv, MarkUnrecoverableInv
  <1>4. CASE DropUnlistedCursor \/ DropCursor
    BY <1>1, <1>4, DropInv
  <1>5. CASE \E s \in Threads : MarkUnlisted(s)
    BY <1>1, <1>5, MarkUnlistedInv
  <1> QED
    BY <1>2, <1>3, <1>4, <1>5 DEF Round

\* The invariant holds in every state the reconstruction reaches.
LEMMA Invariance == Spec => []Inv
  <1>1. Inv /\ UNCHANGED vars => Inv'
    BY DEF vars, Inv, Typed, QueueReady, OpenedFits, TargetLost,
           StatusMatchesCheckpoint, OneFileCounted, State
  <1>2. Inv /\ [Next]_vars => Inv'
    BY <1>1, CodexInv, RoundInv, CrashInv DEF Next
  <1> QED
    BY InitInv, <1>2, PTL DEF Spec

\* For any rollouts and any faults, a pending source has neither a checkpoint nor
\* facts, and the checkpoint of a source at work is at the file and the offset its
\* status gives (upsert_reconstruction_events_and_cursor,
\* replace_reconstruction_sources).
THEOREM StatusAgrees == Spec => []StatusMatchesCheckpoint
  BY Invariance, PTL DEF Inv

\* For any rollouts and any faults, the facts of a thread come from one physical
\* file, the one its status names.
THEOREM FactsOfOneFile == Spec => []OneFileCounted
  BY Invariance, PTL DEF Inv

-----------------------------------------------------------------------------
(* One reading of the file.                                                *)

CheckpointInv ==
    /\ TypeOK
    /\ \A f \in Files : disk[f] <= 2 * Len(content[f])
    /\ \A s \in Threads : cursor[s].parser \in GoodParser
    /\ \A s \in Threads : cursor[s] # NoCursor => cursor[s].file \in Files
    /\ FactsMatchCheckpoint

\* An action that leaves the content of the files alone, and of every source keeps
\* the checkpoint and the facts or drops the checkpoint.
LEMMA CheckpointsKept ==
    ASSUME CheckpointInv, UNCHANGED <<content, rewritten>>,
           \A s \in Threads : \/ cursor'[s] = cursor[s] /\ facts'[s] = facts[s]
                              \/ cursor'[s] = NoCursor /\ facts'[s] \in {facts[s], {}},
           cursor' = [s \in Threads |-> cursor'[s]]
    PROVE  /\ cursor' \in [Threads -> Checkpoint]
           /\ \A s \in Threads : facts'[s] \subseteq Fact
           /\ \A s \in Threads : cursor'[s].parser \in GoodParser
           /\ \A s \in Threads : cursor'[s] # NoCursor => cursor'[s].file \in Files
           /\ FactsMatchCheckpoint'
<1>1. NewParser \in GoodParser /\ NoCursor.parser = NewParser
    BY DEF NewParser, GoodParser, Parser, Consistent, NoCursor
<1>2. NoCursor \in Checkpoint
    BY <1>1 DEF NoCursor, Checkpoint, GoodParser
<1>3. \A s \in Threads : cursor'[s] \in Checkpoint
    BY <1>2 DEF CheckpointInv, TypeOK
<1>4. FactsMatchCheckpoint'
    BY DEF CheckpointInv, FactsMatchCheckpoint, RecordsRead
<1>5. \A s \in Threads : cursor'[s].parser \in GoodParser
    BY <1>1 DEF CheckpointInv
<1>6. \A s \in Threads : facts'[s] \subseteq Fact
    BY DEF CheckpointInv, TypeOK
<1>7. \A s \in Threads : cursor'[s] # NoCursor => cursor'[s].file \in Files
    BY DEF CheckpointInv
<1> QED
    BY <1>3, <1>4, <1>5, <1>6, <1>7

\* At the beginning nothing is read and there are no facts.
LEMMA CheckpointInit == Init => CheckpointInv
<1> SUFFICES ASSUME Init PROVE CheckpointInv
    OBVIOUS
<1>1. NewParser \in GoodParser
    BY DEF NewParser, GoodParser, Parser, Consistent
<1>2. NoCursor \in Checkpoint /\ NoCursor.parser = NewParser
    BY <1>1 DEF NoCursor, Checkpoint, GoodParser
<1>3. cursor = [s \in Threads |-> NoCursor] /\ facts = [s \in Threads |-> {}]
    BY DEF Init
<1>4. NoStatus \in Status /\ Nothing \in [file : Files \cup {NoFile}, len : Nat]
    BY DEF NoStatus, Status, States, Nothing
<1>5. /\ content \in Contents /\ content \in [Files -> Seq(Record)] /\ disk = Written
      /\ place \in [Threads -> Files \cup {Missing}]
    BY ReconstructionAssumption DEF Init
<1>6. TypeOK
    BY <1>2, <1>3, <1>4, <1>5, ReconstructionAssumption DEF Init, TypeOK
<1>7. \A f \in Files : disk[f] <= 2 * Len(content[f])
    BY <1>5, ReconstructionAssumption
<1> QED
    BY <1>1, <1>2, <1>3, <1>6, <1>7 DEF CheckpointInv, FactsMatchCheckpoint

\* Codex writes no more than the file will hold, and where it puts other records
\* into a file that has a checkpoint, that file is one of the rewritten.
LEMMA CheckpointCodex ==
    ASSUME Inv, Inv', CheckpointInv, Codex PROVE CheckpointInv'
<1>1. UNCHANGED <<status, cursor, facts, step, targets, queue, target, opened>>
    BY DEF Codex, Write, Replace, Hide, Show, Rewrite, List, Unlist, ledger, round
<1>2. PICK s \in Threads :
        \/ Write(s)
        \/ \E f \in Files : Replace(s, f) \/ Show(s, f)
        \/ Hide(s)
        \/ \E records \in Texts : \E n \in 0 .. 2 : Rewrite(s, records, n)
        \/ List(s)
        \/ Unlist(s)
    BY DEF Codex
<1>3. /\ \A f \in Files : disk[f] \in Nat /\ disk'[f] \in Nat /\ Len(content[f]) \in Nat
      /\ \A f \in Files : disk[f] <= 2 * Len(content[f])
      /\ disk \in [Files -> Nat] /\ lost \subseteq Threads /\ rewritten \subseteq Files
      /\ content \in [Files -> Seq(Record)]
      /\ faults \in 0 .. MaxFaults /\ crashes \in 0 .. MaxCrashes
      /\ place[s] \in Files \cup {Missing}
      /\ MaxFaults \in Nat
    BY ReconstructionAssumption, LenProperties DEF CheckpointInv, TypeOK, Inv, Typed
<1>4. /\ \A f \in Files : disk'[f] <= 2 * Len(content'[f])
      /\ content' \in [Files -> Seq(Record)]
      /\ lost' \subseteq Threads
      /\ rewritten' \subseteq Files /\ rewritten \subseteq rewritten'
      /\ \A f \in Files : content'[f] = content[f] \/ f \in rewritten'
                          \/ \A t \in Threads : cursor[t].file # f
      /\ faults' \in 0 .. MaxFaults
      /\ crashes' = crashes
  <2>1. CASE Write(s)
    BY <1>3, <2>1 DEF Write
  <2>2. CASE \E f \in Files : Replace(s, f) \/ Show(s, f)
    BY <1>3, <2>2 DEF Replace, Show, Fault
  <2>3. CASE Hide(s)
    BY <1>3, <2>3 DEF Hide, Fault
  <2>4. CASE \E records \in Texts : \E n \in 0 .. 2 : Rewrite(s, records, n)
    <3>1. PICK records \in Texts, n \in 0 .. 2 : Rewrite(s, records, n)
      BY <2>4
    <3>2. /\ place[s] \in Files /\ n <= 2 * Len(records)
          /\ content' = [content EXCEPT ![place[s]] = records]
          /\ disk' = [disk EXCEPT ![place[s]] = n]
          /\ lost' = lost \cup {s} /\ faults < MaxFaults /\ faults' = faults + 1
          /\ rewritten' = IF /\ records # content[place[s]]
                             /\ \E t \in Threads : cursor[t].file = place[s]
                          THEN rewritten \cup {place[s]} ELSE rewritten
          /\ crashes' = crashes
      BY <1>3, <3>1 DEF Rewrite, Fault
    <3>3. records \in Seq(Record)
      BY ReconstructionAssumption DEF Texts
    <3>4. content' \in [Files -> Seq(Record)]
      BY <1>3, <3>2, <3>3
    <3>5. \A f \in Files : disk'[f] <= 2 * Len(content'[f])
      BY <1>3, <3>2
    <3>6. /\ lost' \subseteq Threads /\ rewritten' \subseteq Files
          /\ rewritten \subseteq rewritten'
          /\ faults' \in 0 .. MaxFaults
      BY <1>3, <3>2
    <3>7. \A f \in Files : content'[f] = content[f] \/ f \in rewritten'
                           \/ \A t \in Threads : cursor[t].file # f
      BY <1>3, <3>2
    <3> QED
      BY <3>2, <3>4, <3>5, <3>6, <3>7
  <2>5. CASE List(s) \/ Unlist(s)
    BY <1>3, <2>5 DEF List, Unlist, Fault
  <2> QED
    BY <1>2, <2>1, <2>2, <2>3, <2>4, <2>5
<1>5. TypeOK'
    BY <1>1, <1>3, <1>4 DEF CheckpointInv, TypeOK, Inv, Typed
<1>6. FactsMatchCheckpoint'
  <2> SUFFICES ASSUME NEW r \in Threads, cursor'[r] # NoCursor,
                      cursor'[r].tailFile = cursor'[r].file,
                      cursor'[r].file \notin rewritten'
               PROVE  /\ facts'[r] = FactsBetween(NewParser, content'[cursor'[r].file], 0,
                                                  cursor'[r].next \div 2, cursor'[r].file, r)
                      /\ cursor'[r].parser = ParserAfter(NewParser, content'[cursor'[r].file], 0,
                                                         cursor'[r].next \div 2, r)
    BY <1>1 DEF FactsMatchCheckpoint, RecordsRead, NoCursor
  <2>1. cursor' = cursor /\ facts' = facts /\ cursor[r].file \notin rewritten
    BY <1>1, <1>4
  <2>2. content'[cursor[r].file] = content[cursor[r].file]
    BY <1>1, <1>4, <2>1 DEF CheckpointInv
  <2> QED
    BY <2>1, <2>2 DEF CheckpointInv, FactsMatchCheckpoint, RecordsRead
<1> QED
    BY <1>1, <1>4, <1>5, <1>6 DEF CheckpointInv

\* A crash leaves facts and checkpoints as they are.
LEMMA CheckpointCrash ==
    ASSUME Inv', CheckpointInv, Crash PROVE CheckpointInv'
<1>1. UNCHANGED <<content, disk, place, listed, lost, rewritten, faults, status, cursor, facts>>
      /\ crashes < MaxCrashes /\ crashes' = crashes + 1
      /\ step' = "idle" /\ targets' = {} /\ queue' = << >> /\ target' = NoThread
      /\ opened' = Nothing
    BY DEF Crash, Idle, codex, ledger
<1>2. crashes' \in 0 .. MaxCrashes
    BY <1>1, ReconstructionAssumption DEF CheckpointInv, TypeOK
<1>3. opened' \in [file : Files \cup {NoFile}, len : Nat]
    BY <1>1 DEF Nothing
<1>4. TypeOK'
    BY <1>1, <1>2, <1>3 DEF CheckpointInv, TypeOK, Inv, Typed
<1> QED
    BY <1>1, <1>4 DEF CheckpointInv, FactsMatchCheckpoint, RecordsRead

\* The steps of a round between the polls.
LEMMA CheckpointRound ==
    ASSUME Inv, Inv', CheckpointInv, Round, ~PollTarget PROVE CheckpointInv'
<1>1. UNCHANGED <<content, disk, place, listed, lost, rewritten, faults, crashes>>
    BY DEF Round, codex
<1>2. /\ cursor = [s \in Threads |-> cursor[s]] /\ facts = [s \in Threads |-> facts[s]]
      /\ cursor' = [s \in Threads |-> cursor'[s]]
    BY DEF Inv, Typed
<1>3. \A s \in Threads : \/ cursor'[s] = cursor[s] /\ facts'[s] = facts[s]
                         \/ cursor'[s] = NoCursor /\ facts'[s] \in {facts[s], {}}
  <2>1. CASE UNCHANGED <<cursor, facts>>
    BY <2>1
  <2>2. CASE StartRound
    BY <2>2 DEF StartRound
  <2>3. CASE DropUnlistedCursor \/ DropCursor
    BY <1>2, <2>3 DEF DropUnlistedCursor, DropCursor
  <2>4. CASE ReplaceSources
    BY <2>4 DEF ReplaceSources, KeptFacts
  <2> QED
    BY <2>1, <2>2, <2>3, <2>4
       DEF Round, IndexSources, MarkUnlisted, BuildQueue, OpenTarget, MarkUnrecoverable,
           EndRound, ledger
<1>4. /\ cursor' \in [Threads -> Checkpoint]
      /\ \A s \in Threads : facts'[s] \subseteq Fact
      /\ \A s \in Threads : cursor'[s].parser \in GoodParser
      /\ \A s \in Threads : cursor'[s] # NoCursor => cursor'[s].file \in Files
      /\ FactsMatchCheckpoint'
    BY <1>1, <1>2, <1>3, CheckpointsKept
<1>5. /\ step' \in {"idle", "index", "reap", "reaping", "queue", "work", "opened",
                    "failed", "dropping"}
      /\ target' \in Threads \cup {NoThread}
      /\ opened' \in [file : Files \cup {NoFile}, len : Nat]
  <2>1. /\ target \in Threads \cup {NoThread}
        /\ opened \in [file : Files \cup {NoFile}, len : Nat]
        /\ place \in [Threads -> Files \cup {Missing}] /\ disk \in [Files -> Nat]
    BY DEF CheckpointInv, TypeOK
  <2>2. CASE OpenTarget
    <3>1. queue # << >> /\ UNCHANGED target
      BY <2>2 DEF OpenTarget
    <3>2. Head(queue) \in Threads
      BY <3>1, HeadAndTail DEF Inv
    <3> DEFINE s == Head(queue)
    <3>3. \/ /\ place[s] # Missing /\ step' = "opened"
             /\ opened' = [file |-> place[s], len |-> disk[place[s]]]
          \/ step' = "failed" /\ UNCHANGED opened
      BY <2>2 DEF OpenTarget, Openable
    <3> HIDE DEF s
    <3>4. place[s] # Missing => place[s] \in Files /\ disk[place[s]] \in Nat
      BY <2>1, <3>2 DEF s
    <3> QED
      BY <2>1, <3>1, <3>3, <3>4
  <2>3. CASE MarkUnrecoverable
    <3>1. queue # << >>
      BY <2>3 DEF MarkUnrecoverable, Inv, QueueReady
    <3>2. Head(queue) \in Threads
      BY <3>1, HeadAndTail DEF Inv
    <3> QED
      BY <2>1, <2>3, <3>2 DEF MarkUnrecoverable
  <2>4. CASE ~OpenTarget /\ ~MarkUnrecoverable
    BY <2>1, <2>4 DEF Round, StartRound, IndexSources, MarkUnlisted, DropUnlistedCursor,
                      ReplaceSources, BuildQueue, DropCursor, EndRound
  <2> QED
    BY <2>2, <2>3, <2>4
<1>6. TypeOK'
    BY <1>1, <1>4, <1>5 DEF CheckpointInv, TypeOK, Inv, Typed
<1> QED
    BY <1>1, <1>4, <1>6 DEF CheckpointInv

\* What a poll of s reads lies behind its checkpoint and within the file.
LEMMA ChunkRange ==
    ASSUME Inv, CheckpointInv, NEW s \in Threads, Readable(s)
    PROVE  /\ place[s] \in Files
           /\ From(s) \in Nat /\ End(s) \in Nat
           /\ From(s) \div 2 = RecordsRead(s)
           /\ From(s) \div 2 \in Nat /\ End(s) \div 2 \in Nat
           /\ From(s) \div 2 <= End(s) \div 2
           /\ End(s) \div 2 <= Len(content[place[s]])
           /\ \A i \in 1 .. Len(content[place[s]]) : content[place[s]][i] \in Record
<1> DEFINE f == place[s]
           d == disk[f]
           next == cursor[s].next
           from == next - (next % 2)
           len == Len(content[f])
<1>1. f \in Files /\ d \in Nat /\ next \in Nat /\ Chunk \in Nat /\ content[f] \in Seq(Record)
    BY ReconstructionAssumption DEF Readable, CheckpointInv, TypeOK, Inv, Typed
<1>2. len \in Nat /\ \A i \in 1 .. len : content[f][i] \in Record
    BY <1>1, LenProperties
<1>3. d <= 2 * len
    BY <1>1 DEF CheckpointInv
<1>4. From(s) = from
    BY DEF From
<1>5. cursor[s] = NoCursor => next = 0
    BY DEF NoCursor
<1>6. cursor[s] # NoCursor => ~(d < from)
    BY <1>4 DEF Readable, Resets
<1> HIDE DEF next, d, len, f
<1>7. next % 2 \in {0, 1} /\ next % 2 <= next /\ from \in Nat /\ from \div 2 = next \div 2
    BY <1>1
<1> HIDE DEF from
<1>8. from <= d
    BY <1>1, <1>5, <1>6, <1>7 DEF from
<1> DEFINE e == IF d <= from + Chunk THEN d ELSE from + Chunk
<1>9. e \in Nat /\ from <= e /\ e <= d
    BY <1>1, <1>7, <1>8
<1>10. e \in {d, from + Chunk} /\ \A x \in {d, from + Chunk} : e <= x
    BY <1>1, <1>7
<1>11. End(s) = e
  <2>1. End(s) = Min({d, from + Chunk})
    BY <1>4 DEF End, d, f
  <2> DEFINE T == {d, from + Chunk}
             x == CHOOSE y \in T : \A z \in T : y <= z
  <2>2. x \in T /\ \A z \in T : x <= z
    BY <1>10
  <2>3. Min(T) = x
    BY DEF Min
  <2>4. \A y, z \in T : y <= z /\ z <= y => y = z
    BY <1>1, <1>7
  <2> HIDE DEF x, T, e
  <2>5. e \in T /\ \A z \in T : e <= z
    BY <1>10 DEF T
  <2> QED
    BY <2>1, <2>2, <2>3, <2>4, <2>5 DEF T
<1> HIDE DEF e
<1>12. e \div 2 \in Nat /\ from \div 2 \in Nat /\ from \div 2 <= e \div 2 /\ e \div 2 <= len
    BY <1>1, <1>2, <1>3, <1>7, <1>9
<1> QED
    BY <1>1, <1>2, <1>4, <1>7, <1>9, <1>11, <1>12 DEF RecordsRead, next, f, len

\* A poll reads on where the checkpoint is; what it commits is one reading.
LEMMA CheckpointPoll ==
    ASSUME Inv, Inv', CheckpointInv, Round, PollTarget PROVE CheckpointInv'
<1>1. UNCHANGED <<content, disk, place, listed, lost, rewritten, faults, crashes, targets,
                 target>>
      /\ opened' = Nothing
    BY DEF Round, PollTarget, codex
<1>2. opened' \in [file : Files \cup {NoFile}, len : Nat]
    BY <1>1 DEF Nothing
<1> DEFINE s == Head(queue)
<1>3. s \in Threads /\ State(s) \in AtWork /\ step = "opened"
    BY HeadAndTail DEF Inv, QueueReady, PollTarget
<1>4. CASE ~Readable(s)
  <2>1. UNCHANGED <<status, cursor, facts, queue>> /\ step' = "failed"
    BY <1>4 DEF PollTarget, ledger
  <2>2. TypeOK'
    BY <1>1, <1>2, <2>1 DEF CheckpointInv, TypeOK, Inv, Typed
  <2> QED
    BY <1>1, <2>1, <2>2 DEF CheckpointInv, FactsMatchCheckpoint, RecordsRead
<1>5. CASE Readable(s)
  <2>1. CommitChunk(s) /\ step' = "work"
    BY <1>5 DEF PollTarget
  <2>2. opened.file \in Files /\ (cursor[s] # NoCursor => cursor[s].file = opened.file)
    BY <1>3 DEF Inv, OpenedFits
  <2>3. cursor[s] = NoCursor => facts[s] = {}
    BY <1>3 DEF Inv, StatusMatchesCheckpoint, AtWork
  <2>4. cursor[s] # NoCursor => cursor[s].tailFile = place[s]
    BY <1>5 DEF Readable, Resets
  <2> HIDE DEF s
  <2> DEFINE f == place[s]
             records == content[f]
             m == From(s) \div 2
             n == End(s) \div 2
             p == cursor[s].parser
             q == ParserAfter(p, records, m, n, s)
             added == FactsBetween(p, records, m, n, opened.file, s)
             new == [file |-> opened.file, tailFile |-> f, next |-> End(s), parser |-> q]
  <2>5. /\ f \in Files /\ End(s) \in Nat /\ m = RecordsRead(s)
        /\ m \in Nat /\ n \in Nat /\ m <= n /\ n <= Len(records)
        /\ \A i \in 1 .. Len(records) : records[i] \in Record
    BY <1>3, <1>5, ChunkRange
  <2>6. /\ cursor' = [cursor EXCEPT ![s] = new]
        /\ facts' = [facts EXCEPT ![s] = @ \cup added]
    BY <2>1 DEF CommitChunk, NewFacts
  <2>7. /\ cursor \in [Threads -> Checkpoint] /\ facts = [r \in Threads |-> facts[r]]
        /\ \A r \in Threads : facts[r] \subseteq Fact /\ cursor[r].parser \in GoodParser
    BY DEF CheckpointInv, TypeOK, Inv, Typed
  <2> HIDE DEF f, records, m, n, p, q, added
  <2>8. Len(records) \in Nat
    BY <2>5, LenProperties, ReconstructionAssumption DEF records, CheckpointInv, TypeOK
  <2>9. \A i \in 0 + 1 .. n : records[i] \in Record
    BY <2>5, <2>8
  <2>10. p \in GoodParser
    BY <1>3, <2>7 DEF p
  <2>11. q \in GoodParser
    <3>1. n \in m .. n /\ \A i \in m + 1 .. n : records[i] \in Record
      BY <2>5, <2>9
    <3> QED
      BY <1>3, <2>5, <2>10, <3>1, ReadOn DEF q
  <2>12. added \subseteq Fact
    <3>1. \A i \in m + 1 .. n : i \in Nat /\ records[i] \in Record
      BY <2>5, <2>9
    <3>2. added \subseteq [file : {opened.file}, place : m + 1 .. n, usage : Usage \ {Zero}, epoch : Nat]
      BY <1>3, <2>5, <2>10, <3>1, FactsBetweenType DEF added
    <3> QED
      BY <2>2, <3>1, <3>2 DEF Fact
  <2>13. new \in Checkpoint
    BY <2>2, <2>5, <2>11 DEF Checkpoint, GoodParser
  <2>14. /\ cursor'[s] = new /\ facts'[s] = facts[s] \cup added
         /\ \A r \in Threads \ {s} : cursor'[r] = cursor[r] /\ facts'[r] = facts[r]
    BY <1>3, <2>6, <2>7
  <2>15. cursor' \in [Threads -> Checkpoint]
    <3> HIDE DEF new
    <3> QED
      BY <1>3, <2>6, <2>7, <2>13
  <2>16. \A r \in Threads : facts'[r] \subseteq Fact /\ cursor'[r].parser \in GoodParser
    BY <2>7, <2>11, <2>12, <2>14
  <2>17. TypeOK'
    BY <1>1, <1>2, <2>1, <2>15, <2>16 DEF CheckpointInv, TypeOK, Inv, Typed
  <2>18. ASSUME f = opened.file, opened.file \notin rewritten
         PROVE  /\ facts[s] \cup added = FactsBetween(NewParser, records, 0, n, opened.file, s)
                /\ q = ParserAfter(NewParser, records, 0, n, s)
    <3> DEFINE before == ParserAfter(NewParser, records, 0, m, s)
    <3>1. /\ ParserAfter(before, records, m, n, s) = ParserAfter(NewParser, records, 0, n, s)
          /\ FactsBetween(NewParser, records, 0, n, opened.file, s)
                = FactsBetween(NewParser, records, 0, m, opened.file, s)
                  \cup FactsBetween(before, records, m, n, opened.file, s)
      BY <1>3, <2>5, <2>9, ReadInPieces
    <3>2. CASE cursor[s] = NoCursor
      <4>1. p = NewParser /\ m = 0 /\ facts[s] = {}
        BY <2>3, <2>5, <3>2 DEF NoCursor, p, RecordsRead
      <4> QED
        BY <4>1 DEF q, added
    <3>3. CASE cursor[s] # NoCursor
      <4>1. cursor[s].tailFile = cursor[s].file /\ cursor[s].file = opened.file
        BY <2>2, <2>4, <2>18, <3>3 DEF f
      <4>2. /\ facts[s] = FactsBetween(NewParser, records, 0, m, opened.file, s)
            /\ p = before
        BY <1>3, <2>5, <2>18, <3>3, <4>1 DEF CheckpointInv, FactsMatchCheckpoint, records, p
      <4> QED
        BY <3>1, <4>2 DEF q, added
    <3> QED
      BY <3>2, <3>3
  <2>19. FactsMatchCheckpoint'
    <3> SUFFICES ASSUME NEW r \in Threads, cursor'[r] # NoCursor,
                        cursor'[r].tailFile = cursor'[r].file,
                        cursor'[r].file \notin rewritten
                 PROVE  /\ facts'[r] = FactsBetween(NewParser, content[cursor'[r].file], 0,
                                                    cursor'[r].next \div 2, cursor'[r].file, r)
                        /\ cursor'[r].parser = ParserAfter(NewParser, content[cursor'[r].file], 0,
                                                           cursor'[r].next \div 2, r)
      BY <1>1 DEF FactsMatchCheckpoint, RecordsRead, NoCursor
    <3>1. CASE r = s
      <4>1. /\ new.file = opened.file /\ new.tailFile = f /\ new.next = End(s) /\ new.parser = q
        OBVIOUS
      <4> HIDE DEF new
      <4>2. /\ f = opened.file /\ opened.file \notin rewritten
            /\ cursor'[r] = new /\ facts'[r] = facts[s] \cup added
        BY <2>14, <3>1, <4>1
      <4>3. content[new.file] = records /\ new.next \div 2 = n
        BY <4>1, <4>2 DEF records, n
      <4> QED
        BY <2>18, <3>1, <4>1, <4>2, <4>3
    <3>2. CASE r # s
      BY <2>14, <3>2 DEF CheckpointInv, FactsMatchCheckpoint, RecordsRead
    <3> QED
      BY <3>1, <3>2
  <2>20. \A r \in Threads : cursor'[r] # NoCursor => cursor'[r].file \in Files
    BY <2>2, <2>14 DEF CheckpointInv
  <2> HIDE DEF new
  <2> QED
    BY <1>1, <2>16, <2>17, <2>19, <2>20 DEF CheckpointInv
<1> QED
    BY <1>4, <1>5

\* The checkpoint and the facts are those of one reading, at every step.
LEMMA CheckpointInvariance == Spec => []CheckpointInv
<1>1. Inv /\ UNCHANGED vars => Inv'
    BY DEF vars, Inv, Typed, QueueReady, OpenedFits, TargetLost,
           StatusMatchesCheckpoint, OneFileCounted, State
<1>2. Inv /\ [Next]_vars => Inv'
    BY <1>1, CodexInv, RoundInv, CrashInv DEF Next
<1>3. CheckpointInv /\ UNCHANGED vars => CheckpointInv'
    BY DEF vars, CheckpointInv, TypeOK, FactsMatchCheckpoint, RecordsRead
<1>4. Inv /\ Inv' /\ CheckpointInv /\ [Next]_vars => CheckpointInv'
    BY <1>3, CheckpointCodex, CheckpointCrash, CheckpointRound, CheckpointPoll DEF Next
<1>5. Inv /\ CheckpointInv /\ [Next]_vars => (Inv /\ CheckpointInv)'
    BY <1>2, <1>4
<1> QED
    BY InitInv, CheckpointInit, <1>5, PTL DEF Spec

\* For any rollouts and any faults, every fact in the ledger is a usage it accepts
\* and every checkpoint one the parser can go on from.
THEOREM TypeCorrect == Spec => []TypeOK
  BY CheckpointInvariance, PTL DEF CheckpointInv

\* For any rollouts, chunks and faults, the facts of a thread and the parser in its
\* checkpoint are those of one reading of the file from its first byte to the
\* checkpoint: nothing counted twice and nothing left out (ingest_target,
\* upsert_reconstruction_events_and_cursor).  A file that Codex has given other
\* records while a checkpoint was at it is none of these: nothing in the code tells
\* it from one that has grown.
THEOREM OneReading == Spec => []FactsMatchCheckpoint
  BY CheckpointInvariance, PTL DEF CheckpointInv
=============================================================================
