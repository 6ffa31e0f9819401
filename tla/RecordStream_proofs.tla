------------------------- MODULE RecordStream_proofs -------------------------
(***************************************************************************)
(* Whatever Codex writes to a rollout, every fact the parser makes of it   *)
(* is a usage the ledger accepts: nothing negative, no more cached than    *)
(* input tokens, and not zero.  And the facts of every epoch add up to how *)
(* far the token counter went in it.  The invariant behind the second,     *)
(* Tracking, says what the parser keeps of the stream behind it: the last  *)
(* total and its time, whether all counts so far were inherited, and how   *)
(* often the counter went back.                                            *)
(***************************************************************************)
EXTENDS RecordStream, Induction, SequenceTheorems, TLAPS

-----------------------------------------------------------------------------
(* What the parser does with one record.                                   *)

\* A parser that has seen a total has its time; one that has not found the
\* thread's own stream has seen none.
Consistent(p) ==
    /\ p.previous = None <=> p.lastAt = None
    /\ p.phase = "awaiting" => p.previous = None

\* The mark of an absent value is neither a usage nor a time.
LEMMA NoneApart == None \notin Usage /\ None \notin Nat
  BY RecordsAssumption DEF RecordsAssumption, Usage

\* A record that is counted has a time and a total.
LEMMA CountedType ==
    ASSUME NEW p \in Parser, NEW r \in Record, Counted(p, r)
    PROVE  r.at \in Nat /\ r.total \in Usage /\ r.last \in Usage \cup {None}
  BY DEF Counted, Record, Oversized

\* The difference to an earlier total is a usage, where there is one.
LEMMA DeltaType ==
    ASSUME NEW t \in Usage, NEW u \in Usage, HasDelta(t, u)
    PROVE  Delta(t, u) \in Usage
  BY DEF HasDelta, Delta, Usage

\* What a record adds is a usage other than zero, if it adds anything.
LEMMA UsageAddedType ==
    ASSUME NEW p \in Parser, NEW r \in Record
    PROVE  UsageAdded(p, r) \in (Usage \ {Zero}) \cup {None}
  <1>1. CASE ~Counted(p, r) \/ Inherited(p, r) \/ r.total = p.previous
    BY <1>1 DEF UsageAdded
  <1>2. CASE Counted(p, r) /\ ~Inherited(p, r) /\ r.total # p.previous
    <2>1. r.total \in Usage /\ r.last \in Usage \cup {None}
      BY <1>2, CountedType
    <2>2. p.previous \in Usage \cup {None}
      BY DEF Parser
    <2>3. CASE p.previous = None
      BY <1>2, <2>1, <2>3 DEF UsageAdded
    <2>4. CASE Regresses(p, r)
      BY <1>2, <2>1, <2>4 DEF UsageAdded, Regresses
    <2>5. CASE p.previous # None /\ ~Regresses(p, r)
      <3>1. Delta(r.total, p.previous) \in Usage
        BY <1>2, <2>1, <2>2, <2>5, DeltaType DEF Regresses
      <3> QED
        BY <1>2, <2>5, <3>1 DEF UsageAdded
    <2> QED
      BY <2>3, <2>4, <2>5
  <1> QED
    BY <1>1, <1>2

\* A record leaves a parser the next one can go on from.
LEMMA AfterType ==
    ASSUME NEW p \in Parser, Consistent(p), NEW r \in Record, NEW t \in Threads
    PROVE  After(p, r, t) \in Parser /\ Consistent(After(p, r, t))
  <1>1. CASE Opens(p, r, t)
    <2>1. r.at \in Nat \cup {None}
      BY <1>1 DEF Opens, Record, Oversized
    <2> DEFINE q == [p EXCEPT !.phase = IF t \in Children THEN "prefix" ELSE "live",
                              !.canonicalAt = r.at]
    <2>2. After(p, r, t) = q
      BY <1>1 DEF After
    <2>3. q \in Parser
      BY <2>1 DEF Parser
    <2>4. Consistent(q)
      BY DEF Consistent, Parser
    <2> QED
      BY <2>2, <2>3, <2>4
  <1>2. CASE ~Opens(p, r, t) /\ ~Counted(p, r)
    BY <1>2 DEF After
  <1>3. CASE ~Opens(p, r, t) /\ Counted(p, r)
    <2>1. r.at \in Nat /\ r.total \in Usage
      BY <1>3, CountedType
    <2>2. p.phase # "awaiting"
      BY <1>3 DEF Counted
    <2> DEFINE q == [p EXCEPT !.previous = r.total, !.lastAt = r.at]
               e == IF Regresses(p, r) THEN p.epoch + 1 ELSE p.epoch
               l == [p EXCEPT !.phase = "live", !.previous = r.total,
                              !.lastAt = r.at, !.epoch = e]
    <2>3. After(p, r, t) \in {q, l}
      BY <1>3 DEF After
    <2>4. q \in Parser /\ l \in Parser
      <3>1. q \in Parser
        BY <2>1 DEF Parser
      <3>2. e \in Nat
        BY DEF Parser
      <3> HIDE DEF e
      <3>3. l \in Parser
        BY <2>1, <3>2 DEF Parser
      <3> QED
        BY <3>1, <3>3
    <2>5. Consistent(q) /\ Consistent(l)
      BY <2>1, <2>2, NoneApart DEF Consistent, Parser
    <2> QED
      BY <2>3, <2>4, <2>5
  <1> QED
    BY <1>1, <1>2, <1>3

-----------------------------------------------------------------------------
(* Type correctness.                                                       *)

Inv == TypeOK /\ Consistent(parser)

\* The stream begins empty with a new parser.
LEMMA InitInv == Init => Inv
  <1> SUFFICES ASSUME Init PROVE Inv
    OBVIOUS
  <1>1. NewParser \in Parser /\ Consistent(NewParser)
    BY DEF NewParser, Parser, Consistent
  <1> QED
    BY <1>1 DEF Init, Inv, TypeOK

\* Any record leaves facts and parser of their types.
LEMMA NextInv == Inv /\ [Next]_vars => Inv'
  <1> SUFFICES ASSUME Inv, [Next]_vars PROVE Inv'
    OBVIOUS
  <1>1. CASE UNCHANGED vars
    BY <1>1 DEF vars, Inv, TypeOK, Consistent, Fact
  <1>2. ASSUME NEW r \in Records, Take(r) PROVE Inv'
    <2>1. r \in Record /\ thread \in Threads /\ parser \in Parser
      BY StreamAssumption DEF StreamAssumption, Inv, TypeOK
    <2>2. parser' \in Parser /\ Consistent(parser)'
      BY <1>2, <2>1, AfterType DEF Take, Inv, Consistent
    <2>3. stream' \in Seq(Records) /\ Len(stream') \in Nat \ {0}
                /\ stream'[Len(stream')] = r
      BY <1>2 DEF Take, Inv, TypeOK
    <2>4. FactAt(parser, stream', Len(stream'), thread, thread) \subseteq Fact
      <3>1. CASE UsageAdded(parser, r) = None
        BY <2>3, <3>1 DEF FactAt
      <3>2. CASE UsageAdded(parser, r) # None
        <4>1. UsageAdded(parser, r) \in Usage \ {Zero}
          BY <2>1, <3>2, UsageAddedType
        <4>2. After(parser, r, thread).epoch \in Nat
          BY <2>1, AfterType DEF Inv, Parser
        <4> QED
          BY <2>3, <3>2, <4>1, <4>2 DEF FactAt, Fact
      <3> QED
        BY <3>1, <3>2
    <2> QED
      BY <1>2, <2>2, <2>3, <2>4 DEF Take, Inv, TypeOK, Fact
  <1> QED
    BY <1>1, <1>2 DEF Next

\* For any records in any order and of any length, every fact is a usage the
\* ledger accepts and is not zero, and the checkpoint is one the parser can resume
\* from (process_line, checked_delta and validate).
THEOREM TypeCorrect == Spec => []TypeOK
  <1>1. Inv => TypeOK
    BY DEF Inv
  <1> QED
    BY InitInv, NextInv, <1>1, PTL DEF Spec

-----------------------------------------------------------------------------
(* Sums of facts.                                                          *)

Counter == [input : Nat, cached : Nat]

Chosen(s) == CHOOSE x \in s : TRUE

\* g adds up the facts of every subset of U, in the order of the choice.
Adds(g, U) ==
    g = [s \in SUBSET U |-> IF s = {} THEN Zero
                            ELSE Plus(Chosen(s).usage, g[s \ {Chosen(s)}])]

\* The fold of the community modules is such a function.
LEMMA SumIsFold ==
    ASSUME NEW U
    PROVE  Sum(U) = (CHOOSE g : Adds(g, U))[U]
  BY DEF Sum, FoldSet, MapThenFoldSet, Adds, Chosen

\* Adding counters is commutative and associative, and Zero adds nothing.
LEMMA PlusLaws ==
    /\ Zero \in Counter
    /\ \A u, v \in Counter : Plus(u, v) \in Counter /\ Plus(u, v) = Plus(v, u)
    /\ \A u \in Counter : Plus(Zero, u) = u
    /\ \A u, v, w \in Counter : Plus(u, Plus(v, w)) = Plus(Plus(u, v), w)
  BY DEF Counter, Plus, Zero

\* The subsets of a finite set, one element less.
LEMMA OneLess ==
    ASSUME NEW s, IsFiniteSet(s), s # {}
    PROVE  LET x == Chosen(s)
           IN  /\ x \in s
               /\ IsFiniteSet(s \ {x})
               /\ Cardinality(s) \in Nat /\ Cardinality(s \ {x}) \in Nat
               /\ Cardinality(s) = Cardinality(s \ {x}) + 1
<1> DEFINE x == Chosen(s)
<1>1. x \in s
    BY DEF Chosen
<1> HIDE DEF x
<1>2. /\ IsFiniteSet(s \ {x}) /\ Cardinality(s) \in Nat
      /\ Cardinality(s \ {x}) = Cardinality(s) - 1
    BY <1>1, FS_RemoveElement, FS_CardinalityType
<1>3. Cardinality(s \ {x}) \in Nat
    BY <1>2, FS_CardinalityType
<1> QED
    BY <1>1, <1>2, <1>3 DEF x

\* The sum of the facts of a finite set is defined.
LEMMA AddsExists ==
    ASSUME NEW U, IsFiniteSet(U)
    PROVE  \E g : Adds(g, U)
<1> DEFINE Step(g, s) == IF s = {} THEN Zero ELSE Plus(Chosen(s).usage, g[s \ {Chosen(s)}])
           Solves(g, k) == \A s \in SUBSET U : Cardinality(s) <= k => g[s] = Step(g, s)
           S == {k \in Nat : \E g : Solves(g, k)}
<1>1. \A s \in SUBSET U : IsFiniteSet(s) /\ Cardinality(s) \in Nat /\ Cardinality(s) <= Cardinality(U)
    BY FS_Subset, FS_CardinalityType
<1>2. \A s \in SUBSET U : s # {} => /\ s \ {Chosen(s)} \in SUBSET U
                                   /\ Cardinality(s \ {Chosen(s)}) + 1 = Cardinality(s)
                                   /\ Cardinality(s \ {Chosen(s)}) \in Nat
    BY <1>1, OneLess
<1>3. 0 \in S
  <2> DEFINE g == [s \in SUBSET U |-> Zero]
  <2>1. ASSUME NEW s \in SUBSET U, Cardinality(s) <= 0 PROVE g[s] = Step(g, s)
    <3>1. s = {}
      <4> SUFFICES ASSUME s # {} PROVE FALSE
        OBVIOUS
      <4>1. Cardinality(s \ {Chosen(s)}) + 1 = Cardinality(s) /\ Cardinality(s \ {Chosen(s)}) \in Nat
        BY <1>2
      <4> QED
        BY <2>1, <4>1
    <3> QED
      BY <3>1
  <2>2. Solves(g, 0)
    BY <2>1
  <2> QED
    BY <2>2
<1>4. ASSUME NEW k \in Nat, k \in S PROVE k + 1 \in S
  <2>1. PICK g : Solves(g, k)
    BY <1>4
  <2> DEFINE h == [s \in SUBSET U |-> Step(g, s)]
  <2>2. ASSUME NEW s \in SUBSET U, Cardinality(s) <= k + 1 PROVE h[s] = Step(h, s)
    <3>1. CASE s = {}
      BY <3>1
    <3>2. CASE s # {}
      <4> DEFINE r == s \ {Chosen(s)}
      <4>1. r \in SUBSET U /\ Cardinality(r) <= k
        BY <1>1, <1>2, <2>2, <3>2
      <4> HIDE DEF r
      <4>2. h[r] = Step(g, r) /\ g[r] = Step(g, r)
        BY <2>1, <4>1
      <4>3. h[r] = g[r]
        BY <4>2
      <4> QED
        BY <3>2, <4>3 DEF r
    <3> QED
      BY <3>1, <3>2
  <2> HIDE DEF h
  <2>3. Solves(h, k + 1)
    BY <2>2
  <2> HIDE DEF Solves
  <2>4. \E f : Solves(f, k + 1)
    BY <2>3
  <2> QED
    BY <2>4
<1> HIDE DEF S
<1>5. \A k \in Nat : k \in S
    BY <1>3, <1>4, SetInduction
<1>6. Cardinality(U) \in Nat
    BY FS_CardinalityType
<1>7. PICK g : Solves(g, Cardinality(U))
    BY <1>5, <1>6 DEF S
<1> DEFINE h == [s \in SUBSET U |-> g[s]]
<1>8. h = [s \in SUBSET U |-> Step(h, s)]
    BY <1>1, <1>2, <1>7
<1>9. Adds(h, U)
    BY <1>8 DEF Adds
<1> QED
    BY <1>9

\* Two ways to define it agree.
LEMMA AddsUnique ==
    ASSUME NEW U, IsFiniteSet(U), NEW V \in SUBSET U,
           NEW g, Adds(g, U), NEW h, Adds(h, V)
    PROVE  h[V] = g[V]
<1> DEFINE S == {k \in Nat : \A s \in SUBSET V : Cardinality(s) <= k => h[s] = g[s]}
<1>1. \A s \in SUBSET V : s \in SUBSET U /\ IsFiniteSet(s) /\ Cardinality(s) \in Nat
    BY FS_Subset, FS_CardinalityType
<1>2. \A s \in SUBSET V : s # {} => /\ s \ {Chosen(s)} \in SUBSET V
                                   /\ Cardinality(s \ {Chosen(s)}) + 1 = Cardinality(s)
                                   /\ Cardinality(s \ {Chosen(s)}) \in Nat
    BY <1>1, OneLess
<1>3. \A s \in SUBSET V :
         /\ g[s] = IF s = {} THEN Zero ELSE Plus(Chosen(s).usage, g[s \ {Chosen(s)}])
         /\ h[s] = IF s = {} THEN Zero ELSE Plus(Chosen(s).usage, h[s \ {Chosen(s)}])
    BY <1>1 DEF Adds
<1>4. 0 \in S
  <2>1. ASSUME NEW s \in SUBSET V, Cardinality(s) <= 0, s # {} PROVE FALSE
    <3>1. Cardinality(s \ {Chosen(s)}) + 1 = Cardinality(s) /\ Cardinality(s \ {Chosen(s)}) \in Nat
      BY <1>2, <2>1
    <3> QED
      BY <2>1, <3>1
  <2> QED
    BY <1>3, <2>1
<1>5. ASSUME NEW k \in Nat, k \in S PROVE k + 1 \in S
  <2>1. ASSUME NEW s \in SUBSET V, Cardinality(s) <= k + 1 PROVE h[s] = g[s]
    <3>1. CASE s = {}
      BY <1>3, <3>1
    <3>2. CASE s # {}
      <4> DEFINE r == s \ {Chosen(s)}
      <4>1. r \in SUBSET V /\ Cardinality(r) <= k
        BY <1>1, <1>2, <2>1, <3>2
      <4>2. h[r] = g[r]
        BY <1>5, <4>1
      <4> QED
        BY <1>3, <3>2, <4>2
    <3> QED
      BY <3>1, <3>2
  <2> QED
    BY <2>1
<1> HIDE DEF S
<1>6. \A k \in Nat : k \in S
    BY <1>4, <1>5, SetInduction
<1>7. V \in SUBSET V /\ Cardinality(V) \in Nat
    BY <1>1
<1>8. Cardinality(V) \in S
    BY <1>6, <1>7
<1> QED
    BY <1>7, <1>8 DEF S

\* A fact adds its usage to the sum of the others, in whatever order they are
\* taken.
LEMMA SumAdds ==
    ASSUME NEW S, IsFiniteSet(S), NEW x, x \notin S,
           \A fact \in S \cup {x} : fact.usage \in Counter
    PROVE  Sum(S) \in Counter /\ Sum(S \cup {x}) = Plus(Sum(S), x.usage)
<1> DEFINE U == S \cup {x}
<1>1. IsFiniteSet(U)
    BY FS_AddElement
<1>2. \A V \in SUBSET U : IsFiniteSet(V) /\ Cardinality(V) \in Nat
    BY <1>1, FS_Subset, FS_CardinalityType
<1>3. PICK g : Adds(g, U)
    BY <1>1, AddsExists
<1>4. ASSUME NEW V \in SUBSET U PROVE Sum(V) = g[V]
  <2>1. Adds(CHOOSE h : Adds(h, V), V)
    BY <1>2, AddsExists
  <2> QED
    BY <1>1, <1>3, <2>1, AddsUnique, SumIsFold
<1>5. \A V \in SUBSET U :
        Sum(V) = IF V = {} THEN Zero ELSE Plus(Chosen(V).usage, Sum(V \ {Chosen(V)}))
  <2>1. \A V \in SUBSET U :
          g[V] = IF V = {} THEN Zero ELSE Plus(Chosen(V).usage, g[V \ {Chosen(V)}])
    BY <1>3 DEF Adds
  <2>2. \A V \in SUBSET U : V \ {Chosen(V)} \in SUBSET U
    OBVIOUS
  <2> QED
    BY <1>4, <2>1, <2>2
<1> DEFINE Fine(V) == /\ Sum(V) \in Counter
                      /\ \A y \in U \ V : Sum(V \cup {y}) = Plus(y.usage, Sum(V))
           T == {k \in Nat : \A V \in SUBSET U : Cardinality(V) <= k => Fine(V)}
<1>6. \A y \in U : y.usage \in Counter
    OBVIOUS
<1> HIDE DEF U
<1>7. \A V \in SUBSET U : V # {} => /\ V \ {Chosen(V)} \in SUBSET U /\ Chosen(V) \in V
                                   /\ Cardinality(V \ {Chosen(V)}) + 1 = Cardinality(V)
                                   /\ Cardinality(V \ {Chosen(V)}) \in Nat
    BY <1>2, OneLess
<1>8. Fine({})
  <2>1. Sum({}) = Zero
    BY <1>5
  <2>2. ASSUME NEW y \in U PROVE Sum({y}) = Plus(y.usage, Zero)
    <3>1. {y} \in SUBSET U /\ Chosen({y}) = y /\ {y} \ {y} = {}
      BY DEF Chosen
    <3> QED
      BY <1>5, <2>1, <3>1
  <2> QED
    BY <2>1, <2>2, PlusLaws
<1>9. 0 \in T
  <2>1. ASSUME NEW V \in SUBSET U, Cardinality(V) <= 0, V # {} PROVE FALSE
    <3>1. Cardinality(V \ {Chosen(V)}) + 1 = Cardinality(V) /\ Cardinality(V \ {Chosen(V)}) \in Nat
      BY <1>7, <2>1
    <3> QED
      BY <2>1, <3>1
  <2> QED
    BY <1>8, <2>1
<1>10. ASSUME NEW k \in Nat, k \in T PROVE k + 1 \in T
  <2>1. ASSUME NEW V \in SUBSET U, Cardinality(V) <= k + 1 PROVE Fine(V)
    <3>1. CASE V = {}
      BY <1>8, <3>1
    <3>2. CASE V # {}
      <4> DEFINE z == Chosen(V)
                 W == V \ {z}
      <4>1. z \in V /\ z \in U \ W /\ W \in SUBSET U /\ Cardinality(W) <= k /\ V = W \cup {z}
        BY <1>2, <1>7, <2>1, <3>2
      <4>2. Fine(W)
        BY <1>10, <4>1
      <4>3. Sum(V) = Plus(z.usage, Sum(W)) /\ Sum(V) \in Counter
        <5> HIDE DEF z, W
        <5>1. Sum(W \cup {z}) = Plus(z.usage, Sum(W)) /\ Sum(W) \in Counter /\ z.usage \in Counter
          BY <1>6, <4>1, <4>2
        <5> QED
          BY <4>1, <5>1, PlusLaws
      <4>4. ASSUME NEW y \in U \ V PROVE Sum(V \cup {y}) = Plus(y.usage, Sum(V))
        <5> DEFINE Y == V \cup {y}
                   c == Chosen(Y)
                   R == V \ {c}
        <5>1. /\ Y \in SUBSET U /\ Y # {} /\ c \in Y
              /\ Sum(Y) = Plus(c.usage, Sum(Y \ {c}))
          BY <1>5, <1>7
        <5>2. CASE c = y
          BY <5>1, <5>2, <4>4
        <5>3. CASE c # y
          <6>1. /\ c \in V /\ c \in U /\ R \in SUBSET U /\ Y \ {c} = R \cup {y}
                /\ V = R \cup {c} /\ y \in U \ R /\ c \in U \ R
            BY <5>1, <5>3, <4>4
          <6>2. Cardinality(R) <= k
            <7> HIDE DEF c
            <7>1. Cardinality(R) = Cardinality(V) - 1
              BY <1>2, <6>1, FS_RemoveElement
            <7> QED
              BY <1>2, <2>1, <7>1
          <6>3. Fine(R)
            BY <1>10, <6>1, <6>2
          <6> HIDE DEF c, R, Y
          <6>4. Sum(R \cup {y}) = Plus(y.usage, Sum(R)) /\ Sum(V) = Plus(c.usage, Sum(R))
                /\ Sum(R) \in Counter
            BY <6>1, <6>3
          <6>5. Plus(c.usage, Plus(y.usage, Sum(R))) = Plus(y.usage, Plus(c.usage, Sum(R)))
            BY <1>6, <4>4, <6>1, <6>4, PlusLaws
          <6> QED
            BY <5>1, <6>1, <6>4, <6>5 DEF Y
        <5> QED
          BY <5>2, <5>3
      <4> QED
        BY <4>3, <4>4
    <3> QED
      BY <3>1, <3>2
  <2> QED
    BY <2>1
<1> HIDE DEF T, Fine
<1>11. \A k \in Nat : k \in T
    BY <1>9, <1>10, SetInduction
<1>12. S \in SUBSET U /\ x \in U \ S /\ U = S \cup {x}
    BY DEF U
<1>13. Cardinality(S) \in T
    BY <1>2, <1>11, <1>12
<1>14. Fine(S)
    BY <1>2, <1>12, <1>13 DEF T
<1> QED
    BY <1>6, <1>12, <1>14, PlusLaws DEF Fine

-----------------------------------------------------------------------------
(* The stream read as a whole, when a record is added to it.               *)

\* The least of a set of numbers is the member that is below all.
LEMMA MinIs ==
    ASSUME NEW T \in SUBSET Nat, NEW m \in T, \A k \in T : m <= k
    PROVE  Min(T) = m
<1> DEFINE x == CHOOSE y \in T : \A z \in T : y <= z
<1>1. x \in T /\ \A z \in T : x <= z
    OBVIOUS
<1>2. Min(T) = x
    BY DEF Min
<1> HIDE DEF x
<1>3. x <= m /\ m <= x /\ x \in Nat /\ m \in Nat
    BY <1>1
<1> QED
    BY <1>2, <1>3

\* The greatest of a set of numbers is the member that is above all.
LEMMA MaxIs ==
    ASSUME NEW T \in SUBSET Nat, NEW m \in T, \A k \in T : k <= m
    PROVE  Max(T) = m
<1> DEFINE x == CHOOSE y \in T : \A z \in T : y >= z
<1>1. x \in T /\ \A z \in T : x >= z
  <2>1. \A z \in T : m >= z
    OBVIOUS
  <2> QED
    BY <2>1
<1>2. Max(T) = x
    BY DEF Max
<1> HIDE DEF x
<1>3. x >= m /\ m >= x /\ x \in Nat /\ m \in Nat
    BY <1>1
<1> QED
    BY <1>2, <1>3

\* The least and the greatest place of a set of places.
LEMMA Ends ==
    ASSUME NEW T \in SUBSET Nat, T # {}, NEW bound \in Nat, \A k \in T : k <= bound
    PROVE  /\ Min(T) \in T /\ \A k \in T : Min(T) <= k
           /\ Max(T) \in T /\ \A k \in T : k <= Max(T)
<1>1. PICK m \in T : \A k \in T : m <= k
    BY LeastElement
<1>2. PICK n \in T : \A k \in T : n >= k
    BY GreatestElement
<1>3. n \in Nat /\ \A k \in T : k \in Nat /\ k <= n
    BY <1>2
<1>4. Min(T) = m
    BY <1>1, MinIs
<1>5. Max(T) = n
    BY <1>3, MaxIs
<1> QED
    BY <1>1, <1>3, <1>4, <1>5

Openings == {i \in DOMAIN stream : IsOpening(i)}

\* The places of the stream and of its parts.
LEMMA Places ==
    ASSUME TypeOK
    PROVE  /\ Len(stream) \in Nat /\ DOMAIN stream = 1 .. Len(stream)
           /\ \A i \in 1 .. Len(stream) : stream[i] \in Records /\ stream[i] \in Record
           /\ Openings \subseteq 1 .. Len(stream) /\ Opening \in 0 .. Len(stream)
           /\ Opening = 0 <=> Openings = {}
           /\ Counts \subseteq 1 .. Len(stream)
           /\ Opening = 0 => Counts = {}
           /\ \A i \in Counts : stream[i].at \in Nat /\ stream[i].total \in Usage
                                /\ stream[i].last \in Usage \cup {None}
<1>1. /\ Len(stream) \in Nat /\ DOMAIN stream = 1 .. Len(stream)
      /\ \A i \in 1 .. Len(stream) : stream[i] \in Records
    BY LenProperties DEF TypeOK
<1>2. \A i \in 1 .. Len(stream) : stream[i] \in Record
    BY <1>1, StreamAssumption
<1>3. Openings \subseteq 1 .. Len(stream)
    BY <1>1 DEF Openings
<1>4. Opening = IF Openings = {} THEN 0 ELSE Min(Openings)
    BY DEF Opening, Openings
<1>5. Openings # {} => Min(Openings) \in Openings
  <2>1. Openings \in SUBSET Nat /\ \A k \in Openings : k <= Len(stream)
    BY <1>1, <1>3
  <2> QED
    BY <1>1, <2>1, Ends
<1>6. Opening \in 0 .. Len(stream) /\ (Opening = 0 <=> Openings = {})
    BY <1>1, <1>3, <1>4, <1>5
<1>7. Counts \subseteq 1 .. Len(stream) /\ (Opening = 0 => Counts = {})
    BY <1>1, <1>6 DEF Counts
<1>9. \A i \in Counts : stream[i].at \in Nat /\ stream[i].total \in Usage
                        /\ stream[i].last \in Usage \cup {None}
  <2> SUFFICES ASSUME NEW i \in Counts
               PROVE  stream[i].at \in Nat /\ stream[i].total \in Usage
                      /\ stream[i].last \in Usage \cup {None}
    OBVIOUS
  <2>1. stream[i] \in Record /\ stream[i].kind = "token" /\ stream[i].total # None
    BY <1>2, <1>7 DEF Counts
  <2> QED
    BY <2>1 DEF Record, Oversized
<1> QED
    BY <1>1, <1>2, <1>3, <1>6, <1>7, <1>9

\* The record r is added at place i, and what was said of the others stays true.
LEMMA Growth ==
    ASSUME TypeOK, NEW r \in Records, Take(r), NEW i, i = Len(stream) + 1
    PROVE  /\ \A j \in 1 .. Len(stream) : stream'[j] = stream[j]
           /\ stream'[i] = r
           /\ Opening # 0 => Opening' = Opening
           /\ Opening = 0 => Opening' = IF r.kind = "meta" /\ r.thread = thread THEN i ELSE 0
           /\ Counts' = IF Opening # 0 /\ r.kind = "token" /\ r.total # None
                        THEN Counts \cup {i} ELSE Counts
<1> DEFINE n == Len(stream)
<1>1. /\ n \in Nat /\ DOMAIN stream = 1 .. n /\ stream \in Seq(Records)
      /\ Openings \subseteq 1 .. n /\ Opening \in 0 .. n /\ (Opening = 0 <=> Openings = {})
      /\ Counts \subseteq 1 .. n /\ (Opening = 0 => Counts = {})
    BY Places DEF TypeOK
<1>2. stream' = Append(stream, r) /\ thread' = thread
    BY DEF Take
<1>3. /\ DOMAIN stream' = 1 .. i
      /\ \A j \in 1 .. n : stream'[j] = stream[j]
      /\ stream'[i] = r
  <2>1. /\ Len(stream') = i /\ stream' \in Seq(Records)
        /\ \A j \in 1 .. n : stream'[j] = stream[j]
        /\ stream'[i] = r
    BY <1>1, <1>2, AppendProperties
  <2> QED
    BY <2>1, LenProperties
<1> HIDE DEF n
<1>4. i \in Nat /\ i \notin 1 .. n /\ 1 .. i = (1 .. n) \cup {i} /\ i = n + 1 /\ i # 0
    BY <1>1 DEF n
<1>5. /\ \A j \in 1 .. n : IsOpening(j)' = IsOpening(j)
      /\ IsOpening(i)' = (r.kind = "meta" /\ r.thread = thread)
    BY <1>2, <1>3 DEF IsOpening
<1>6. Openings' = Openings \cup {j \in {i} : r.kind = "meta" /\ r.thread = thread}
    BY <1>1, <1>3, <1>4, <1>5 DEF Openings
<1>7. /\ Opening' = IF Openings' = {} THEN 0 ELSE Min(Openings')
      /\ Opening = IF Openings = {} THEN 0 ELSE Min(Openings)
    BY DEF Opening, Openings
<1>8. ASSUME Opening # 0 PROVE Opening' = Opening
  <2>1. Openings # {} /\ Openings \in SUBSET Nat /\ n \in Nat /\ \A k \in Openings : k <= n
    BY <1>1, <1>8
  <2>2. Opening \in Openings /\ \A k \in Openings : Opening <= k
    <3> DEFINE T == Openings
    <3>1. Opening = Min(T)
      BY <1>7, <2>1
    <3>2. T \in SUBSET Nat /\ T # {} /\ \A k \in T : k <= n
      BY <2>1
    <3> HIDE DEF T
    <3>3. Min(T) \in T /\ \A k \in T : Min(T) <= k
      BY <2>1, <3>2, Ends
    <3> QED
      BY <3>1, <3>3 DEF T
  <2>3. /\ Openings' \in SUBSET Nat /\ Opening \in Openings' /\ Openings' # {}
        /\ \A k \in Openings' : Opening <= k
    <3>1. Opening <= i /\ Opening \in 1 .. n
      BY <1>1, <1>4, <2>2
    <3> QED
      BY <1>1, <1>4, <1>6, <2>1, <2>2, <3>1
  <2> DEFINE T == Openings'
  <2>4. T \in SUBSET Nat /\ Opening \in T /\ T # {} /\ (\A k \in T : Opening <= k) /\ Opening' = Min(T)
    BY <1>7, <2>3
  <2> HIDE DEF T
  <2> QED
    BY <2>4, MinIs
<1>9. ASSUME Opening = 0
      PROVE  Opening' = IF r.kind = "meta" /\ r.thread = thread THEN i ELSE 0
  <2>1. CASE r.kind = "meta" /\ r.thread = thread
    <3>1. Openings' = {i}
      BY <1>1, <1>6, <1>9, <2>1
    <3>2. Min({i}) = i
      BY <1>4, MinIs
    <3>3. Opening' = Min({i})
      BY <1>7, <3>1
    <3> QED
      BY <2>1, <3>2, <3>3
  <2>2. CASE ~(r.kind = "meta" /\ r.thread = thread)
    <3>1. Openings' = {}
      BY <1>1, <1>6, <1>9, <2>2
    <3> QED
      BY <1>7, <2>2, <3>1
  <2> QED
    BY <2>1, <2>2
<1>10. Counts' = {j \in 1 .. i : /\ Opening' \in 1 .. j
                                 /\ stream'[j].kind = "token" /\ stream'[j].total # None}
       /\ Counts = {j \in 1 .. n : /\ Opening \in 1 .. j
                                   /\ stream[j].kind = "token" /\ stream[j].total # None}
    BY <1>1, <1>3 DEF Counts
<1>11. Counts' = IF Opening # 0 /\ r.kind = "token" /\ r.total # None
                 THEN Counts \cup {i} ELSE Counts
  <2>1. CASE Opening # 0
    <3>1. Opening' = Opening /\ Opening \in 1 .. i
      BY <1>1, <1>4, <1>8, <2>1
    <3>2. \A j \in 1 .. n : j \in Counts' <=> j \in Counts
      BY <1>3, <1>4, <1>10, <3>1
    <3>3. i \in Counts' <=> r.kind = "token" /\ r.total # None
      BY <1>3, <1>4, <1>10, <3>1
    <3>4. Counts' \subseteq (1 .. n) \cup {i} /\ Counts \subseteq 1 .. n
      BY <1>4, <1>10
    <3> DEFINE C == Counts
               D == Counts'
    <3> HIDE DEF C, D
    <3>5. /\ \A j \in 1 .. n : j \in D <=> j \in C
          /\ i \in D <=> r.kind = "token" /\ r.total # None
          /\ D \subseteq (1 .. n) \cup {i} /\ C \subseteq 1 .. n
      BY <3>2, <3>3, <3>4 DEF C, D
    <3>6. r.kind = "token" /\ r.total # None => D = C \cup {i}
      BY <3>5
    <3>7. ~(r.kind = "token" /\ r.total # None) => D = C
      BY <3>5
    <3> QED
      BY <2>1, <3>6, <3>7 DEF C, D
  <2>2. CASE Opening = 0
    <3>1. Counts = {}
      BY <1>1, <2>2
    <3>2. \A j \in 1 .. i : ~(Opening' \in 1 .. j /\ stream'[j].kind = "token")
      <4> SUFFICES ASSUME NEW j \in 1 .. i, Opening' \in 1 .. j, stream'[j].kind = "token"
                   PROVE  FALSE
        OBVIOUS
      <4>1. Opening' = i /\ r.kind = "meta"
        BY <1>9, <2>2
      <4>2. j = i
        BY <1>4, <4>1
      <4> QED
        BY <1>3, <4>1, <4>2
    <3> QED
      BY <1>10, <2>2, <3>1, <3>2
  <2> QED
    BY <2>1, <2>2
<1> QED
    BY <1>3, <1>8, <1>9, <1>11 DEF n

\* What a count is does not depend on the records behind it.
LEMMA Unmoved ==
    ASSUME TypeOK, NEW r \in Records, Take(r)
    PROVE  \A j \in Counts : /\ j \in Counts' /\ Earlier(j)' = Earlier(j)
                             /\ Dense(j)' <=> Dense(j)
                             /\ Restarts(j)' <=> Restarts(j)
                             /\ j \in Prefix' <=> j \in Prefix
                             /\ j \in Live' <=> j \in Live
<1> DEFINE n == Len(stream)
           i == n + 1
<1>1. /\ n \in Nat /\ Opening \in 0 .. n
      /\ Counts \subseteq 1 .. n /\ (Opening = 0 => Counts = {})
    BY Places
<1>2. /\ \A j \in 1 .. n : stream'[j] = stream[j]
      /\ Opening # 0 => Opening' = Opening
      /\ Counts' = Counts \cup {i} \/ Counts' = Counts
      /\ thread' = thread
    BY Growth DEF Take
<1> HIDE DEF n
<1>3. \A j \in Counts : j \in Counts' /\ j < i
    BY <1>1, <1>2
<1>4. \A j \in Counts : Earlier(j)' = Earlier(j)
  <2>1. \A j \in Counts : Earlier(j)' = {k \in Counts' : k < j} /\ Earlier(j) = {k \in Counts : k < j}
    BY DEF Earlier
  <2>2. \A j \in Counts : ~(i < j)
    BY <1>1
  <2> QED
    BY <1>2, <2>1, <2>2
<1>5. \A j \in Counts : Earlier(j) # {} => Max(Earlier(j)) \in Counts
  <2> SUFFICES ASSUME NEW j \in Counts, Earlier(j) # {} PROVE Max(Earlier(j)) \in Earlier(j)
    BY DEF Earlier
  <2> DEFINE T == Earlier(j)
  <2>0. T \subseteq Counts
    BY DEF Earlier
  <2>1. T \in SUBSET Nat /\ T # {} /\ n \in Nat /\ \A k \in T : k <= n
    <3> HIDE DEF T
    <3>1. T # {}
      BY DEF T
    <3> QED
      BY <1>1, <2>0, <3>1
  <2> HIDE DEF T
  <2>2. Max(T) \in T
    BY <2>1, Ends
  <2> QED
    BY <2>2 DEF T
<1>6. \A j \in Counts : TimeBefore(j)' = TimeBefore(j)
  <2> SUFFICES ASSUME NEW j \in Counts PROVE TimeBefore(j)' = TimeBefore(j)
    OBVIOUS
  <2>1. Opening \in 1 .. n /\ Opening' = Opening
    BY <1>1, <1>2
  <2>2. stream'[Opening] = stream[Opening]
    BY <1>2, <2>1
  <2>3. Earlier(j) # {} => stream'[Max(Earlier(j))] = stream[Max(Earlier(j))]
    BY <1>1, <1>2, <1>5
  <2> QED
    BY <1>4, <2>1, <2>2, <2>3 DEF TimeBefore
<1>7. \A j \in Counts : stream'[j] = stream[j]
    BY <1>1, <1>2
<1>8. \A j \in Counts : Dense(j)' <=> Dense(j)
    BY <1>6, <1>7 DEF Dense
<1>9. \A j \in Counts : Restarts(j)' <=> Restarts(j)
  <2> SUFFICES ASSUME NEW j \in Counts PROVE Restarts(j)' <=> Restarts(j)
    OBVIOUS
  <2>1. Earlier(j) # {} => stream'[Max(Earlier(j))] = stream[Max(Earlier(j))]
    BY <1>1, <1>2, <1>5
  <2> QED
    BY <1>4, <1>7, <2>1 DEF Restarts, Shrinks
<1>10. \A j \in Counts : j \in Prefix' <=> j \in Prefix
  <2> SUFFICES ASSUME NEW j \in Counts PROVE j \in Prefix' <=> j \in Prefix
    OBVIOUS
  <2>1. \A k \in Earlier(j) \cup {j} : k \in Counts
    BY DEF Earlier
  <2>2. \A k \in Earlier(j) \cup {j} : Dense(k)' <=> Dense(k)
    BY <1>8, <2>1
  <2>3. j \in Prefix <=> (thread \in Children /\ \A k \in Earlier(j) \cup {j} : Dense(k))
    BY DEF Prefix
  <2>4. j \in Prefix' <=> (thread \in Children /\ \A k \in Earlier(j) \cup {j} : Dense(k)')
    BY <1>2, <1>3, <1>4 DEF Prefix
  <2> QED
    BY <2>2, <2>3, <2>4
<1>11. \A j \in Counts : j \in Live' <=> j \in Live
    BY <1>3, <1>10 DEF Live
<1> QED
    BY <1>3, <1>4, <1>8, <1>9, <1>10, <1>11

Restarting == {j \in Live : Restarts(j)}

\* A new count comes after all the others.
LEMMA NewCount ==
    ASSUME TypeOK, NEW r \in Records, Take(r), NEW i, i = Len(stream) + 1,
           Counts' = Counts \cup {i}, Opening # 0
    PROVE  /\ Earlier(i)' = Counts
           /\ Dense(i)' <=> LET before == IF Counts = {} THEN stream[Opening].at
                                          ELSE stream[Max(Counts)].at
                            IN  before # None /\ r.at - before <= PrefixGap
           /\ Restarts(i)' <=> Counts # {} /\ Shrinks(stream[Max(Counts)].total, r.total)
           /\ i \in Prefix' <=> Live = {} /\ thread \in Children /\ Dense(i)'
           /\ i \in Live' <=> i \notin Prefix'
<1> DEFINE n == Len(stream)
<1>1. n \in Nat /\ Opening \in 0 .. n /\ Counts \subseteq 1 .. n
    BY Places
<1>2. /\ \A j \in 1 .. n : stream'[j] = stream[j]
      /\ stream'[i] = r
      /\ Opening' = Opening
      /\ thread' = thread
    BY Growth DEF Take
<1> HIDE DEF n
<1>3. i = n + 1
    BY DEF n
<1>4. Earlier(i)' = Counts
  <2>1. Earlier(i)' = {k \in Counts \cup {i} : k < i}
    BY DEF Earlier
  <2>2. ~(i < i) /\ \A k \in Counts : k < i
    BY <1>1, <1>3
  <2> QED
    BY <2>1, <2>2
<1>5. Counts # {} => Max(Counts) \in Counts
  <2> DEFINE T == Counts
  <2>1. T \in SUBSET Nat /\ n \in Nat /\ \A k \in T : k <= n
    BY <1>1
  <2> HIDE DEF T
  <2>2. T # {} => Max(T) \in T
    BY <2>1, Ends
  <2> QED
    BY <2>2 DEF T
<1>6. /\ Counts # {} => stream'[Max(Counts)] = stream[Max(Counts)]
      /\ stream'[Opening] = stream[Opening]
  <2> DEFINE m == Max(Counts)
  <2>1. Counts # {} => m \in 1 .. n
    BY <1>1, <1>5
  <2> HIDE DEF m
  <2>2. Counts # {} => stream'[m] = stream[m]
    BY <1>2, <2>1
  <2>3. stream'[Opening] = stream[Opening]
    <3>1. Opening \in 1 .. n
      BY <1>1
    <3> QED
      BY <1>2, <3>1
  <2> QED
    BY <2>2, <2>3 DEF m
<1> DEFINE before == IF Counts = {} THEN stream[Opening].at ELSE stream[Max(Counts)].at
<1>7. TimeBefore(i)' = before
    BY <1>2, <1>4, <1>6 DEF TimeBefore
<1> HIDE DEF before
<1>8. Dense(i)' <=> before # None /\ r.at - before <= PrefixGap
    BY <1>2, <1>7 DEF Dense
<1>9. Restarts(i)' <=> Counts # {} /\ Shrinks(stream[Max(Counts)].total, r.total)
    BY <1>2, <1>4, <1>6 DEF Restarts, Shrinks
<1>10. i \in Prefix' <=> Live = {} /\ thread \in Children /\ Dense(i)'
  <2>1. i \in Prefix' <=> thread \in Children /\ Dense(i)' /\ \A j \in Counts : Dense(j)'
    BY <1>2, <1>4 DEF Prefix
  <2>2. \A j \in Counts : Dense(j)' <=> Dense(j)
    BY Unmoved
  <2>3. thread \in Children => (Live = {} <=> \A j \in Counts : Dense(j))
    <3>1. \A j \in Counts : j \in Prefix <=> (thread \in Children /\ \A k \in Earlier(j) \cup {j} : Dense(k))
      BY DEF Prefix
    <3>2. \A j \in Counts : Earlier(j) \subseteq Counts
      BY DEF Earlier
    <3>3. Live = {} <=> \A j \in Counts : j \in Prefix
      BY DEF Live
    <3> QED
      BY <3>1, <3>2, <3>3
  <2> QED
    BY <2>1, <2>2, <2>3
<1>11. i \in Live' <=> i \notin Prefix'
    BY DEF Live
<1> QED
    BY <1>4, <1>8, <1>9, <1>10, <1>11 DEF before

-----------------------------------------------------------------------------
(* What the parser knows of the stream, and what the facts add up to.      *)

FactsOf(e) == {fact \in facts : fact.epoch = e}

\* The facts of epoch e add up to how far the counter went in it.
Telescopes(e) ==
    IF PlacesIn(e) = {}
    THEN FactsOf(e) = {}
    ELSE LET first   == Min(PlacesIn(e))
             reached == stream[Max(PlacesIn(e))].total
             counted == Sum(FactsOf(e))
         IN  IF e = 0
             THEN Plus(counted, Inheritance) = reached
             ELSE Plus(counted, stream[first].total) = Plus(reached, OwnUsage(first))

\* The parser is behind the opening record and the last count, its phase says
\* whether the counts were all inherited and its epoch how often they went back.
ParserTracks ==
    /\ parser.phase = "awaiting" <=> Opening = 0
    /\ Opening # 0 => /\ parser.canonicalAt = stream[Opening].at
                      /\ parser.phase = "prefix" <=> thread \in Children /\ Live = {}
    /\ Counts = {} => parser.previous = None
    /\ Counts # {} => /\ parser.previous = stream[Max(Counts)].total
                      /\ parser.lastAt = stream[Max(Counts)].at
    /\ parser.epoch = Cardinality(Restarting)

FactsBehind ==
    /\ IsFiniteSet(facts)
    /\ \A fact \in facts : fact.place <= Len(stream) /\ fact.epoch <= parser.epoch

Tracking ==
    /\ Inv
    /\ ParserTracks
    /\ FactsBehind
    /\ \A e \in Nat : Telescopes(e)

\* The epochs of the live counts run up to the parser's.
LEMMA Epochs ==
    ASSUME TypeOK
    PROVE  /\ IsFiniteSet(Restarting) /\ Cardinality(Restarting) \in Nat
           /\ \A j \in Live : EpochOf(j) \in 0 .. Cardinality(Restarting)
           /\ Live # {} => /\ Max(Counts) \in Live
                           /\ EpochOf(Max(Counts)) = Cardinality(Restarting)
           /\ Live \subseteq Counts /\ Counts \in SUBSET Nat
           /\ \A j \in Counts : j <= Len(stream) /\ j <= Max(Counts) /\ Max(Counts) \in Counts
<1> DEFINE n == Len(stream)
<1>1. n \in Nat /\ Counts \subseteq 1 .. n /\ Live \subseteq Counts
    BY Places DEF Live
<1> HIDE DEF n
<1>2. IsFiniteSet(1 .. n)
    BY <1>1, FS_Interval
<1>3. Restarting \subseteq 1 .. n
    BY <1>1 DEF Restarting
<1>4. IsFiniteSet(Restarting) /\ Cardinality(Restarting) \in Nat
    BY <1>2, <1>3, FS_Subset, FS_CardinalityType
<1> DEFINE To(j) == {k \in Live : k <= j /\ Restarts(k)}
<1>5. ASSUME NEW j \in Live PROVE EpochOf(j) \in 0 .. Cardinality(Restarting)
  <2> DEFINE T == To(j)
  <2>1. T \subseteq Restarting /\ EpochOf(j) = Cardinality(T)
    BY DEF Restarting, EpochOf
  <2> HIDE DEF T
  <2>2. Cardinality(T) \in Nat /\ Cardinality(T) <= Cardinality(Restarting)
    BY <1>4, <2>1, FS_Subset, FS_CardinalityType
  <2> QED
    BY <1>4, <2>1, <2>2
<1> DEFINE C == Counts
           m == Max(C)
<1>6. /\ C \in SUBSET Nat /\ \A k \in C : k <= n
      /\ C # {} => m \in C /\ \A k \in C : k <= m
  <2>1. C \in SUBSET Nat /\ \A k \in C : k <= n
    BY <1>1
  <2> HIDE DEF C
  <2> QED
    BY <1>1, <2>1, Ends
<1> HIDE DEF m
<1>7. ASSUME Live # {} PROVE m \in Live
  <2>1. PICK j \in Live : TRUE
    BY <1>7
  <2>2. j \in C /\ j \notin Prefix /\ m \in C /\ j <= m
    BY <1>1, <1>6, <2>1 DEF Live
  <2>3. ASSUME m \in Prefix PROVE FALSE
    <3>1. thread \in Children /\ \A k \in Earlier(m) \cup {m} : Dense(k)
      BY <2>3 DEF Prefix
    <3>2. Earlier(j) \cup {j} \subseteq Earlier(m) \cup {m}
      <4>1. j \in Nat /\ m \in Nat /\ (j = m \/ j < m) /\ \A k \in C : k \in Nat
        BY <1>6, <2>2
      <4>2. \A k \in C : k < j => k < m
        BY <4>1
      <4> QED
        BY <2>2, <4>1, <4>2 DEF Earlier
    <3> QED
      BY <2>2, <3>1, <3>2 DEF Prefix
  <2> QED
    BY <2>2, <2>3 DEF Live
<1>8. ASSUME Live # {} PROVE EpochOf(m) = Cardinality(Restarting)
  <2>1. To(m) = Restarting
    BY <1>1, <1>6 DEF Restarting
  <2> QED
    BY <2>1 DEF EpochOf
<1> QED
    BY <1>1, <1>4, <1>5, <1>6, <1>7, <1>8 DEF m, n

\* A count keeps its epoch.
LEMMA EpochsKept ==
    ASSUME TypeOK, NEW r \in Records, Take(r)
    PROVE  \A j \in Live : j \in Live' /\ EpochOf(j)' = EpochOf(j)
<1> DEFINE n == Len(stream)
           i == n + 1
<1>1. n \in Nat /\ Counts \subseteq 1 .. n /\ Live \subseteq Counts
    BY Places DEF Live
<1>2. Counts' = Counts \cup {i} \/ Counts' = Counts
    BY Growth
<1> HIDE DEF n
<1>3. Live' \subseteq Counts \cup {i}
    BY <1>2 DEF Live
<1> SUFFICES ASSUME NEW j \in Live PROVE j \in Live' /\ EpochOf(j)' = EpochOf(j)
    OBVIOUS
<1>4. {k \in Live : k <= j /\ Restarts(k)} = {k \in Live' : k <= j /\ Restarts(k)'}
  <2>1. ~(i <= j)
    BY <1>1
  <2>2. \A k \in Counts : (k \in Live' <=> k \in Live) /\ (Restarts(k)' <=> Restarts(k))
    BY Unmoved
  <2> QED
    BY <1>1, <1>3, <2>1, <2>2
<1>5. j \in Live'
    BY <1>1, Unmoved
<1> QED
    BY <1>4, <1>5 DEF EpochOf

\* The sum of an epoch stays where it is if nothing is counted in it.
LEMMA TelescopesKept ==
    ASSUME TypeOK, NEW r \in Records, Take(r), NEW e \in Nat, Telescopes(e),
           PlacesIn(e)' = PlacesIn(e), FactsOf(e)' = FactsOf(e),
           PlacesIn(e) # {} => Prefix' = Prefix
    PROVE  Telescopes(e)'
<1> DEFINE n == Len(stream)
           P == PlacesIn(e)
<1>1. n \in Nat /\ Counts \subseteq 1 .. n
    BY Places
<1>2. \A j \in 1 .. n : stream'[j] = stream[j]
    BY Growth
<1>3. P \subseteq 1 .. n /\ Prefix \subseteq 1 .. n
    BY <1>1 DEF PlacesIn, Live, Prefix
<1> HIDE DEF n
<1>4. CASE P = {}
    BY <1>4 DEF Telescopes
<1>5. CASE P # {}
  <2> HIDE DEF P
  <2>1. /\ Min(P) \in 1 .. n /\ Max(P) \in 1 .. n
        /\ Prefix # {} => Max(Prefix) \in 1 .. n
    <3> DEFINE Q == Prefix
    <3>1. P \in SUBSET Nat /\ (\A k \in P : k <= n) /\ Q \in SUBSET Nat /\ \A k \in Q : k <= n
      BY <1>1, <1>3
    <3> HIDE DEF Q
    <3>2. Min(P) \in P /\ Max(P) \in P /\ (Q # {} => Max(Q) \in Q)
      BY <1>1, <1>5, <3>1, Ends
    <3> QED
      BY <1>3, <3>2 DEF Q
  <2>2. /\ stream'[Min(P)] = stream[Min(P)] /\ stream'[Max(P)] = stream[Max(P)]
        /\ Prefix # {} => stream'[Max(Prefix)] = stream[Max(Prefix)]
    BY <1>2, <2>1
  <2>3. Prefix' = Prefix /\ P = PlacesIn(e)
    BY <1>5 DEF P
  <2>4. Inheritance' = Inheritance
    BY <2>2, <2>3 DEF Inheritance
  <2>5. PlacesIn(e)' = P /\ FactsOf(e)' = FactsOf(e)
    BY <2>3
  <2>6. IF e = 0
        THEN Plus(Sum(FactsOf(e)), Inheritance) = stream[Max(P)].total
        ELSE Plus(Sum(FactsOf(e)), stream[Min(P)].total)
               = Plus(stream[Max(P)].total, OwnUsage(Min(P)))
    BY <1>5, <2>3 DEF Telescopes
  <2> QED
    BY <1>5, <2>2, <2>4, <2>5, <2>6 DEF Telescopes, OwnUsage
<1> QED
    BY <1>4, <1>5

\* A record that is not counted changes no place and no sum.
LEMMA TakeQuiet ==
    ASSUME Tracking, NEW r \in Records, Take(r), ~Counted(parser, r)
    PROVE  ParserTracks' /\ FactsBehind' /\ \A e \in Nat : Telescopes(e)'
<1> DEFINE n == Len(stream)
           i == n + 1
<1>1. /\ TypeOK /\ ParserTracks /\ FactsBehind /\ parser \in Parser
      /\ n \in Nat /\ Opening \in 0 .. n /\ (Opening = 0 => Counts = {})
      /\ Counts \subseteq 1 .. n /\ Live \subseteq Counts
    BY Places DEF Tracking, Inv, TypeOK, Live
<1>2. /\ Len(stream') = i /\ stream'[i] = r /\ \A j \in 1 .. n : stream'[j] = stream[j]
      /\ thread' = thread
    BY <1>1, Growth, AppendProperties DEF Take, TypeOK
<1>3. parser' = After(parser, r, thread)
    BY DEF Take
<1>4. facts' = facts
  <2>1. UsageAdded(parser, r) = None
    BY DEF UsageAdded
  <2>2. FactAt(parser, stream', Len(stream'), thread, thread) = {}
    BY <1>2, <2>1 DEF FactAt
  <2> QED
    BY <2>2 DEF Take
<1>5. Counts' = Counts
  <2>1. Opening # 0 => ~(r.kind = "token" /\ r.total # None)
    BY <1>1 DEF ParserTracks, Counted
  <2> QED
    BY <1>1, <2>1, Growth
<1> HIDE DEF n
<1>6. Live' = Live /\ Prefix' = Prefix
  <2>1. \A j \in Counts : (j \in Prefix' <=> j \in Prefix) /\ (j \in Live' <=> j \in Live)
    BY <1>1, Unmoved
  <2>2. Live' \subseteq Counts /\ Prefix' \subseteq Counts /\ Prefix \subseteq Counts
    BY <1>5 DEF Live, Prefix
  <2> QED
    BY <1>1, <2>1, <2>2
<1>7. Restarting' = Restarting
  <2>1. \A j \in Live : Restarts(j)' <=> Restarts(j)
    BY <1>1, Unmoved
  <2> QED
    BY <1>6, <2>1 DEF Restarting
<1>8. \A e \in Nat : PlacesIn(e)' = PlacesIn(e)
  <2>1. \A j \in Live : EpochOf(j)' = EpochOf(j)
    BY <1>1, EpochsKept
  <2> QED
    BY <1>6, <2>1 DEF PlacesIn
<1>9. \A e \in Nat : Telescopes(e)'
  <2> SUFFICES ASSUME NEW e \in Nat PROVE Telescopes(e)'
    OBVIOUS
  <2>1. FactsOf(e)' = FactsOf(e) /\ Telescopes(e)
    BY <1>4 DEF FactsOf, Tracking
  <2> QED
    BY <1>1, <1>6, <1>8, <2>1, TelescopesKept
<1>10. Counts # {} => stream'[Max(Counts)] = stream[Max(Counts)]
  <2>1. Counts # {} => Max(Counts) \in Counts
    BY <1>1, Epochs
  <2> QED
    BY <1>1, <1>2, <2>1
<1>11. CASE Opens(parser, r, thread)
  <2>1. /\ Opening = 0 /\ Counts = {} /\ Live = {}
        /\ r.kind = "meta" /\ r.thread = thread
    BY <1>1, <1>11 DEF Opens, ParserTracks
  <2>2. Opening' = i /\ i # 0
    BY <1>1, <2>1, Growth DEF n
  <2>3. /\ parser'.phase = IF thread \in Children THEN "prefix" ELSE "live"
        /\ parser'.canonicalAt = r.at /\ parser'.previous = parser.previous
        /\ parser'.epoch = parser.epoch
    BY <1>1, <1>3, <1>11 DEF After, Parser
  <2>4. stream'[Opening'].at = r.at
    BY <1>2, <2>2
  <2>5. parser'.phase # "awaiting" /\ (parser'.phase = "prefix" <=> thread \in Children)
    BY <2>3
  <2>6. ParserTracks'
    BY <1>1, <1>2, <1>5, <1>6, <1>7, <2>1, <2>2, <2>3, <2>4, <2>5 DEF ParserTracks
  <2>7. FactsBehind'
    BY <1>1, <1>2, <1>4, <2>3, Len(stream) \in Nat DEF FactsBehind, n, TypeOK, Fact
  <2> QED
    BY <1>9, <2>6, <2>7
<1>12. CASE ~Opens(parser, r, thread)
  <2>1. parser' = parser
    BY <1>3, <1>12 DEF After
  <2>2. Opening' = Opening
    BY <1>1, <1>12, Growth DEF Opens, ParserTracks
  <2>3. Opening # 0 => stream'[Opening] = stream[Opening]
    BY <1>1, <1>2
  <2>4. ParserTracks'
    BY <1>1, <1>2, <1>5, <1>6, <1>7, <1>10, <2>1, <2>2, <2>3 DEF ParserTracks
  <2>5. FactsBehind'
    BY <1>1, <1>2, <1>4, <2>1 DEF FactsBehind, n, TypeOK, Fact
  <2> QED
    BY <1>9, <2>4, <2>5
<1> QED
    BY <1>11, <1>12

\* What a counted record finds: it is inherited just if it belongs to the prefix.
LEMMA CountedRecord ==
    ASSUME Tracking, NEW r \in Records, Take(r), Counted(parser, r),
           NEW i, i = Len(stream) + 1
    PROVE  /\ Opening # 0 /\ Opening' = Opening /\ Counts' = Counts \cup {i}
           /\ i \notin Counts /\ i \in Nat \ {0} /\ Len(stream') = i /\ stream'[i] = r
           /\ \A j \in 1 .. Len(stream) : stream'[j] = stream[j]
           /\ thread' = thread
           /\ Max(Counts') = i
           /\ r.at \in Nat /\ r.total \in Usage /\ r.last \in Usage \cup {None}
           /\ Inherited(parser, r) <=> i \in Prefix'
           /\ i \in Live' <=> i \notin Prefix'
           /\ Inherited(parser, r) => Live = {} /\ thread \in Children
           /\ Restarts(i)' <=> Regresses(parser, r)
           /\ parser.previous # None <=> Counts # {}
           /\ parser.previous \in Usage \cup {None}
<1> DEFINE n == Len(stream)
<1>1. /\ TypeOK /\ ParserTracks /\ parser \in Parser /\ Consistent(parser)
      /\ n \in Nat /\ Opening \in 0 .. n
      /\ Counts \subseteq 1 .. n
    BY Places DEF Tracking, Inv, TypeOK
<1>2. /\ Len(stream') = i /\ stream'[i] = r /\ \A j \in 1 .. n : stream'[j] = stream[j]
      /\ thread' = thread
    BY <1>1, Growth, AppendProperties DEF Take, TypeOK
<1>3. r \in Record /\ r.at \in Nat /\ r.total \in Usage /\ r.last \in Usage \cup {None}
    BY <1>1, CountedType, StreamAssumption
<1>4. Opening # 0 /\ r.kind = "token" /\ r.total # None
    BY <1>1 DEF ParserTracks, Counted
<1>5. Opening' = Opening /\ Counts' = Counts \cup {i}
    BY <1>1, <1>4, Growth
<1> HIDE DEF n
<1>6. i \notin Counts /\ i \in Nat \ {0} /\ \A j \in Counts : j <= i
    BY <1>1 DEF n
<1>7. Max(Counts') = i
  <2> DEFINE T == Counts'
             C == Counts
  <2>1. T = C \cup {i} /\ C \in SUBSET Nat /\ i \in Nat /\ i <= i /\ \A k \in C : k <= i
    BY <1>1, <1>5, <1>6
  <2> HIDE DEF T, C
  <2>2. T \in SUBSET Nat /\ i \in T /\ \A k \in T : k <= i
    BY <2>1
  <2>3. Max(T) = i
    BY <2>2, MaxIs
  <2> QED
    BY <2>3 DEF T
<1>8. /\ Dense(i)' <=> LET before == IF Counts = {} THEN stream[Opening].at
                                     ELSE stream[Max(Counts)].at
                       IN  before # None /\ r.at - before <= PrefixGap
      /\ Restarts(i)' <=> Counts # {} /\ Shrinks(stream[Max(Counts)].total, r.total)
      /\ i \in Prefix' <=> Live = {} /\ thread \in Children /\ Dense(i)'
      /\ i \in Live' <=> i \notin Prefix'
    BY <1>1, <1>4, <1>5, NewCount
<1>9. Counts # {} => Max(Counts) \in Counts
    BY <1>1, Epochs
<1>10. Counts # {} => /\ stream[Max(Counts)].at \in Nat
                      /\ stream[Max(Counts)].total \in Usage
    BY <1>1, <1>9, Places
<1>11. /\ parser.previous # None <=> Counts # {}
       /\ parser.previous \in Usage \cup {None}
    BY <1>1, <1>10, NoneApart DEF ParserTracks
<1>12. Dense(i)' <=> IF parser.previous = None
                     THEN parser.canonicalAt # None /\ Within(parser.canonicalAt, r.at)
                     ELSE Within(parser.lastAt, r.at)
    BY <1>1, <1>4, <1>8, <1>10, <1>11, NoneApart DEF ParserTracks, Within
<1>13. parser.phase = "prefix" <=> thread \in Children /\ Live = {}
    BY <1>1, <1>4 DEF ParserTracks
<1>14. Inherited(parser, r) <=> i \in Prefix'
    BY <1>8, <1>12, <1>13 DEF Inherited
<1>15. Restarts(i)' <=> Regresses(parser, r)
  <2>1. CASE Counts = {}
    BY <1>8, <1>11, <2>1 DEF Regresses
  <2>2. CASE Counts # {}
    <3> DEFINE u == stream[Max(Counts)].total
    <3>1. parser.previous = u /\ u \in Usage /\ u # None
      BY <1>1, <1>10, <2>2, NoneApart DEF ParserTracks
    <3> HIDE DEF u
    <3>2. ASSUME NEW v \in Usage PROVE Shrinks(u, v) <=> v # u /\ ~HasDelta(v, u)
      BY <3>1 DEF Shrinks, HasDelta, Usage
    <3>3. Restarts(i)' <=> Shrinks(u, r.total)
      BY <1>8, <2>2 DEF u
    <3> QED
      BY <1>3, <3>1, <3>2, <3>3 DEF Regresses
  <2> QED
    BY <2>1, <2>2
<1> QED
    BY <1>2, <1>3, <1>4, <1>5, <1>6, <1>7, <1>8, <1>11, <1>13, <1>14, <1>15 DEF n, Inherited

\* A record of the copied prefix becomes what the thread inherits: no count is
\* live yet, and none becomes so.
LEMMA TakeInherited ==
    ASSUME Tracking, NEW r \in Records, Take(r), Counted(parser, r), Inherited(parser, r)
    PROVE  ParserTracks' /\ FactsBehind' /\ \A e \in Nat : Telescopes(e)'
<1> DEFINE n == Len(stream)
           i == n + 1
<1>1. /\ TypeOK /\ ParserTracks /\ FactsBehind /\ parser \in Parser
      /\ n \in Nat /\ Counts \subseteq 1 .. n /\ Live \subseteq Counts /\ Opening \in 0 .. n
    BY Places DEF Tracking, Inv, TypeOK, Live
<1> HIDE DEF i
<1>2. i = Len(stream) + 1
    BY DEF i
<1>3. /\ Opening # 0 /\ Opening' = Opening /\ Counts' = Counts \cup {i}
      /\ i \in Nat \ {0} /\ Len(stream') = i /\ stream'[i] = r
      /\ \A j \in 1 .. n : stream'[j] = stream[j]
      /\ thread' = thread /\ Max(Counts') = i
      /\ i \notin Live' /\ Live = {} /\ thread \in Children
    BY <1>2, CountedRecord
<1> HIDE DEF n
<1>4. Live' = {}
  <2>1. \A j \in Counts : j \in Live' <=> j \in Live
    BY <1>1, Unmoved
  <2>2. Live' \subseteq Counts'
    BY DEF Live
  <2> QED
    BY <1>3, <2>1, <2>2
<1>5. facts' = facts
  <2>1. UsageAdded(parser, r) = None
    BY DEF UsageAdded
  <2>2. FactAt(parser, stream', Len(stream'), thread, thread) = {}
    BY <1>3, <2>1 DEF FactAt
  <2> QED
    BY <2>2 DEF Take
<1>6. \A e \in Nat : PlacesIn(e) = {} /\ PlacesIn(e)' = {}
    BY <1>3, <1>4 DEF PlacesIn
<1>7. \A e \in Nat : Telescopes(e)'
  <2> SUFFICES ASSUME NEW e \in Nat PROVE Telescopes(e)'
    OBVIOUS
  <2>1. FactsOf(e)' = FactsOf(e) /\ Telescopes(e)
    BY <1>5 DEF FactsOf, Tracking
  <2> QED
    BY <1>1, <1>6, <2>1 DEF Telescopes
<1>8. Restarting = {} /\ Restarting' = {}
    BY <1>3, <1>4 DEF Restarting
<1>9. /\ parser'.phase = "prefix" /\ parser'.canonicalAt = parser.canonicalAt
      /\ parser'.previous = r.total /\ parser'.lastAt = r.at
      /\ parser'.epoch = parser.epoch
  <2>1. ~Opens(parser, r, thread) /\ parser.phase = "prefix"
    BY DEF Opens, Counted, Inherited
  <2>2. parser' = [parser EXCEPT !.previous = r.total, !.lastAt = r.at]
    BY <2>1 DEF Take, After
  <2> QED
    BY <1>1, <2>1, <2>2 DEF Parser
<1>10. stream'[Opening] = stream[Opening]
    BY <1>1, <1>3
<1>11. Counts' # {} /\ parser'.phase # "awaiting"
    BY <1>3, <1>9
<1>12. ParserTracks'
  <2>1. parser.canonicalAt = stream[Opening].at /\ parser.epoch = Cardinality(Restarting)
    BY <1>1, <1>3 DEF ParserTracks
  <2> QED
    BY <1>3, <1>4, <1>8, <1>9, <1>10, <1>11, <2>1 DEF ParserTracks
<1>13. FactsBehind'
    BY <1>1, <1>2, <1>3, <1>5, <1>9 DEF FactsBehind, TypeOK, Fact, n
<1> QED
    BY <1>7, <1>12, <1>13

\* How a live record divides the places: it belongs to the epoch the parser is in
\* behind it, which is a new one just if its counter went back.
LEMMA LivePlaces ==
    ASSUME Tracking, NEW r \in Records, Take(r), Counted(parser, r), ~Inherited(parser, r),
           NEW i, i = Len(stream) + 1
    PROVE  /\ Live' = Live \cup {i} /\ Prefix' = Prefix
           /\ Cardinality(Restarting') = IF Regresses(parser, r) THEN parser.epoch + 1
                                         ELSE parser.epoch
           /\ IsFiniteSet(Restarting')
           /\ \A e \in Nat : PlacesIn(e)' = IF e = Cardinality(Restarting')
                                            THEN PlacesIn(e) \cup {i} ELSE PlacesIn(e)
           /\ Regresses(parser, r) => PlacesIn(parser.epoch + 1) = {}
           /\ Live # {} => Max(Counts) \in PlacesIn(parser.epoch)
<1> DEFINE n == Len(stream)
<1>1. /\ TypeOK /\ ParserTracks /\ parser \in Parser
      /\ n \in Nat /\ Counts \subseteq 1 .. n /\ Live \subseteq Counts /\ Prefix \subseteq Counts
    BY Places DEF Tracking, Inv, TypeOK, Live, Prefix
<1>2. /\ Counts' = Counts \cup {i} /\ i \notin Counts /\ i \in Nat \ {0}
      /\ i \notin Prefix' /\ i \in Live'
      /\ Restarts(i)' <=> Regresses(parser, r)
    BY CountedRecord
<1>3. /\ IsFiniteSet(Restarting) /\ Cardinality(Restarting) \in Nat
      /\ \A j \in Live : EpochOf(j) \in 0 .. Cardinality(Restarting)
      /\ Live # {} => Max(Counts) \in Live /\ EpochOf(Max(Counts)) = Cardinality(Restarting)
      /\ \A j \in Counts : j <= n
    BY <1>1, Epochs
<1>4. parser.epoch = Cardinality(Restarting)
    BY <1>1 DEF ParserTracks
<1> HIDE DEF n
<1>5. Live' = Live \cup {i} /\ Prefix' = Prefix
  <2>1. \A j \in Counts : (j \in Live' <=> j \in Live) /\ (j \in Prefix' <=> j \in Prefix)
    BY <1>1, Unmoved
  <2>2. Live' \subseteq Counts' /\ Prefix' \subseteq Counts'
    BY DEF Live, Prefix
  <2> QED
    BY <1>1, <1>2, <2>1, <2>2
<1>6. \A j \in Live : Restarts(j)' <=> Restarts(j)
    BY <1>1, Unmoved
<1>7. Restarting' = IF Regresses(parser, r) THEN Restarting \cup {i} ELSE Restarting
  <2>1. Restarting' = {j \in Live \cup {i} : Restarts(j)'}
    BY <1>5 DEF Restarting
  <2>2. CASE Regresses(parser, r)
    BY <1>2, <1>6, <2>1, <2>2 DEF Restarting
  <2>3. CASE ~Regresses(parser, r)
    BY <1>2, <1>6, <2>1, <2>3 DEF Restarting
  <2> QED
    BY <2>2, <2>3
<1>8. i \notin Restarting
    BY <1>1, <1>2 DEF Restarting
<1>9. /\ IsFiniteSet(Restarting')
      /\ Cardinality(Restarting') = IF Regresses(parser, r) THEN Cardinality(Restarting) + 1
                                    ELSE Cardinality(Restarting)
  <2>1. CASE Regresses(parser, r)
    <3> DEFINE R == Restarting
    <3>1. IsFiniteSet(R) /\ i \notin R /\ Restarting' = R \cup {i}
      BY <1>3, <1>7, <1>8, <2>1
    <3> HIDE DEF R
    <3>2. IsFiniteSet(R \cup {i}) /\ Cardinality(R \cup {i}) = Cardinality(R) + 1
      BY <3>1, FS_AddElement
    <3> QED
      BY <2>1, <3>1, <3>2 DEF R
  <2>2. CASE ~Regresses(parser, r)
    BY <1>3, <1>7, <2>2
  <2> QED
    BY <2>1, <2>2
<1>10. EpochOf(i)' = Cardinality(Restarting')
  <2>1. \A j \in Live' : j <= i
    BY <1>1, <1>2, <1>3, <1>5 DEF n
  <2>2. {j \in Live' : j <= i /\ Restarts(j)'} = Restarting'
    BY <2>1 DEF Restarting
  <2> QED
    BY <2>2 DEF EpochOf
<1>11. \A j \in Live : EpochOf(j)' = EpochOf(j)
    BY <1>1, EpochsKept
<1>12. ASSUME NEW e \in Nat
       PROVE  PlacesIn(e)' = IF e = Cardinality(Restarting')
                             THEN PlacesIn(e) \cup {i} ELSE PlacesIn(e)
  <2>1. PlacesIn(e)' = {j \in Live \cup {i} : EpochOf(j)' = e}
    BY <1>5 DEF PlacesIn
  <2>2. PlacesIn(e) = {j \in Live : EpochOf(j) = e}
    BY DEF PlacesIn
  <2>3. CASE e = Cardinality(Restarting')
    BY <1>10, <1>11, <2>1, <2>2, <2>3
  <2>4. CASE e # Cardinality(Restarting')
    BY <1>10, <1>11, <2>1, <2>2, <2>4
  <2> QED
    BY <2>3, <2>4
<1>13. PlacesIn(parser.epoch + 1) = {}
  <2>1. \A j \in Live : EpochOf(j) # parser.epoch + 1
    BY <1>3, <1>4
  <2> QED
    BY <2>1 DEF PlacesIn
<1>14. Live # {} => Max(Counts) \in PlacesIn(parser.epoch)
    BY <1>3, <1>4 DEF PlacesIn
<1> QED
    BY <1>4, <1>5, <1>9, <1>12, <1>13, <1>14

\* No facts add up to nothing.
LEMMA SumOfNone == Sum({}) = Zero
<1>1. PICK g : Adds(g, {})
    BY AddsExists, FS_EmptySet
<1>2. Adds(CHOOSE h : Adds(h, {}), {})
    BY <1>1
<1>3. {} \in SUBSET {}
    OBVIOUS
<1> QED
    BY <1>2, <1>3, SumIsFold DEF Adds

\* What a record adds to the sum of its epoch.
Amount(p, r) == IF UsageAdded(p, r) = None THEN Zero ELSE UsageAdded(p, r)

\* A live record adds what it says of itself if its counter went back, the whole
\* counter if it is the first, and otherwise what is missing to its total.
LEMMA Measured ==
    ASSUME NEW p \in Parser, NEW r \in Record, Counted(p, r), ~Inherited(p, r)
    PROVE  /\ Amount(p, r) \in Counter
           /\ Regresses(p, r) => Amount(p, r) = IF r.last = None THEN Zero ELSE r.last
           /\ ~Regresses(p, r) /\ p.previous = None => Amount(p, r) = r.total
           /\ ~Regresses(p, r) /\ p.previous # None
                => Plus(p.previous, Amount(p, r)) = r.total
<1>1. r.total \in Usage /\ r.last \in Usage \cup {None} /\ p.previous \in Usage \cup {None}
    BY CountedType DEF Parser
<1>2. Amount(p, r) \in Counter
  <2>1. UsageAdded(p, r) \in (Usage \ {Zero}) \cup {None}
    BY UsageAddedType
  <2> QED
    BY <2>1, PlusLaws DEF Amount, Usage, Counter
<1> DEFINE a == Amount(p, r)
           t == r.total
           o == p.previous
<1>3. ASSUME Regresses(p, r) PROVE a = IF r.last = None THEN Zero ELSE r.last
    BY <1>1, <1>3, NoneApart DEF Amount, UsageAdded, Regresses
<1>4. ASSUME ~Regresses(p, r), o = None PROVE a = t
    BY <1>1, <1>4, NoneApart DEF Amount, UsageAdded
<1>5. ASSUME ~Regresses(p, r), o # None PROVE Plus(o, a) = t
  <2>1. CASE t = o
    <3>1. a = Zero
      BY <2>1 DEF Amount, UsageAdded
    <3>2. o \in Counter
      BY <1>1, <1>5 DEF Usage, Counter
    <3> QED
      BY <2>1, <3>1, <3>2, PlusLaws
  <2>2. CASE t # o
    <3>1. HasDelta(t, o)
      BY <1>5, <2>2 DEF Regresses
    <3>2. Delta(t, o) \in Usage
      BY <1>1, <1>5, <3>1, DeltaType
    <3>3. a = Delta(t, o)
      BY <1>5, <2>2, <3>2, NoneApart DEF Amount, UsageAdded
    <3> HIDE DEF a, t, o
    <3>4. t \in Usage /\ o \in Usage
      BY <1>1, <1>5 DEF t, o
    <3>5. Plus(o, Delta(t, o)) = t
      BY <3>4 DEF Plus, Delta, Usage
    <3> QED
      BY <3>3, <3>5
  <2> QED
    BY <2>1, <2>2
<1> QED
    BY <1>2, <1>3, <1>4, <1>5

\* How the facts of an epoch grow by a live record.
LEMMA FactsGrow ==
    ASSUME Tracking, NEW r \in Records, Take(r), Counted(parser, r), ~Inherited(parser, r),
           NEW c, c = parser'.epoch
    PROVE  /\ FactsBehind'
           /\ \A e \in Nat : e # c => FactsOf(e)' = FactsOf(e)
           /\ c \in Nat => Sum(FactsOf(c)') = Plus(Sum(FactsOf(c)), Amount(parser, r))
           /\ c \in Nat => Sum(FactsOf(c)) \in Counter
           /\ Regresses(parser, r) => FactsOf(parser.epoch + 1) = {}
<1> DEFINE n == Len(stream)
           i == n + 1
           usage == UsageAdded(parser, r)
           x == [file |-> thread, place |-> i, usage |-> usage, epoch |-> c]
           F == FactsOf(c)
<1>1. /\ TypeOK /\ FactsBehind /\ parser \in Parser /\ r \in Record /\ n \in Nat
      /\ Consistent(parser)
    BY Places, StreamAssumption DEF Tracking, Inv, TypeOK
<1>2. Len(stream') = i /\ stream'[i] = r
    BY CountedRecord
<1>3. /\ c = IF Regresses(parser, r) THEN parser.epoch + 1 ELSE parser.epoch
      /\ After(parser, r, thread).epoch = c
  <2>1. ~Opens(parser, r, thread)
    BY DEF Opens, Counted
  <2>2. parser' = [parser EXCEPT !.phase = "live", !.previous = r.total, !.lastAt = r.at,
                                !.epoch = IF Regresses(parser, r) THEN @ + 1 ELSE @]
        /\ parser' = After(parser, r, thread)
    BY <2>1 DEF Take, After
  <2> QED
    BY <1>1, <2>2 DEF Parser
<1>4. parser.epoch \in Nat
    BY <1>1 DEF Parser
<1>5. facts' = IF usage = None THEN facts ELSE facts \cup {x}
  <2>1. FactAt(parser, stream', Len(stream'), thread, thread) = IF usage = None THEN {} ELSE {x}
    BY <1>2, <1>3 DEF FactAt
  <2> QED
    BY <2>1 DEF Take
<1>6. /\ IsFiniteSet(facts) /\ \A fact \in facts : /\ fact.place <= n /\ fact.epoch <= parser.epoch
                                                  /\ fact.place \in Nat /\ fact.epoch \in Nat
                                                  /\ fact.usage \in Counter
    BY <1>1 DEF FactsBehind, TypeOK, Fact, Usage, Counter
<1>7. x.place = i /\ x.epoch = c /\ x.usage = usage
    OBVIOUS
<1>8. x \notin facts
    BY <1>1, <1>6, <1>7
<1> HIDE DEF x, usage, n
<1>9. FactsBehind'
  <2>1. IsFiniteSet(facts')
    BY <1>5, <1>6, FS_AddElement
  <2>2. \A fact \in facts' : fact.place <= i /\ fact.epoch <= c
    BY <1>1, <1>3, <1>4, <1>5, <1>6, <1>7
  <2> QED
    BY <1>2, <2>1, <2>2 DEF FactsBehind
<1>10. ASSUME NEW e \in Nat, e # c PROVE FactsOf(e)' = FactsOf(e)
    BY <1>5, <1>7, <1>10 DEF FactsOf
<1>11. ASSUME c \in Nat
       PROVE  Sum(F) \in Counter /\ Sum(FactsOf(c)') = Plus(Sum(F), Amount(parser, r))
  <2>1. FactsOf(c)' = {fact \in facts' : fact.epoch = c} /\ F = {fact \in facts : fact.epoch = c}
    BY DEF FactsOf
  <2> DEFINE y == [file |-> thread, place |-> i, usage |-> Amount(parser, r), epoch |-> c]
  <2>2. y.usage = Amount(parser, r) /\ y.place = i /\ y.epoch = c
    OBVIOUS
  <2>3. Amount(parser, r) \in Counter
    BY <1>1, Measured
  <2> HIDE DEF y
  <2>4. y \notin F
    BY <1>1, <1>6, <2>1, <2>2
  <2>5. IsFiniteSet(F) /\ \A fact \in F \cup {y} : fact.usage \in Counter
    BY <1>6, <2>1, <2>2, <2>3, FS_Subset
  <2> HIDE DEF F
  <2>6. Sum(F) \in Counter /\ Sum(F \cup {y}) = Plus(Sum(F), Amount(parser, r))
    BY <2>2, <2>4, <2>5, SumAdds
  <2>7. CASE usage = None
    <3>1. FactsOf(c)' = F /\ Amount(parser, r) = Zero
      BY <1>5, <2>1, <2>7 DEF Amount, usage
    <3>2. Plus(Sum(F), Zero) = Sum(F)
      BY <2>6, PlusLaws
    <3> QED
      BY <2>6, <3>1, <3>2
  <2>8. CASE usage # None
    <3>1. x = y
      BY <2>8 DEF x, y, Amount, usage
    <3>2. FactsOf(c)' = F \cup {y}
      BY <1>5, <1>7, <2>1, <2>8, <3>1
    <3> QED
      BY <2>6, <3>2
  <2> QED
    BY <2>7, <2>8
<1>12. FactsOf(parser.epoch + 1) = {}
    BY <1>4, <1>6 DEF FactsOf
<1> QED
    BY <1>9, <1>10, <1>11, <1>12 DEF F

\* How far the counter went, once more, after it went on by an amount.
LEMMA GoneOn ==
    ASSUME NEW counted \in Counter, NEW amount \in Counter, NEW base \in Counter,
           NEW own \in Counter, NEW reached \in Counter,
           Plus(counted, base) = Plus(reached, own)
    PROVE  Plus(Plus(counted, amount), base) = Plus(Plus(reached, amount), own)
<1>1. /\ counted.input \in Nat /\ amount.input \in Nat /\ base.input \in Nat
      /\ own.input \in Nat /\ reached.input \in Nat
      /\ counted.cached \in Nat /\ amount.cached \in Nat /\ base.cached \in Nat
      /\ own.cached \in Nat /\ reached.cached \in Nat
    BY DEF Counter
<1>2. /\ counted.input + base.input = reached.input + own.input
      /\ counted.cached + base.cached = reached.cached + own.cached
    BY DEF Plus
<1>3. /\ (counted.input + amount.input) + base.input
            = (reached.input + amount.input) + own.input
      /\ (counted.cached + amount.cached) + base.cached
            = (reached.cached + amount.cached) + own.cached
    BY <1>1, <1>2
<1> QED
    BY <1>3 DEF Plus

\* A live record adds to the sum of its epoch how far the counter went, and to no
\* other.
LEMMA TakeLive ==
    ASSUME Tracking, NEW r \in Records, Take(r), Counted(parser, r), ~Inherited(parser, r)
    PROVE  ParserTracks' /\ FactsBehind' /\ \A e \in Nat : Telescopes(e)'
<1> SUFFICES ASSUME NEW i, i = Len(stream) + 1, NEW c, c = parser'.epoch
             PROVE  ParserTracks' /\ FactsBehind' /\ \A e \in Nat : Telescopes(e)'
    OBVIOUS
<1> DEFINE n == Len(stream)
<1>1. /\ TypeOK /\ ParserTracks /\ FactsBehind /\ parser \in Parser /\ r \in Record
      /\ n \in Nat /\ Counts \subseteq 1 .. n /\ Live \subseteq Counts /\ Opening \in 0 .. n
      /\ \A e \in Nat : Telescopes(e)
    BY Places, StreamAssumption DEF Tracking, Inv, TypeOK, Live
<1>2. /\ Opening # 0 /\ Opening' = Opening /\ Counts' = Counts \cup {i}
      /\ i \in Nat \ {0} /\ Len(stream') = i /\ stream'[i] = r
      /\ \A j \in 1 .. n : stream'[j] = stream[j]
      /\ thread' = thread /\ Max(Counts') = i
      /\ parser.previous # None <=> Counts # {}
      /\ r.total \in Usage /\ r.last \in Usage \cup {None}
    BY CountedRecord
<1>3. /\ Live' = Live \cup {i} /\ Prefix' = Prefix
      /\ Cardinality(Restarting') = IF Regresses(parser, r) THEN parser.epoch + 1
                                    ELSE parser.epoch
      /\ \A e \in Nat : PlacesIn(e)' = IF e = Cardinality(Restarting')
                                       THEN PlacesIn(e) \cup {i} ELSE PlacesIn(e)
      /\ Regresses(parser, r) => PlacesIn(parser.epoch + 1) = {}
      /\ Live # {} => Max(Counts) \in PlacesIn(parser.epoch)
    BY LivePlaces
<1> HIDE DEF n
<1>4. /\ parser'.phase = "live" /\ parser'.canonicalAt = parser.canonicalAt
      /\ parser'.previous = r.total /\ parser'.lastAt = r.at
      /\ c = Cardinality(Restarting') /\ c \in Nat /\ parser.epoch \in Nat
      /\ c = IF Regresses(parser, r) THEN parser.epoch + 1 ELSE parser.epoch
  <2>1. ~Opens(parser, r, thread)
    BY DEF Opens, Counted
  <2>2. parser' = [parser EXCEPT !.phase = "live", !.previous = r.total, !.lastAt = r.at,
                                !.epoch = IF Regresses(parser, r) THEN @ + 1 ELSE @]
    BY <2>1 DEF Take, After
  <2> QED
    BY <1>1, <1>3, <2>2 DEF Parser
<1>5. stream'[Opening] = stream[Opening]
    BY <1>1, <1>2
<1>6. ParserTracks'
  <2>1. parser.canonicalAt = stream[Opening].at
    BY <1>1, <1>2 DEF ParserTracks
  <2>2. Counts' # {} /\ Live' # {} /\ parser'.phase # "awaiting" /\ parser'.phase # "prefix"
    BY <1>2, <1>3, <1>4
  <2> QED
    BY <1>2, <1>4, <1>5, <2>1, <2>2 DEF ParserTracks
<1>7. /\ FactsBehind'
      /\ \A e \in Nat : e # c => FactsOf(e)' = FactsOf(e)
      /\ Sum(FactsOf(c)') = Plus(Sum(FactsOf(c)), Amount(parser, r))
      /\ Sum(FactsOf(c)) \in Counter
      /\ Regresses(parser, r) => FactsOf(parser.epoch + 1) = {}
    BY <1>4, FactsGrow
<1>8. ASSUME NEW e \in Nat, e # c PROVE Telescopes(e)'
  <2>1. PlacesIn(e)' = PlacesIn(e) /\ FactsOf(e)' = FactsOf(e) /\ Telescopes(e)
    BY <1>1, <1>3, <1>4, <1>7, <1>8
  <2> QED
    BY <1>1, <1>3, <2>1, TelescopesKept
<1> DEFINE P == PlacesIn(c)
           Q == PlacesIn(c)'
           amount == Amount(parser, r)
           counted == Sum(FactsOf(c))
<1>9. Q = P \cup {i} /\ P \subseteq 1 .. n /\ i = n + 1
    BY <1>1, <1>3, <1>4 DEF PlacesIn, n
<1>10. /\ amount \in Counter /\ Zero \in Counter
       /\ Regresses(parser, r) => amount = IF r.last = None THEN Zero ELSE r.last
       /\ ~Regresses(parser, r) /\ parser.previous = None => amount = r.total
       /\ ~Regresses(parser, r) /\ parser.previous # None
            => Plus(parser.previous, amount) = r.total
    BY <1>1, Measured, PlusLaws
<1>11. Prefix \subseteq Counts /\ (Prefix # {} => Max(Prefix) \in Counts)
  <2> DEFINE T == Prefix
  <2>1. T \subseteq Counts /\ T \in SUBSET Nat /\ \A k \in T : k <= n
    <3>1. T \subseteq Counts
      BY DEF Prefix
    <3> HIDE DEF T, P, Q, amount, counted
    <3> QED
      BY <1>1, <3>1
  <2> HIDE DEF T
  <2>2. T # {} => Max(T) \in T
    BY <1>1, <2>1, Ends
  <2> QED
    BY <2>1, <2>2 DEF T
<1>12. Inheritance \in Counter /\ Inheritance' = Inheritance
  <2>1. Prefix # {} => /\ stream[Max(Prefix)].total \in Usage
                       /\ stream'[Max(Prefix)] = stream[Max(Prefix)]
    BY <1>1, <1>2, <1>11, Places
  <2> QED
    BY <1>3, <1>10, <2>1 DEF Inheritance, Usage, Counter
<1> DEFINE sum == Sum(FactsOf(c)')
           base == IF c = 0 THEN Inheritance ELSE stream'[Min(Q)].total
           Own(k) == IF stream'[k].last = None THEN Zero ELSE stream'[k].last
           own == IF c = 0 THEN Zero ELSE Own(Min(Q))
<1>14. Q # {} /\ Max(Q) = i
  <2> HIDE DEF P, Q
  <2>1. Q = P \cup {i} /\ P \in SUBSET Nat /\ i \in Nat /\ i <= i /\ \A k \in P : k <= i
    <3> HIDE DEF amount, base, own
    <3>1. Q = P \cup {i} /\ i \in Nat /\ i <= i
      BY <1>2, <1>9
    <3>2. n \in Nat /\ P \subseteq 1 .. n /\ i = n + 1
      BY <1>1, <1>9
    <3> QED
      BY <3>1, <3>2
  <2>2. Q \in SUBSET Nat /\ i \in Q /\ \A k \in Q : k <= i
    BY <2>1
  <2> QED
    BY <2>2, MaxIs
<1>15. (Plus(sum, base) = Plus(r.total, own)) => Telescopes(c)'
  <2>1. stream'[Max(Q)].total = r.total
    BY <1>2, <1>14
  <2> HIDE DEF Q
  <2>2. r.total \in Counter /\ Plus(r.total, Zero) = r.total
    BY <1>2, PlusLaws DEF Usage, Counter
  <2>3. PlacesIn(c)' = Q /\ Q # {} /\ Inheritance' = Inheritance
    BY <1>12, <1>14 DEF Q
  <2> QED
    BY <2>1, <2>2, <2>3 DEF Telescopes, OwnUsage
<1> HIDE DEF sum, counted
<1>16. r.total \in Counter /\ Plus(Zero, amount) = amount /\ Plus(r.total, Zero) = r.total
    BY <1>2, <1>10, PlusLaws DEF Usage, Counter
<1>17. CASE Regresses(parser, r)
  <2>1. P = {} /\ FactsOf(c) = {} /\ c # 0
    BY <1>3, <1>4, <1>7, <1>17
  <2>2. Q = {i} /\ Min({i}) = i
    BY <1>2, <1>9, <2>1, MinIs
  <2>3. sum = amount
    BY <1>7, <1>16, <2>1, SumOfNone DEF sum
  <2>4. base = r.total /\ own = IF r.last = None THEN Zero ELSE r.last
    BY <1>2, <2>1, <2>2
  <2>5. amount = own
    BY <1>10, <1>17, <2>4
  <2>6. Plus(sum, base) = Plus(r.total, own)
    BY <1>10, <1>16, <2>3, <2>4, <2>5, PlusLaws
  <2> QED
    BY <1>4, <1>6, <1>7, <1>8, <1>15, <2>6
<1>18. CASE ~Regresses(parser, r) /\ Live = {}
  <2>1. c = 0 /\ P = {}
    <3>1. Restarting = {}
      BY <1>18 DEF Restarting
    <3>2. parser.epoch = 0
      BY <1>1, <3>1, FS_EmptySet DEF ParserTracks
    <3> QED
      BY <1>4, <1>18, <3>2 DEF PlacesIn
  <2>2. FactsOf(c) = {}
    <3>1. Telescopes(c)
      BY <1>1, <1>4
    <3> QED
      BY <2>1, <3>1 DEF Telescopes
  <2>3. sum = amount
    BY <1>7, <1>16, <2>2, SumOfNone DEF sum
  <2>4. Prefix = Counts
    BY <1>11, <1>18 DEF Live
  <2>5. base = Inheritance /\ own = Zero
    BY <2>1
  <2>6. Plus(amount, Inheritance) = r.total
    <3>1. CASE Counts = {}
      BY <1>2, <1>10, <1>16, <1>18, <2>4, <3>1, PlusLaws DEF Inheritance
    <3>2. CASE Counts # {}
      <4>1. Inheritance = parser.previous
        BY <1>1, <2>4, <3>2 DEF Inheritance, ParserTracks
      <4> QED
        BY <1>2, <1>10, <1>12, <1>18, <3>2, <4>1, PlusLaws
    <3> QED
      BY <3>1, <3>2
  <2>7. Plus(sum, base) = Plus(r.total, own)
    BY <1>16, <2>3, <2>5, <2>6
  <2> QED
    BY <1>4, <1>6, <1>7, <1>8, <1>15, <2>7
<1>19. CASE ~Regresses(parser, r) /\ Live # {}
  <2> DEFINE m == Max(Counts)
             o == stream[m].total
  <2>1. m \in Counts /\ m \in P /\ c = parser.epoch /\ \A j \in Counts : j <= m
    BY <1>1, <1>3, <1>4, <1>19, Epochs
  <2>2. parser.previous = o /\ o \in Usage
    <3>1. Counts # {}
      BY <2>1
    <3>2. o \in Usage
      BY <1>1, <2>1, Places
    <3> QED
      BY <1>1, <3>1, <3>2 DEF ParserTracks
  <2>3. Plus(o, amount) = r.total /\ o \in Counter
    BY <1>10, <1>19, <2>2, NoneApart DEF Usage, Counter
  <2> HIDE DEF m
  <2>4. P \subseteq Counts /\ P \in SUBSET Nat /\ P # {} /\ n \in Nat /\ \A k \in P : k <= n
    BY <1>1, <1>9, <2>1 DEF PlacesIn
  <2>5. Max(P) = m
    <3> HIDE DEF P
    <3> QED
      BY <2>1, <2>4, MaxIs
  <2>6. Min(P) \in P /\ \A k \in P : Min(P) <= k
    <3> HIDE DEF P
    <3> QED
      BY <2>4, Ends
  <2>7. Min(Q) = Min(P)
    <3> DEFINE a == Min(P)
    <3> HIDE DEF P, Q
    <3>1. a \in P /\ (\A k \in P : a <= k) /\ a <= n
      BY <2>4, <2>6
    <3> HIDE DEF a
    <3>2. a \in Q /\ Q \in SUBSET Nat /\ a <= i
      <4>1. Q = P \cup {i} /\ i \in Nat /\ i = n + 1 /\ n \in Nat /\ P \in SUBSET Nat
        BY <1>1, <1>2, <1>9, <2>4
      <4> HIDE DEF base, own, o, amount
      <4>2. a \in Nat /\ a \in Q
        BY <3>1, <4>1
      <4>3. a <= i
        BY <3>1, <4>1, <4>2
      <4>4. Q \in SUBSET Nat
        BY <4>1
      <4> QED
        BY <4>2, <4>3, <4>4
    <3>3. \A k \in Q : a <= k
      BY <1>9, <3>1, <3>2
    <3> QED
      BY <3>2, <3>3, MinIs DEF a
  <2> DEFINE a == Min(P)
  <2>8. a \in Counts /\ stream'[a] = stream[a] /\ stream[a].total \in Usage
        /\ stream[a].last \in Usage \cup {None}
    BY <1>1, <1>2, <2>4, <2>6, Places
  <2> HIDE DEF a
  <2>9. OwnUsage(a) \in Counter /\ stream[a].total \in Counter
    BY <1>10, <2>8 DEF OwnUsage, Usage, Counter
  <2>10. /\ base = IF c = 0 THEN Inheritance ELSE stream[a].total
         /\ own = IF c = 0 THEN Zero ELSE OwnUsage(a)
         /\ base \in Counter /\ own \in Counter
    <3> HIDE DEF Q
    <3>1. Min(Q) = a
      BY <2>7 DEF a
    <3>2. base = (IF c = 0 THEN Inheritance ELSE stream'[a].total)
          /\ own = (IF c = 0 THEN Zero ELSE Own(a))
      BY <3>1
    <3>3. Own(a) = OwnUsage(a)
      BY <2>8 DEF OwnUsage
    <3> QED
      BY <1>10, <1>12, <2>8, <2>9, <3>2, <3>3
  <2>11. Plus(counted, base) = Plus(o, own)
    <3> HIDE DEF P
    <3>1. Telescopes(c) /\ P = PlacesIn(c) /\ P # {}
      BY <1>1, <1>4, <2>4 DEF P
    <3>2. IF c = 0 THEN Plus(counted, Inheritance) = stream[Max(P)].total
          ELSE Plus(counted, stream[Min(P)].total) = Plus(stream[Max(P)].total, OwnUsage(Min(P)))
      BY <3>1 DEF Telescopes, counted
    <3>3. Plus(o, Zero) = o
      BY <1>10, <2>3, PlusLaws
    <3> HIDE DEF base, own
    <3> QED
      BY <2>5, <2>10, <3>2, <3>3 DEF a
  <2> HIDE DEF base, own, o, amount
  <2>12. sum = Plus(counted, amount) /\ counted \in Counter
    BY <1>7 DEF sum, counted, amount
  <2>13. Plus(sum, base) = Plus(r.total, own)
    BY <1>10, <2>3, <2>10, <2>11, <2>12, GoneOn DEF amount
  <2> QED
    BY <1>4, <1>6, <1>7, <1>8, <1>15, <2>13 DEF base, own
<1> QED
    BY <1>17, <1>18, <1>19

-----------------------------------------------------------------------------
\* At the beginning nothing is counted.
LEMMA TrackingInit == Init => Tracking
<1> SUFFICES ASSUME Init PROVE Tracking
    OBVIOUS
<1>1. Inv /\ TypeOK
    BY InitInv DEF Inv
<1>2. Openings = {} /\ Opening = 0 /\ Counts = {} /\ Live = {} /\ Restarting = {}
  <2>1. DOMAIN stream = {}
    BY DEF Init
  <2>2. Openings = {} /\ Counts = {}
    BY <2>1 DEF Openings, Counts
  <2>3. Opening = 0
    BY <1>1, <2>2, Places
  <2> QED
    BY <2>2, <2>3 DEF Live, Restarting
<1>3. ParserTracks
  <2>1. Cardinality(Restarting) = 0
    BY <1>2, FS_EmptySet
  <2>2. /\ parser.phase = "awaiting" /\ parser.previous = None /\ parser.epoch = 0
    BY DEF Init, NewParser
  <2> QED
    BY <1>2, <2>1, <2>2 DEF ParserTracks
<1>4. FactsBehind
    BY FS_EmptySet DEF Init, FactsBehind
<1>5. \A e \in Nat : Telescopes(e)
  <2>1. \A e \in Nat : PlacesIn(e) = {} /\ FactsOf(e) = {}
    BY <1>2 DEF PlacesIn, FactsOf, Init
  <2> QED
    BY <2>1 DEF Telescopes
<1> QED
    BY <1>1, <1>3, <1>4, <1>5 DEF Tracking

\* What is said of the stream depends on the variables alone.
LEMMA TrackingStutters == Tracking /\ UNCHANGED vars => Tracking'
<1> SUFFICES ASSUME Tracking, UNCHANGED vars PROVE Tracking'
    OBVIOUS
<1>1. Inv'
    BY NextInv DEF Tracking
<1>2. stream' = stream /\ thread' = thread /\ parser' = parser /\ facts' = facts
    BY DEF vars
<1>3. Opening' = Opening
    BY <1>2 DEF IsOpening, Opening
<1>4. Counts' = Counts
    BY <1>2, <1>3 DEF Counts
<1>5. \A j : Earlier(j)' = Earlier(j)
    BY <1>4 DEF Earlier
<1>6. \A j : (Dense(j)' <=> Dense(j)) /\ (Restarts(j)' <=> Restarts(j))
    BY <1>2, <1>3, <1>5 DEF Dense, TimeBefore, Restarts, Shrinks
<1>7. Prefix' = Prefix
    BY <1>2, <1>4, <1>5, <1>6 DEF Prefix
<1>8. Live' = Live
    BY <1>4, <1>7 DEF Live
<1>9. Restarting' = Restarting
    BY <1>6, <1>8 DEF Restarting
<1>10. ParserTracks' /\ FactsBehind'
    BY <1>2, <1>3, <1>4, <1>8, <1>9 DEF Tracking, ParserTracks, FactsBehind
<1>11. \A j : EpochOf(j)' = EpochOf(j)
    BY <1>6, <1>8 DEF EpochOf
<1>12. \A e : PlacesIn(e)' = PlacesIn(e) /\ FactsOf(e)' = FactsOf(e)
    BY <1>2, <1>8, <1>11 DEF PlacesIn, FactsOf
<1>13. Inheritance' = Inheritance
    BY <1>2, <1>7 DEF Inheritance
<1>14. ASSUME NEW e \in Nat PROVE Telescopes(e)'
  <2>1. PlacesIn(e)' = PlacesIn(e) /\ FactsOf(e)' = FactsOf(e) /\ Telescopes(e)
    BY <1>12 DEF Tracking
  <2> QED
    BY <1>2, <1>13, <2>1 DEF Telescopes, OwnUsage
<1> QED
    BY <1>1, <1>10, <1>14 DEF Tracking

\* Every record keeps the invariant: quiet, inherited or live.
LEMMA TrackingNext == Tracking /\ [Next]_vars => Tracking'
<1> SUFFICES ASSUME Tracking, [Next]_vars PROVE Tracking'
    OBVIOUS
<1>1. Inv'
    BY NextInv DEF Tracking
<1>2. ASSUME NEW r \in Records, Take(r) PROVE Tracking'
  <2>1. CASE ~Counted(parser, r)
    BY <1>1, <1>2, <2>1, TakeQuiet DEF Tracking
  <2>2. CASE Counted(parser, r) /\ Inherited(parser, r)
    BY <1>1, <1>2, <2>2, TakeInherited DEF Tracking
  <2>3. CASE Counted(parser, r) /\ ~Inherited(parser, r)
    BY <1>1, <1>2, <2>3, TakeLive DEF Tracking
  <2> QED
    BY <2>1, <2>2, <2>3
<1>3. CASE UNCHANGED vars
    BY <1>3, TrackingStutters
<1> QED
    BY <1>2, <1>3 DEF Next

\* For any records in any order, of any length and of any size: the facts of every
\* epoch add up to how far the counter went in it, from what was inherited or from
\* the restart and the usage it reports (process_line, in_dense_inherited_prefix,
\* checked_delta).
THEOREM UsageTelescopesHolds == Spec => []UsageTelescopes
<1>1. Tracking => UsageTelescopes
  <2> SUFFICES ASSUME Tracking, NEW e \in 0 .. Len(stream)
               PROVE  IF PlacesIn(e) = {}
                      THEN {fact \in facts : fact.epoch = e} = {}
                      ELSE LET first   == Min(PlacesIn(e))
                               reached == stream[Max(PlacesIn(e))].total
                               counted == Sum({fact \in facts : fact.epoch = e})
                           IN  IF e = 0
                               THEN Plus(counted, Inheritance) = reached
                               ELSE Plus(counted, stream[first].total)
                                      = Plus(reached, OwnUsage(first))
    BY DEF UsageTelescopes
  <2>1. e \in Nat
    OBVIOUS
  <2>2. Telescopes(e)
    BY <2>1 DEF Tracking
  <2> QED
    BY <2>2 DEF Telescopes, FactsOf
<1> QED
    BY TrackingInit, TrackingNext, <1>1, PTL DEF Spec
=============================================================================
