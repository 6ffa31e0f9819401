--------------------------- MODULE Dashboard_proofs ---------------------------
(***************************************************************************)
(* Proofs about Dashboard: a clean marker means a current choice of        *)
(* evidence; a request which no write disturbs counts every fact of its    *)
(* window once; what the page shows of official and local totals, of all   *)
(* accounts and of one, of days, weeks and the whole, hangs together;      *)
(* every route to local usage adds up to the same tokens; the estimate of  *)
(* unattributed usage gives out what is left, no more and no less; and the *)
(* session list and the session detail agree on every tree.                *)
(***************************************************************************)
EXTENDS Dashboard, Induction, SequenceTheorems, TLAPS

-----------------------------------------------------------------------------
(* Tokens of a set of facts.                                               *)

\* The sum of a function is the total of its values.
LEMMA SumIsTotal ==
    /\ \A f, S : SumFunctionOnSet(f, S) = Total(f, S)
    /\ \A f : SumFunction(f) = Total(f, DOMAIN f)
<1>1. \A f, S : SumFunctionOnSet(f, S) = Total(f, S)
    BY DEF SumFunctionOnSet, FoldFunctionOnSet, MapThenFoldSet, Total, Totals, AnyOf
<1> QED
    BY <1>1 DEF SumFunction

\* The parts of a usage add up to a number.
LEMMA TotalOfType == \A u \in [Parts -> Nat] : TotalOf(u) \in Nat
<1> SUFFICES ASSUME NEW u \in [Parts -> Nat] PROVE TotalOf(u) \in Nat
    OBVIOUS
<1>1. IsFiniteSet(Parts)
    BY 1 \in Int, 5 \in Int, FS_Interval DEF Parts
<1>2. Total(u, Parts) \in Nat
    BY <1>1, TotalAdds
<1>3. TotalOf(u) = Total(u, Parts)
    BY SumIsTotal DEF TotalOf
<1> QED
    BY <1>2, <1>3

Weight == [f \in Facts |-> TotalOf(f.usage)]

\* Tokens adds up the weights of facts.
LEMMA TokensIsTotal ==
    ASSUME NEW S \in SUBSET Facts
    PROVE  Tokens(S) = Total(Weight, S) /\ IsFiniteSet(S) /\ \A f \in S : Weight[f] \in Nat
<1> DEFINE w == [f \in S |-> TotalOf(f.usage)]
<1>1. IsFiniteSet(S)
    BY EffectiveSourceAssumption, FS_Subset
<1>2. \A f \in S : Weight[f] = TotalOf(f.usage) /\ Weight[f] \in Nat
    BY EffectiveSourceAssumption, TotalOfType DEF Weight, Fact
<1>3. \A f \in S : w[f] = Weight[f]
    BY <1>2
<1>4. Tokens(S) = Total(w, S)
    BY SumIsTotal DEF Tokens
<1> HIDE DEF w
<1>5. Total(w, S) = Total(Weight, S)
    BY <1>1, <1>3, TotalSame
<1> QED
    BY <1>1, <1>2, <1>4, <1>5

\* Sets of facts with nothing in common have the tokens of both.
LEMMA TokensAdd ==
    ASSUME NEW S \in SUBSET Facts, NEW R \in SUBSET Facts, S \cap R = {}
    PROVE  Tokens(S \cup R) = Tokens(S) + Tokens(R) /\ Tokens(S) \in Nat /\ Tokens(R) \in Nat
<1>1. S \cup R \in SUBSET Facts
    OBVIOUS
<1>2. /\ IsFiniteSet(S) /\ IsFiniteSet(R) /\ \A f \in S \cup R : Weight[f] \in Nat
      /\ Tokens(S) = Total(Weight, S) /\ Tokens(R) = Total(Weight, R)
      /\ Tokens(S \cup R) = Total(Weight, S \cup R)
    BY <1>1, TokensIsTotal
<1>3. /\ Total(Weight, S \cup R) = Total(Weight, S) + Total(Weight, R)
      /\ Total(Weight, S) \in Nat /\ Total(Weight, R) \in Nat
    BY <1>2, TotalUnion
<1> QED
    BY <1>2, <1>3

\* The facts of a set hold a number of tokens.
LEMMA TokensType ==
    ASSUME NEW S \in SUBSET Facts
    PROVE  Tokens(S) \in Nat
<1>1. {} \in SUBSET Facts /\ S \cap {} = {}
    OBVIOUS
<1> QED
    BY <1>1, TokensAdd

\* No facts, no tokens.
LEMMA NoTokens == Tokens({}) = 0
<1>1. {} \in SUBSET Facts
    OBVIOUS
<1>2. Tokens({}) = Total(Weight, {}) /\ IsFiniteSet({})
    BY <1>1, TokensIsTotal
<1>3. Total(Weight, {}) = 0
    BY <1>2, TotalAdds
<1> QED
    BY <1>2, <1>3

-----------------------------------------------------------------------------
(* The choice of evidence.                                                 *)

\* The best choice is a function of the confirmed evidence.
LEMMA SameBest ==
    ASSUME Confirmed(sampled)' = Confirmed(sampled), rebuilt' = rebuilt
    PROVE  BestChoice' = BestChoice
  BY DEF BestChoice, BestSource

\* A step that leaves the marker clean and the choice as it is has left the
\* confirmed evidence alone.
LEMMA CleanKept ==
    ASSUME SelectionCurrent, choice' = choice,
           ~dirty' => ~dirty /\ Confirmed(sampled)' = Confirmed(sampled) /\ rebuilt' = rebuilt
    PROVE  SelectionCurrent'
  BY SameBest DEF SelectionCurrent

\* A refresh makes the choice current.
LEMMA RefreshCurrent ==
    ASSUME SelectionCurrent, dirty \in BOOLEAN, Refresh
    PROVE  /\ SelectionCurrent' /\ ~dirty' /\ dirty' \in BOOLEAN /\ BestChoice' = BestChoice
           /\ UNCHANGED <<sampled, raw, rebuilt, catalog, standalone, rootOf>>
<1>1. UNCHANGED <<sampled, raw, rebuilt, catalog, standalone, rootOf>>
    BY DEF Refresh
<1>2. BestChoice' = BestChoice
    BY <1>1, SameBest DEF Confirmed
<1>3. IF dirty THEN choice' = BestChoice /\ dirty' = FALSE ELSE UNCHANGED <<choice, dirty>>
    BY DEF Refresh, RefreshEffectiveSourceSelection
<1> QED
    BY <1>1, <1>2, <1>3 DEF SelectionCurrent

Clean == SelectionCurrent /\ dirty \in BOOLEAN

\* Every transaction on the tables keeps the choice current or marks it dirty.
LEMMA TablesKeepClean ==
    ASSUME Clean,
           \/ \E batch : InsertSamples(batch)
           \/ \E batch : InsertRebuilt(batch)
           \/ \E thread : WithdrawRebuilt(thread)
           \/ \E before : CompactRaw(before)
           \/ \E rows : SyncCatalog(rows)
           \/ Refresh
           \/ UNCHANGED tables
    PROVE  Clean'
<1>1. ASSUME NEW batch, InsertSamples(batch) PROVE Clean'
  <2>1. choice' = choice /\ rebuilt' = rebuilt /\ dirty' = Dirtied(Confirmed(sampled), Confirmed(sampled'))
    BY <1>1 DEF InsertSamples
  <2>2. ~dirty' => ~dirty /\ Confirmed(sampled') = Confirmed(sampled)
    BY <2>1 DEF Dirtied
  <2> QED
    BY <2>1, <2>2, CleanKept DEF Clean, Dirtied, Confirmed
<1>2. ASSUME NEW batch, InsertRebuilt(batch) PROVE Clean'
  <2>1. choice' = choice /\ sampled' = sampled /\ dirty' = Dirtied(rebuilt, rebuilt')
    BY <1>2 DEF InsertRebuilt
  <2> QED
    BY <2>1, CleanKept DEF Clean, Dirtied, Confirmed
<1>3. ASSUME NEW thread, WithdrawRebuilt(thread) PROVE Clean'
  <2>1. choice' = choice /\ sampled' = sampled /\ dirty' = Dirtied(rebuilt, rebuilt')
    BY <1>3 DEF WithdrawRebuilt
  <2> QED
    BY <2>1, CleanKept DEF Clean, Dirtied, Confirmed
<1>4. ASSUME UNCHANGED <<sampled, rebuilt, dirty, choice>> PROVE Clean'
    BY <1>4, CleanKept DEF Clean, Confirmed
<1>5. ASSUME NEW before, CompactRaw(before) PROVE UNCHANGED <<sampled, rebuilt, dirty, choice>>
    BY <1>5 DEF CompactRaw
<1>6. ASSUME NEW rows, SyncCatalog(rows) PROVE UNCHANGED <<sampled, rebuilt, dirty, choice>>
    BY <1>6 DEF SyncCatalog
<1>7. CASE Refresh
    BY <1>7, RefreshCurrent DEF Clean
<1>8. ASSUME UNCHANGED tables PROVE UNCHANGED <<sampled, rebuilt, dirty, choice>>
    BY <1>8 DEF tables
<1> QED
    BY <1>1, <1>2, <1>3, <1>4, <1>5, <1>6, <1>7, <1>8

\* What a step of the program does to the tables
LEMMA StepsOnTables ==
    ASSUME [Next]_vars
    PROVE  \/ \E batch : InsertSamples(batch)
           \/ \E batch : InsertRebuilt(batch)
           \/ \E thread : WithdrawRebuilt(thread)
           \/ \E before : CompactRaw(before)
           \/ \E rows : SyncCatalog(rows)
           \/ Refresh
           \/ UNCHANGED tables
<1>1. CASE Write
    BY <1>1 DEF Write, Ingest, Rebuild, Withdraw, Scan, StoreOfficial, Confirm, Compact
<1>2. CASE PassTime \/ OtherReader \/ UNCHANGED vars
    BY <1>2 DEF PassTime, OtherReader, vars, tables
<1>3. CASE Page
    BY <1>3 DEF Page, OpenPage, Navigate, TimerFires, PostReturns, Post, Change, PostStores, PostFails,
                Invalidate, Tick
<1>4. CASE Serve
    BY <1>4 DEF Serve, Start, RefreshFirst, Read, Finish, Fail, Deliver
<1> QED
    BY <1>1, <1>2, <1>3, <1>4 DEF Next

\* Whatever evidence comes, goes or is compacted, and whoever refreshes: a clean
\* marker means that the stored choice is the best one.
THEOREM SelectionCurrentHolds == Spec => []SelectionCurrent
<1>1. Init => Clean
    BY DEF Init, Clean, SelectionCurrent
<1>2. Clean /\ [Next]_vars => Clean'
    BY StepsOnTables, TablesKeepClean
<1>3. Clean => SelectionCurrent
    BY DEF Clean
<1> QED
    BY <1>1, <1>2, <1>3, PTL DEF Spec

-----------------------------------------------------------------------------
(* Periods and the statements that read them.                              *)

\* Division rounds down.
LEMMA RoundsDown ==
    ASSUME NEW n \in Nat \ {0}, NEW t \in Nat
    PROVE  /\ t \div n \in Nat /\ (t \div n) * n \in Nat
           /\ (t \div n) * n <= t /\ t < (t \div n) * n + n
  OBVIOUS

\* A multiple is what it rounds down to.
LEMMA RoundedMultiple ==
    ASSUME NEW n \in Nat \ {0}, NEW k \in Nat
    PROVE  (k * n) \div n = k
  OBVIOUS

\* The least and the greatest of two numbers
LEMMA MinMaxOfTwo ==
    ASSUME NEW a \in Nat, NEW b \in Nat
    PROVE  /\ Min({a, b}) = IF a <= b THEN a ELSE b
           /\ Max({a, b}) = IF a >= b THEN a ELSE b
<1>1. \E x \in {a, b} : \A y \in {a, b} : x <= y
    OBVIOUS
<1>2. \E x \in {a, b} : \A y \in {a, b} : x >= y
    OBVIOUS
<1>3. Min({a, b}) \in {a, b} /\ \A y \in {a, b} : Min({a, b}) <= y
    BY <1>1 DEF Min
<1>4. Max({a, b}) \in {a, b} /\ \A y \in {a, b} : Max({a, b}) >= y
    BY <1>2 DEF Max
<1> QED
    BY <1>3, <1>4

\* The instant from which on an hour statement, a day statement or a scan of raw
\* rows counts facts
Low(s) == IF s.table = "day" THEN Day(s.from) * DayLength ELSE s.from

\* At time t the statement s counts the evidence from Low(s) up to s.to and no other:
\* it asks for whole hours, for days that end with the present, or for raw rows
\* that compaction keeps.
Fits(s, t) ==
    /\ s \in Statements /\ Low(s) <= s.to
    /\ s.table = "raw" => Before(t, RollingLength) <= s.from
    /\ s.table = "hour" => /\ Hour(s.from) * HourLength = s.from
                           /\ s.to = t \/ Hour(s.to) * HourLength = s.to
    /\ s.table = "day" => s.to = t

\* The statements todo count the evidence from a to b, one after the other.
Spans(todo, a, b, t) ==
    /\ todo \in Seq(Statements) /\ a \in Nat /\ b \in Nat
    /\ todo = <<>> => a = b
    /\ todo # <<>> => Low(todo[1]) = a
    /\ \A i \in 1 .. Len(todo) :
          Fits(todo[i], t) /\ todo[i].to = IF i = Len(todo) THEN b ELSE Low(todo[i + 1])

\* No statements read the empty window.
LEMMA NothingSpans ==
    ASSUME NEW a \in Nat, NEW t
    PROVE  Spans(<<>>, a, a, t)
  BY DEF Spans

\* One statement reads the window it names.
LEMMA OneSpans ==
    ASSUME NEW t, NEW s, Fits(s, t), Low(s) \in Nat
    PROVE  Spans(<<s>>, Low(s), s.to, t)
<1>1. s \in Statements /\ s.to \in Nat /\ Low(s) <= s.to
    BY EffectiveSourceAssumption DEF Fits, Statements
<1>2. <<s>> \in Seq(Statements) /\ Len(<<s>>) = 1 /\ <<s>>[1] = s /\ <<s>> # <<>>
    BY <1>1
<1> DEFINE todo == <<s>>
<1> HIDE DEF todo
<1> SUFFICES Spans(todo, Low(s), s.to, t)
    BY DEF todo
<1>3. todo \in Seq(Statements) /\ Len(todo) = 1 /\ todo[1] = s /\ todo # <<>>
    BY <1>2 DEF todo
<1>4. \A i \in 1 .. Len(todo) : i = 1
    BY <1>3
<1> QED
    BY <1>1, <1>3, <1>4 DEF Spans

\* One span after the other
LEMMA SpansJoin ==
    ASSUME NEW x, NEW y, NEW a, NEW b, NEW c, NEW t, Spans(x, a, b, t), Spans(y, b, c, t)
    PROVE  Spans(x \o y, a, c, t)
<1> DEFINE z == x \o y
<1>1. /\ x \in Seq(Statements) /\ y \in Seq(Statements)
      /\ a \in Nat /\ b \in Nat /\ c \in Nat
    BY DEF Spans
<1>2. /\ z \in Seq(Statements) /\ Len(z) = Len(x) + Len(y) /\ Len(x) \in Nat /\ Len(y) \in Nat
      /\ \A i \in 1 .. Len(z) : z[i] = IF i <= Len(x) THEN x[i] ELSE y[i - Len(x)]
    BY <1>1
<1>3. /\ x = <<>> <=> Len(x) = 0
      /\ y = <<>> <=> Len(y) = 0
      /\ z = <<>> <=> Len(z) = 0
    BY <1>1, <1>2
<1> HIDE DEF z
<1>4. /\ Len(x) = 0 => a = b
      /\ Len(x) # 0 => Low(x[1]) = a
      /\ Len(y) = 0 => b = c
      /\ Len(y) # 0 => Low(y[1]) = b
    BY <1>3 DEF Spans
<1>5. /\ \A i \in 1 .. Len(x) : Fits(x[i], t) /\ x[i].to = IF i = Len(x) THEN b ELSE Low(x[i + 1])
      /\ \A i \in 1 .. Len(y) : Fits(y[i], t) /\ y[i].to = IF i = Len(y) THEN c ELSE Low(y[i + 1])
    BY DEF Spans
<1>6. Len(z) = 0 => a = c
    BY <1>2, <1>4
<1>7. Len(z) # 0 => Low(z[1]) = a
  <2>1. CASE Len(x) # 0
    <3>1. 1 \in 1 .. Len(z) /\ 1 <= Len(x)
      BY <1>2, <2>1
    <3>2. z[1] = x[1]
      BY <1>2, <3>1
    <3> QED
      BY <1>4, <2>1, <3>2
  <2>2. CASE Len(x) = 0 /\ Len(z) # 0
    <3>1. 1 \in 1 .. Len(z) /\ ~(1 <= Len(x)) /\ 1 - Len(x) = 1 /\ Len(y) # 0
      BY <1>2, <2>2
    <3>2. z[1] = y[1]
      BY <1>2, <3>1
    <3> QED
      BY <1>4, <2>2, <3>1, <3>2
  <2> QED
    BY <2>1, <2>2
<1>8. ASSUME NEW i \in 1 .. Len(z)
      PROVE  Fits(z[i], t) /\ z[i].to = IF i = Len(z) THEN c ELSE Low(z[i + 1])
  <2>1. CASE i < Len(x)
    <3>1. i \in 1 .. Len(x) /\ i # Len(x) /\ i # Len(z) /\ i + 1 \in 1 .. Len(z) /\ i + 1 <= Len(x) /\ i <= Len(x)
      BY <1>2, <2>1
    <3>2. z[i] = x[i] /\ z[i + 1] = x[i + 1]
      BY <1>2, <3>1
    <3> QED
      BY <1>5, <3>1, <3>2
  <2>2. CASE i = Len(x)
    <3>1. i \in 1 .. Len(x) /\ i <= Len(x)
      BY <1>2, <2>2
    <3>2. z[i] = x[i] /\ Fits(z[i], t) /\ z[i].to = b
      BY <1>2, <1>5, <2>2, <3>1
    <3>3. CASE Len(y) = 0
      BY <1>2, <1>4, <2>2, <3>2, <3>3
    <3>4. CASE Len(y) # 0
      <4>1. i # Len(z) /\ i + 1 \in 1 .. Len(z) /\ ~(i + 1 <= Len(x)) /\ (i + 1) - Len(x) = 1
        BY <1>2, <2>2, <3>4
      <4>2. z[i + 1] = y[1]
        BY <1>2, <4>1
      <4> QED
        BY <1>4, <3>2, <3>4, <4>1, <4>2
    <3> QED
      BY <3>3, <3>4
  <2>3. CASE i > Len(x)
    <3> DEFINE j == i - Len(x)
    <3>1. j \in 1 .. Len(y) /\ ~(i <= Len(x)) /\ (i = Len(z) <=> j = Len(y))
      BY <1>2, <2>3
    <3>2. z[i] = y[j]
      BY <1>2, <3>1
    <3>3. i # Len(z) => z[i + 1] = y[j + 1]
      <4>1. ASSUME i # Len(z) PROVE i + 1 \in 1 .. Len(z) /\ ~(i + 1 <= Len(x)) /\ (i + 1) - Len(x) = j + 1
        BY <1>2, <2>3, <4>1
      <4> HIDE DEF j
      <4> QED
        BY <1>2, <4>1
    <3> HIDE DEF j
    <3> QED
      BY <1>5, <3>1, <3>2, <3>3
  <2> QED
    BY <1>2, <2>1, <2>2, <2>3
<1> QED
    BY <1>1, <1>2, <1>3, <1>6, <1>7, <1>8 DEF Spans, z

\* The rest of a span
LEMMA SpansRest ==
    ASSUME NEW todo, NEW a, NEW b, NEW t, Spans(todo, a, b, t), todo # <<>>
    PROVE  /\ Fits(Head(todo), t) /\ Low(Head(todo)) = a /\ Head(todo).to \in Nat
           /\ a <= Head(todo).to
           /\ Spans(Tail(todo), Head(todo).to, b, t)
<1> DEFINE rest == Tail(todo)
           s == Head(todo)
<1>1. todo \in Seq(Statements) /\ a \in Nat /\ b \in Nat /\ Low(todo[1]) = a
    BY DEF Spans
<1>2. /\ rest \in Seq(Statements) /\ Len(todo) \in Nat \ {0} /\ Len(rest) = Len(todo) - 1
      /\ s = todo[1] /\ \A i \in 1 .. Len(rest) : rest[i] = todo[i + 1]
    BY <1>1
<1>3. rest = <<>> <=> Len(rest) = 0
    BY <1>2
<1> HIDE DEF rest, s
<1>4. \A i \in 1 .. Len(todo) : Fits(todo[i], t) /\ todo[i].to = IF i = Len(todo) THEN b ELSE Low(todo[i + 1])
    BY DEF Spans
<1>5. 1 \in 1 .. Len(todo)
    BY <1>2
<1>6. Fits(s, t) /\ Low(s) = a /\ s.to = IF 1 = Len(todo) THEN b ELSE Low(todo[1 + 1])
    BY <1>1, <1>2, <1>4, <1>5
<1>7. s.to \in Nat /\ a <= s.to
    BY <1>6, EffectiveSourceAssumption DEF Fits, Statements
<1>8. rest = <<>> => s.to = b
    BY <1>2, <1>3, <1>6
<1>9. rest # <<>> => Low(rest[1]) = s.to
  <2>1. ASSUME rest # <<>> PROVE 1 \in 1 .. Len(rest) /\ 1 # Len(todo)
    BY <1>2, <1>3, <2>1
  <2> QED
    BY <1>2, <1>6, <2>1
<1>10. ASSUME NEW i \in 1 .. Len(rest)
       PROVE  Fits(rest[i], t) /\ rest[i].to = IF i = Len(rest) THEN b ELSE Low(rest[i + 1])
  <2>1. i + 1 \in 1 .. Len(todo) /\ (i = Len(rest) <=> i + 1 = Len(todo))
    BY <1>2
  <2>2. i # Len(rest) => rest[i + 1] = todo[(i + 1) + 1]
    BY <1>2
  <2> QED
    BY <1>2, <1>4, <2>1, <2>2
<1> QED
    BY <1>1, <1>2, <1>6, <1>7, <1>8, <1>9, <1>10 DEF Spans, s, rest

\* A period: its kind of statements, its bounds, and where its evidence begins
LEMMA PeriodShape ==
    ASSUME NEW t \in 0 .. MaxTime, NEW label \in PeriodLabels
    PROVE  LET p == ResolvePeriod(label, t)
               start == TimeOr(p.start, 0)
           IN  /\ p.label = label /\ p.end = t /\ start \in 0 .. t
               /\ label = "rolling7" => start = Before(t, RollingLength) /\ start = p.start
               /\ p.grain = "hour" <=> label = "today"
               /\ label = "today" => (start \div DayLength) * DayLength = start
<1> USE EffectiveSourceAssumption, QueriesAssumption
<1> DEFINE p == ResolvePeriod(label, t)
           unit == CalendarUnit(label)
           start == (t \div unit) * unit
<1>1. t \in Nat /\ \A n \in Nat : n # NoTime
    OBVIOUS
<1>2. unit \in Nat \ {0}
    BY DEF CalendarUnit
<1> HIDE DEF unit
<1>3. start \in Nat /\ start <= t
    BY <1>1, <1>2, RoundsDown
<1>4. \A length \in Nat : Before(t, length) \in Nat /\ Before(t, length) <= t
    BY <1>1 DEF Before
<1>5. CASE label \in {"today", "week"}
  <2> HIDE DEF start
  <2>1. p = CalendarPeriod(label, t)
    BY <1>5 DEF ResolvePeriod
  <2>2. /\ p.label = label /\ p.start = start /\ p.end = t
        /\ p.grain = IF label = "today" THEN "hour" ELSE "day"
    BY <2>1 DEF CalendarPeriod, start, unit
  <2>3. label = "today" => (start \div DayLength) * DayLength = start
    <3>1. ASSUME label = "today" PROVE unit = DayLength
      BY <3>1 DEF unit, CalendarUnit
    <3>2. (t \div DayLength) \in Nat
      BY <1>1, RoundsDown
    <3> QED
      BY <3>1, <3>2, RoundedMultiple DEF start
  <2>4. TimeOr(p.start, 0) = start
    BY <1>1, <1>3, <2>2 DEF TimeOr
  <2> QED
    BY <1>3, <1>5, <2>2, <2>3, <2>4
<1>6. CASE label \in {"rolling7", "rolling30"}
  <2> DEFINE length == IF label = "rolling7" THEN RollingLength ELSE LongLength
  <2>1. p = RollingPeriod(label, t)
    BY <1>6 DEF ResolvePeriod
  <2>2. p.label = label /\ p.start = Before(t, length) /\ p.end = t /\ p.grain = "day"
    BY <2>1 DEF RollingPeriod
  <2>3. length \in Nat
    OBVIOUS
  <2> HIDE DEF length
  <2>4. TimeOr(p.start, 0) = Before(t, length) /\ Before(t, length) \in 0 .. t
    BY <1>1, <1>4, <2>2, <2>3 DEF TimeOr
  <2>5. label = "rolling7" => length = RollingLength
    BY DEF length
  <2> QED
    BY <1>6, <2>2, <2>4, <2>5
<1>7. CASE label = "lifetime"
  <2>1. p.label = label /\ p.start = NoTime /\ p.end = t /\ p.grain = "month"
    BY <1>7 DEF ResolvePeriod
  <2> QED
    BY <1>1, <1>7, <2>1 DEF TimeOr
<1> QED
    BY <1>5, <1>6, <1>7 DEF PeriodLabels

\* One window of raw rows or of hours, if it is not empty
LEMMA ReadingSpans ==
    ASSUME NEW t \in 0 .. MaxTime, NEW table \in {"raw", "hour"}, NEW a \in 0 .. t, NEW b \in 0 .. t, a <= b,
           Before(t, RollingLength) <= a,
           table = "hour" /\ a < b => Hour(a) * HourLength = a /\ Hour(b) * HourLength = b
    PROVE  Spans(Reading(table, a, b), a, b, t)
<1> USE EffectiveSourceAssumption
<1>1. CASE a < b
  <2> DEFINE s == Statement(table, a, b)
  <2>1. s.table = table /\ s.from = a /\ s.to = b /\ s \in Statements
    BY <1>1 DEF Statement, Statements
  <2> HIDE DEF s
  <2>2. Low(s) = a /\ Fits(s, t)
    BY <1>1, <2>1 DEF Low, Fits
  <2>3. Spans(<<s>>, a, b, t)
    BY <2>1, <2>2, OneSpans
  <2> QED
    BY <1>1, <2>3 DEF Reading, s
<1>2. CASE ~(a < b)
    BY <1>2, NothingSpans DEF Reading
<1> QED
    BY <1>1, <1>2

\* Where the evidence of a period begins
WindowFrom(start) == IF PageLabel = "rolling7" THEN start ELSE Day(start) * DayLength

\* The statements of the rolling window
LEMMA WindowSpans ==
    ASSUME NEW t \in 0 .. MaxTime, NEW a \in 0 .. t, Before(t, RollingLength) <= a
    PROVE  Spans(ExactHourWindow(a, t), a, t, t)
<1> USE EffectiveSourceAssumption
<1> DEFINE first == Min({CeilHour(a), t})
           last  == Max({FloorHour(t), first})
<1>1. a \in Nat /\ t \in Nat /\ HourLength \in Nat \ {0}
    OBVIOUS
<1>2. /\ FloorHour(t) \in Nat /\ FloorHour(t) <= t /\ Hour(FloorHour(t)) * HourLength = FloorHour(t)
      /\ FloorHour(a) \in Nat /\ FloorHour(a) <= a /\ Hour(FloorHour(a)) * HourLength = FloorHour(a)
      /\ a < FloorHour(a) + HourLength
  <2>1. t \div HourLength \in Nat /\ a \div HourLength \in Nat
    BY <1>1, RoundsDown
  <2> QED
    BY <1>1, <2>1, RoundsDown, RoundedMultiple DEF FloorHour, Hour
<1>3. CeilHour(a) \in Nat /\ a <= CeilHour(a) /\ Hour(CeilHour(a)) * HourLength = CeilHour(a)
  <2>1. CASE a = FloorHour(a)
    BY <1>1, <1>2, <2>1 DEF CeilHour
  <2>2. CASE a # FloorHour(a)
    <3>1. CeilHour(a) = FloorHour(a) + HourLength
      BY <2>2 DEF CeilHour
    <3>2. a \div HourLength \in Nat
      BY <1>1, RoundsDown
    <3>3. FloorHour(a) + HourLength = (a \div HourLength + 1) * HourLength
      BY <1>1, <3>2 DEF FloorHour, Hour
    <3>4. ((a \div HourLength + 1) * HourLength) \div HourLength = a \div HourLength + 1
      BY <1>1, <3>2, RoundedMultiple
    <3> QED
      BY <1>1, <1>2, <3>1, <3>3, <3>4 DEF Hour
  <2> QED
    BY <2>1, <2>2
<1>4. first = IF CeilHour(a) <= t THEN CeilHour(a) ELSE t
    BY <1>1, <1>3, MinMaxOfTwo
<1> HIDE DEF first
<1>5. first \in Nat /\ a <= first /\ first <= t
    BY <1>1, <1>3, <1>4
<1>6. last = IF FloorHour(t) >= first THEN FloorHour(t) ELSE first
    BY <1>2, <1>5, MinMaxOfTwo
<1> HIDE DEF last
<1>7. last \in Nat /\ first <= last /\ last <= t
    BY <1>2, <1>5, <1>6
<1>8. first < last => Hour(first) * HourLength = first /\ Hour(last) * HourLength = last
    BY <1>1, <1>2, <1>3, <1>4, <1>5, <1>6
<1>9. Before(t, RollingLength) <= first /\ Before(t, RollingLength) <= last
  <2>1. Before(t, RollingLength) \in Int
    BY QueriesAssumption DEF Before
  <2> QED
    BY <1>1, <1>5, <1>7, <2>1
<1>10. /\ Spans(Reading("raw", a, first), a, first, t)
       /\ Spans(Reading("hour", first, last), first, last, t)
       /\ Spans(Reading("raw", last, t), last, t, t)
  <2>1. first \in 0 .. t /\ last \in 0 .. t /\ t \in 0 .. t
    BY <1>1, <1>5, <1>7
  <2> QED
    BY <1>5, <1>7, <1>8, <1>9, <2>1, ReadingSpans
<1>11. Spans(Reading("raw", a, first) \o Reading("hour", first, last) \o Reading("raw", last, t), a, t, t)
    BY <1>10, SpansJoin
<1> QED
    BY <1>11 DEF ExactHourWindow, first, last

\* The statements of the page's period cover its evidence to the present.
LEMMA StatementsSpan ==
    ASSUME NEW t \in 0 .. MaxTime
    PROVE  LET p == ResolvePeriod(PageLabel, t)
               low == WindowFrom(TimeOr(p.start, 0))
           IN  Spans(StatementsOf(p), low, t, t) /\ low \in 0 .. t
<1> USE EffectiveSourceAssumption
<1> DEFINE p == ResolvePeriod(PageLabel, t)
           start == TimeOr(p.start, 0)
<1>1. /\ p.label = PageLabel /\ p.end = t /\ start \in 0 .. t
      /\ PageLabel = "rolling7" => start = Before(t, RollingLength) /\ start = p.start
      /\ p.grain = "hour" <=> PageLabel = "today"
      /\ PageLabel = "today" => (start \div DayLength) * DayLength = start
    BY PeriodShape, DashboardAssumption
<1> HIDE DEF p, start
<1>2. CASE PageLabel = "rolling7"
  <2>1. Before(t, RollingLength) <= start
    BY <1>1, <1>2
  <2>2. Spans(ExactHourWindow(start, t), start, t, t)
    BY <1>1, <2>1, WindowSpans
  <2>3. StatementsOf(p) = ExactHourWindow(start, t) /\ WindowFrom(start) = start
    BY <1>1, <1>2 DEF StatementsOf, WindowFrom
  <2> QED
    BY <1>1, <2>2, <2>3 DEF p, start
<1>3. ASSUME PageLabel # "rolling7", NEW table, table = IF PageLabel = "today" THEN "hour" ELSE "day"
      PROVE  Spans(<<Statement(table, start, t)>>, WindowFrom(start), t, t) /\ WindowFrom(start) \in 0 .. t
  <2> DEFINE s == Statement(table, start, t)
             low == WindowFrom(start)
  <2>1. s.table = table /\ s.from = start /\ s.to = t /\ s \in Statements
    BY <1>1, <1>3 DEF Statement, Statements
  <2>2. low = Day(start) * DayLength
    BY <1>3 DEF WindowFrom
  <2>3. low \in 0 .. t
    BY <1>1, <2>2, RoundsDown DEF Day
  <2>4. Low(s) = low
    BY <1>1, <1>3, <2>1, <2>2 DEF Low, Day
  <2> HIDE DEF s, low
  <2>5. table = "hour" => Hour(s.from) * HourLength = s.from
    <3> DEFINE k == start \div DayLength
               m == DayLength \div HourLength
    <3>1. ASSUME table = "hour" PROVE start = k * DayLength
      BY <1>1, <1>3, <3>1
    <3>2. k \in Nat /\ m \in Nat
      BY <1>1, RoundsDown
    <3>3. DayLength = m * HourLength
      OBVIOUS
    <3> HIDE DEF k, m
    <3>4. k * (m * HourLength) = (k * m) * HourLength /\ k * m \in Nat
      BY <3>2
    <3>5. ((k * m) * HourLength) \div HourLength = k * m
      BY <3>4, RoundedMultiple
    <3> QED
      BY <2>1, <3>1, <3>3, <3>4, <3>5 DEF Hour
  <2>6. table # "raw"
    BY <1>3
  <2>7. Fits(s, t)
    BY <2>1, <2>3, <2>4, <2>5, <2>6 DEF Fits
  <2>8. Low(s) \in Nat
    BY <2>3, <2>4
  <2>9. Spans(<<s>>, Low(s), s.to, t)
    BY <2>7, <2>8, OneSpans
  <2> QED
    BY <2>1, <2>3, <2>4, <2>9 DEF s, low
<1>4. ASSUME PageLabel # "rolling7"
      PROVE  StatementsOf(p) = <<Statement(IF PageLabel = "today" THEN "hour" ELSE "day", start, t)>>
    BY <1>1, <1>4 DEF StatementsOf, start
<1> QED
    BY <1>2, <1>3, <1>4 DEF p, start

-----------------------------------------------------------------------------
(* The evidence, and what a statement reads of it.                         *)

\* The evidence is in the past, and raw rows of the rolling window are kept.
EvidenceInv ==
    /\ sampled \subseteq Facts /\ raw \subseteq sampled /\ rebuilt \subseteq Facts
    /\ now \in FirstNow .. MaxTime
    /\ \A f \in sampled \cup rebuilt : f.time < now
    /\ \A f \in sampled : Before(now, RollingLength) <= f.time => f \in raw

PageFilter == FilterOf(PageQuery, "confirmed", NoTime, NoTime)

\* What the page's query counts of the evidence from a to b
Evident(a, b) == {f \in Evidence(a, b) : Matches(f, PageFilter)}

\* A window of whole units holds what lies in its units, if it ends with a unit or
\* nothing is later.
LEMMA WholeUnits ==
    ASSUME NEW n \in Nat \ {0}, NEW from \in Nat, NEW to \in Nat, NEW t \in Nat,
           t < to \/ (to \div n) * n = to
    PROVE  to > 0 /\ t \div n \in (from \div n) .. ((to - 1) \div n)
              <=> (from \div n) * n <= t /\ t < to
<1> DEFINE q == t \div n
           p == from \div n
           e == (to - 1) \div n
<1>1. q \in Nat /\ q * n <= t /\ t < q * n + n /\ p \in Nat
    BY RoundsDown
<1>2. CASE to = 0
    BY <1>2
<1>3. CASE to # 0
  <2>1. to - 1 \in Nat
    BY <1>3
  <2>2. e \in Nat /\ e * n <= to - 1 /\ to - 1 < e * n + n
    BY <2>1, RoundsDown
  <2>3. q <= e <=> t < to
    <3>1. ASSUME t < to PROVE q <= e
      <4> HIDE DEF q, e
      <4> SUFFICES ASSUME e + 1 <= q PROVE FALSE
        BY <1>1, <2>2
      <4>1. (e + 1) * n <= q * n
        BY <1>1, <2>2
      <4>2. (e + 1) * n = e * n + n
        BY <2>2
      <4> QED
        BY <1>1, <2>2, <3>1, <4>1, <4>2
    <3>2. ASSUME q <= e, ~(t < to) PROVE FALSE
      <4> DEFINE k == to \div n
      <4>1. k * n = to /\ k \in Nat
        BY <3>2, RoundsDown
      <4> HIDE DEF q, e, k
      <4>2. k <= q
        <5> SUFFICES ASSUME q + 1 <= k PROVE FALSE
          BY <1>1, <4>1
        <5>1. (q + 1) * n <= k * n /\ (q + 1) * n = q * n + n
          BY <1>1, <4>1
        <5> QED
          BY <1>1, <3>2, <4>1, <5>1
      <4>3. k * n <= e * n
        BY <1>1, <2>2, <3>2, <4>1, <4>2
      <4> QED
        BY <2>2, <4>1, <4>3
    <3> QED
      BY <3>1, <3>2
  <2>4. p <= q <=> p * n <= t
    <3> HIDE DEF q, p
    <3>1. ASSUME p <= q PROVE p * n <= q * n
      BY <1>1, <3>1
    <3>2. ASSUME ~(p <= q) PROVE q * n + n <= p * n
      <4>1. (q + 1) * n <= p * n /\ (q + 1) * n = q * n + n
        BY <1>1, <3>2
      <4> QED
        BY <4>1
    <3> QED
      BY <1>1, <3>1, <3>2
  <2>5. q \in p .. e <=> p <= q /\ q <= e
    BY <1>1, <2>2
  <2> QED
    BY <1>3, <2>3, <2>4, <2>5
<1> QED
    BY <1>2, <1>3

\* With a current choice the table of confirmed usage holds the evidence.
LEMMA TableIsEvidence ==
    ASSUME choice = BestChoice
    PROVE  DailyTable("confirmed") =
              {f \in Confirmed(sampled) \cup rebuilt : BestChoice[KeyOf(f)] = f.source}
<1>1. \A f \in Confirmed(sampled) \cup rebuilt : KeyOf(f) \in DOMAIN choice
    BY DEF BestChoice
<1> QED
    BY <1>1 DEF DailyTable, Chosen

\* The raw table holds the part of it that compaction keeps.
LEMMA RawIsEvidence ==
    ASSUME EvidenceInv, NEW f, f.time \in Int, Before(now, RollingLength) <= f.time
    PROVE  f \in RawTable("confirmed") <=> f \in DailyTable("confirmed")
<1>1. f \in Confirmed(raw) <=> f \in Confirmed(sampled)
    BY DEF EvidenceInv, Confirmed
<1> QED
    BY <1>1 DEF RawTable, DailyTable, Chosen

\* A statement reads the evidence of its window.
LEMMA ReadsEvidence ==
    ASSUME EvidenceInv, choice = BestChoice, NEW s, Fits(s, now)
    PROVE  ReadStatement(s, PageFilter) = Evident(Low(s), s.to)
<1> USE EffectiveSourceAssumption, QueriesAssumption, DashboardAssumption
<1> DEFINE filter == Narrowed(PageFilter, s)
<1>1. /\ filter.quality = "confirmed" /\ filter.from = s.from /\ filter.to = s.to
      /\ filter.acct = PageFilter.acct /\ filter.proj = PageFilter.proj
      /\ PageFilter.quality = "confirmed"
    BY DEF Narrowed, PageFilter, FilterOf
<1> HIDE DEF filter
<1>2. \A f : Matches(f, filter) <=> Matches(f, PageFilter)
    BY <1>1 DEF Matches
<1>3. s.table \in {"raw", "hour", "day"} /\ s.from \in Nat /\ s.to \in Nat
    BY DEF Fits, Statements
<1>4. now \in Nat /\ \A f \in sampled \cup rebuilt : f.time \in Nat /\ f.time < now
    BY DEF EvidenceInv, Fact
<1> DEFINE E == {f \in Confirmed(sampled) \cup rebuilt : BestChoice[KeyOf(f)] = f.source}
<1>5. DailyTable("confirmed") = E /\ HourlyTable("confirmed") = E
    BY TableIsEvidence DEF HourlyTable
<1>6. \A f \in E : f.time \in Nat /\ f.time < now
    BY <1>4 DEF Confirmed
<1>7. \A f : f \in Evident(Low(s), s.to) <=>
                f \in E /\ Low(s) <= f.time /\ f.time < s.to /\ Matches(f, PageFilter)
    BY DEF Evident, Evidence
<1> HIDE DEF E
<1>8. CASE s.table = "raw"
  <2>1. ReadStatement(s, PageFilter) =
           {f \in RawTable("confirmed") : Matches(f, filter) /\ s.from <= f.time /\ f.time < s.to}
    BY <1>1, <1>8 DEF ReadStatement, AggregateUsage, BuildFilter, WithinExactly, filter
  <2>2. Low(s) = s.from /\ Before(now, RollingLength) <= s.from
    BY <1>8 DEF Low, Fits
  <2>3. Before(now, RollingLength) \in Int
    BY <1>4 DEF Before
  <2>4. ASSUME NEW f PROVE f \in ReadStatement(s, PageFilter) <=> f \in Evident(Low(s), s.to)
    <3>1. RawTable("confirmed") \subseteq E
      <4>1. Confirmed(raw) \subseteq Confirmed(sampled)
        BY DEF EvidenceInv, Confirmed
      <4> QED
        BY <4>1, <1>5 DEF RawTable, DailyTable, Chosen
    <3>2. ASSUME f \in E, s.from <= f.time PROVE f \in RawTable("confirmed")
      <4>1. f.time \in Int /\ Before(now, RollingLength) <= f.time
        BY <1>3, <1>6, <2>2, <2>3, <3>2
      <4> QED
        BY <1>5, <3>2, <4>1, RawIsEvidence
    <3>3. f \in ReadStatement(s, PageFilter) <=>
             f \in RawTable("confirmed") /\ Matches(f, filter) /\ s.from <= f.time /\ f.time < s.to
      BY <2>1
    <3>4. f \in Evident(Low(s), s.to) <=>
             f \in E /\ s.from <= f.time /\ f.time < s.to /\ Matches(f, filter)
      BY <1>2, <1>7, <2>2
    <3>5. f \in RawTable("confirmed") /\ s.from <= f.time <=> f \in E /\ s.from <= f.time
      BY <3>1, <3>2
    <3> QED
      BY <3>3, <3>4, <3>5
  <2> QED
    BY ONLY <2>4, Zenon
<1>9. CASE s.table = "hour"
  <2>1. ReadStatement(s, PageFilter) = {f \in E : Matches(f, filter) /\ WithinHours(f.time, filter)}
    BY <1>1, <1>5, <1>9 DEF ReadStatement, AggregateHourlyUsage, BuildHourlyFilter, filter
  <2>2. /\ Low(s) = s.from /\ (s.from \div HourLength) * HourLength = s.from
        /\ s.to = now \/ (s.to \div HourLength) * HourLength = s.to
    BY <1>9 DEF Low, Fits, Hour
  <2>3. ASSUME NEW f \in E PROVE WithinHours(f.time, filter) <=> Low(s) <= f.time /\ f.time < s.to
    <3> DEFINE t == f.time
    <3>1. t \in Nat /\ (t < s.to \/ (s.to \div HourLength) * HourLength = s.to)
      BY <1>6, <2>2
    <3> HIDE DEF t
    <3>2. s.to > 0 /\ t \div HourLength \in (s.from \div HourLength) .. ((s.to - 1) \div HourLength)
              <=> (s.from \div HourLength) * HourLength <= t /\ t < s.to
      BY <1>3, <3>1, WholeUnits
    <3> QED
      BY <1>1, <2>2, <3>2 DEF WithinHours, Hour, t
  <2> QED
    BY <1>2, <1>7, <2>1, <2>3
<1>10. CASE s.table = "day"
  <2>1. ReadStatement(s, PageFilter) = {f \in E : Matches(f, filter) /\ WithinDays(f.time, filter)}
    BY <1>1, <1>5, <1>10 DEF ReadStatement, AggregateRollupUsage, BuildRollupFilter, filter
  <2>2. Low(s) = (s.from \div DayLength) * DayLength /\ s.to = now
    BY <1>10 DEF Low, Fits, Day
  <2>3. ASSUME NEW f \in E PROVE WithinDays(f.time, filter) <=> Low(s) <= f.time /\ f.time < s.to
    <3> DEFINE t == f.time
    <3>1. t \in Nat /\ t < s.to
      BY <1>6, <2>2
    <3> HIDE DEF t
    <3>2. s.to > 0 /\ t \div DayLength \in (s.from \div DayLength) .. ((s.to - 1) \div DayLength)
              <=> (s.from \div DayLength) * DayLength <= t /\ t < s.to
      BY <1>3, <3>1, WholeUnits
    <3> QED
      BY <1>1, <2>2, <3>2 DEF WithinDays, Day, t
  <2> QED
    BY <1>2, <1>7, <2>1, <2>3
<1> QED
    BY <1>3, <1>8, <1>9, <1>10

\* Two windows that meet
LEMMA EvidentJoin ==
    ASSUME EvidenceInv, NEW a \in Nat, NEW b \in Nat, NEW c \in Nat, a <= b, b <= c
    PROVE  /\ Tokens(Evident(a, c)) = Tokens(Evident(a, b)) + Tokens(Evident(b, c))
           /\ Tokens(Evident(b, c)) \in Nat
<1>1. \A f \in Confirmed(sampled) \cup rebuilt : f.time \in Nat /\ f \in Facts
    BY EffectiveSourceAssumption DEF EvidenceInv, Confirmed, Fact
<1>2. Evident(a, b) \in SUBSET Facts /\ Evident(b, c) \in SUBSET Facts
    BY <1>1 DEF Evident, Evidence
<1>3. Evident(a, c) = Evident(a, b) \cup Evident(b, c) /\ Evident(a, b) \cap Evident(b, c) = {}
    BY <1>1 DEF Evident, Evidence
<1> QED
    BY <1>2, <1>3, TokensAdd

\* An empty window holds nothing.
LEMMA EvidentNothing ==
    ASSUME EvidenceInv, NEW a \in Nat
    PROVE  Tokens(Evident(a, a)) = 0
<1>1. \A f \in Confirmed(sampled) \cup rebuilt : f.time \in Nat
    BY EffectiveSourceAssumption DEF EvidenceInv, Confirmed, Fact
<1>2. Evident(a, a) = {}
    BY <1>1 DEF Evident, Evidence
<1> QED
    BY <1>2, NoTokens

-----------------------------------------------------------------------------
(* How the evidence changes.                                               *)

\* At the beginning there is no evidence.
LEMMA EvidenceInit == Init => EvidenceInv
  BY DashboardAssumption DEF Init, EvidenceInv

\* Every step keeps EvidenceInv: samples come with their raw rows, and only
\* compaction removes those, past the rolling window, which the clock makes shorter.
LEMMA EvidenceNext ==
    ASSUME EvidenceInv, [Next]_vars
    PROVE  EvidenceInv'
<1> USE DEF EvidenceInv
<1>1. ASSUME NEW batch \in Batches, Ingest(batch) PROVE EvidenceInv'
  <2>1. /\ sampled' = sampled \cup batch /\ raw' = raw \cup batch /\ rebuilt' = rebuilt /\ now' = now
        /\ \A f \in batch : f.time < now
    BY <1>1 DEF Ingest, InsertSamples
  <2>2. batch \subseteq Facts
    BY DashboardAssumption
  <2> QED
    BY <2>1, <2>2
<1>2. ASSUME NEW batch \in RebuiltBatches, Rebuild(batch) PROVE EvidenceInv'
  <2>1. /\ sampled' = sampled /\ raw' = raw /\ rebuilt' = rebuilt \cup batch /\ now' = now
        /\ \A f \in batch : f.time < now
    BY <1>2 DEF Rebuild, InsertRebuilt
  <2>2. batch \subseteq Facts
    BY DashboardAssumption
  <2> QED
    BY <2>1, <2>2
<1>3. ASSUME NEW thread \in Threads, Withdraw(thread) PROVE EvidenceInv'
  <2>1. sampled' = sampled /\ raw' = raw /\ rebuilt' \subseteq rebuilt /\ now' = now
    BY <1>3 DEF Withdraw, WithdrawRebuilt
  <2> QED
    BY <2>1
<1>4. CASE Compact
  <2>1. /\ sampled' = sampled /\ rebuilt' = rebuilt /\ now' = now
        /\ raw' = {f \in raw : f.time >= Before(now, RollingLength)}
    BY <1>4 DEF Compact, CompactRaw
  <2>2. \A f \in sampled : f.time \in Nat
    BY EffectiveSourceAssumption DEF Fact
  <2>3. now \in Nat /\ Before(now, RollingLength) \in Int
    BY DashboardAssumption, EffectiveSourceAssumption, QueriesAssumption DEF Before
  <2>4. ASSUME NEW f \in sampled, Before(now, RollingLength) <= f.time PROVE f \in raw'
    BY <2>1, <2>2, <2>3, <2>4
  <2> QED
    BY <2>1, <2>4
<1>5. CASE PassTime
  <2>1. UNCHANGED <<sampled, raw, rebuilt>> /\ now' = now + 1 /\ now < MaxTime
    BY <1>5 DEF PassTime, tables
  <2>2. now \in Nat /\ MaxTime \in Nat /\ FirstNow \in Nat /\ RollingLength \in Nat
    BY DashboardAssumption, EffectiveSourceAssumption, QueriesAssumption
  <2>3. Before(now, RollingLength) \in Nat /\ Before(now + 1, RollingLength) \in Nat
        /\ Before(now, RollingLength) <= Before(now + 1, RollingLength)
    BY <2>2 DEF Before
  <2>4. \A f \in sampled \cup rebuilt : f.time \in Nat
    BY EffectiveSourceAssumption DEF Fact
  <2>5. \A f \in sampled \cup rebuilt : f.time < now'
    BY <2>1, <2>2, <2>4
  <2>6. ASSUME NEW f \in sampled, Before(now', RollingLength) <= f.time PROVE f \in raw
    BY <2>1, <2>3, <2>4, <2>6
  <2>7. now' \in FirstNow .. MaxTime
    BY <2>1, <2>2
  <2> QED
    BY <2>1, <2>5, <2>6, <2>7
<1>6. ASSUME UNCHANGED <<sampled, raw, rebuilt, now>> PROVE EvidenceInv'
    BY <1>6
<1>7. ASSUME \/ \E rows \in Scans : Scan(rows)
             \/ \E answer \in Answers : StoreOfficial(answer)
             \/ \E n \in Counts : Confirm(n)
             \/ OtherReader \/ UNCHANGED vars
      PROVE  UNCHANGED <<sampled, raw, rebuilt, now>>
    BY <1>7 DEF Scan, SyncCatalog, StoreOfficial, Confirm, OtherReader, Refresh, vars, views, tables
<1>8. ASSUME Page PROVE UNCHANGED <<sampled, raw, rebuilt, now>>
    BY <1>8 DEF Page, OpenPage, Navigate, TimerFires, PostReturns, Post, Change, PostStores, PostFails,
                Invalidate, Tick, tables
<1>9. ASSUME Serve PROVE UNCHANGED <<sampled, raw, rebuilt, now>>
    BY <1>9 DEF Serve, Start, RefreshFirst, Read, Finish, Fail, Deliver, Refresh, tables
<1> QED
    BY <1>1, <1>2, <1>3, <1>4, <1>5, <1>6, <1>7, <1>8, <1>9 DEF Next, Write

-----------------------------------------------------------------------------
(* Types of the page, the cache and the requests.                          *)

\* A request that is updated field by field: answered from the cache
LEMMA RequestHits ==
    ASSUME NEW q \in Request, NEW answer \in Answer
    PROVE  LET n == [q EXCEPT !.phase = "done", !.answer = answer]
           IN  /\ n \in Request
               /\ n.phase = "done" /\ n.period = q.period /\ n.todo = q.todo /\ n.refreshed = q.refreshed
               /\ n.answer = answer /\ n.disturbed = q.disturbed
  BY DEF Request

\* ... answered when its statements are read
LEMMA RequestFinishes ==
    ASSUME NEW q \in Request, NEW v \in 0 .. MaxWrites
    PROVE  LET n == [q EXCEPT !.phase = "done", !.answer.version = v]
           IN  /\ n \in Request
               /\ n.phase = "done" /\ n.refreshed = q.refreshed
<1> DEFINE b == [q.answer EXCEPT !.version = v]
           n == [q EXCEPT !.phase = "done", !.answer = b]
<1>1. b \in Answer
    BY DEF Request, Answer
<1> HIDE DEF b
<1>2. n \in Request /\ n.phase = "done" /\ n.refreshed = q.refreshed
    BY <1>1 DEF Request
<1>3. n = [q EXCEPT !.phase = "done", !.answer.version = v]
    BY DEF n, b
<1> QED
    BY <1>2, <1>3

\* ... refreshed, or disturbed by a write
LEMMA RequestSets ==
    ASSUME NEW q \in Request, NEW x \in BOOLEAN
    PROVE  /\ LET n == [q EXCEPT !.refreshed = x]
              IN  /\ n \in Request
                  /\ n.phase = q.phase /\ n.period = q.period /\ n.todo = q.todo /\ n.refreshed = x
                  /\ n.answer = q.answer /\ n.disturbed = q.disturbed
           /\ LET n == [q EXCEPT !.disturbed = x]
              IN  /\ n \in Request
                  /\ n.phase = q.phase /\ n.period = q.period /\ n.todo = q.todo /\ n.refreshed = q.refreshed
                  /\ n.answer = q.answer /\ n.disturbed = x
  BY DEF Request

\* The request that a step changes, as a record with other fields
LEMMA RequestUpdates ==
    ASSUME requests \in [Slots -> Request], NEW s \in Slots
    PROVE  LET q == requests[s]
               p == ResolvePeriod(PageLabel, now)
           IN  /\ RefreshFirst(s) => requests' = [requests EXCEPT ![s] = [q EXCEPT !.refreshed = TRUE]]
               /\ Finish(s) =>
                     requests' = [requests EXCEPT ![s] = [q EXCEPT !.phase = "done", !.answer.version = writes]]
               /\ Start(s) /\ cache # None =>
                     requests' = [requests EXCEPT ![s] = [q EXCEPT !.phase = "done", !.answer = cache.answer]]
               /\ Start(s) /\ cache = None =>
                     requests' = [requests EXCEPT ![s] =
                        [q EXCEPT !.phase = "reading", !.period = [start |-> TimeOr(p.start, 0), end |-> p.end],
                                  !.todo = StatementsOf(p)]]
<1>1. ASSUME RefreshFirst(s)
      PROVE  requests' = [requests EXCEPT ![s] = [requests[s] EXCEPT !.refreshed = TRUE]]
      BY <1>1 DEF RefreshFirst
<1>2. ASSUME Finish(s)
      PROVE  requests' = [requests EXCEPT ![s] =
                             [requests[s] EXCEPT !.phase = "done", !.answer.version = writes]]
    BY <1>2 DEF Finish
<1>3. ASSUME Start(s), cache # None
      PROVE  requests' = [requests EXCEPT ![s] = [requests[s] EXCEPT !.phase = "done", !.answer = cache.answer]]
    BY <1>3 DEF Start
<1> DEFINE p == ResolvePeriod(PageLabel, now)
<1>4. ASSUME Start(s), cache = None
      PROVE  requests' = [requests EXCEPT ![s] =
                [requests[s] EXCEPT !.phase = "reading", !.period = [start |-> TimeOr(p.start, 0), end |-> p.end],
                                    !.todo = StatementsOf(p)]]
    BY <1>4 DEF Start
<1> QED
    BY <1>1, <1>2, <1>3, <1>4

\* The same of a statement that is read
LEMMA ReadUpdates ==
    ASSUME requests \in [Slots -> Request], NEW s \in Slots, Read(s)
    PROVE  LET q == requests[s]
           IN  requests' = [requests EXCEPT ![s] =
                  [q EXCEPT !.todo = Tail(q.todo), !.refreshed = FALSE,
                            !.answer = [q.answer EXCEPT !.sum =
                                q.answer.sum + Tokens(ReadStatement(Head(q.todo), PageFilter))]]]
<1> DEFINE n == Tokens(ReadStatement(Head(requests[s].todo), PageFilter))
<1>1. requests' = [requests EXCEPT ![s].todo = Tail(@), ![s].refreshed = FALSE, ![s].answer.sum = @ + n]
    BY DEF Read, PageFilter
<1> HIDE DEF n
<1>2. requests' = [requests EXCEPT ![s] =
                      [requests[s] EXCEPT !.todo = Tail(requests[s].todo), !.refreshed = FALSE,
                                          !.answer = [requests[s].answer EXCEPT !.sum = requests[s].answer.sum + n]]]
    BY <1>1
<1> QED
    BY <1>2 DEF n

\* Only a request that has a statement before it has refreshed for it.
RequestsOK ==
    /\ writes \in 0 .. MaxWrites /\ requests \in [Slots -> Request]
    /\ \A s \in Slots : requests[s].refreshed => requests[s].phase = "reading" /\ requests[s].todo # <<>>
    /\ cache \in {None} \cup [age : 1 .. CacheTtl, answer : Answer]

\* A page that has last seen the revision seen
PageState(seen) ==
    [open : BOOLEAN, fetch : Slots \cup {None}, fetches : 0 .. MaxFetches, shown : Answer \cup {None},
     seen : {seen}, wanted : 0 .. MaxWrites, due : 0 .. MaxWrites \cup {None},
     timer : 0 .. Debounce \cup {None}, post : {None, "official", "count", "stored", "answered"}]

PageOK == client \in PageState(client.seen)

\* A free slot is a request.
LEMMA IdleType == Idle \in Request /\ Idle.phase = "idle" /\ Idle.refreshed = FALSE
<1>1. 0 \in 0 .. MaxWrites
    BY DashboardAssumption
<1>2. <<>> \in Seq(Statements)
    OBVIOUS
<1> QED
    BY <1>1, <1>2 DEF Idle, Request, Answer

\* At the beginning nothing is asked and the page is closed.
LEMMA RequestsInit == Init => RequestsOK /\ PageOK
<1> SUFFICES ASSUME Init PROVE RequestsOK /\ PageOK
    OBVIOUS
<1>1. RequestsOK
    BY IdleType, DashboardAssumption DEF Init, RequestsOK
<1>2. PageOK
    BY DashboardAssumption DEF Init, PageOK, PageState, Closed
<1> QED
    BY <1>1, <1>2

\* What any statement reads are facts.
LEMMA ReadsFacts ==
    ASSUME EvidenceInv, NEW s \in Statements
    PROVE  Tokens(ReadStatement(s, PageFilter)) \in Nat
<1>1. sampled \subseteq Facts /\ raw \subseteq Facts /\ rebuilt \subseteq Facts
    BY DEF EvidenceInv
<1>2. \A quality : RawTable(quality) \subseteq Facts /\ DailyTable(quality) \subseteq Facts
    BY <1>1 DEF RawTable, DailyTable, Chosen, Confirmed
<1>3. \A filter : BuildFilter(filter) \subseteq Facts /\ BuildHourlyFilter(filter) \subseteq Facts
                  /\ BuildRollupFilter(filter) \subseteq Facts
    BY <1>2 DEF BuildFilter, BuildHourlyFilter, BuildRollupFilter, HourlyTable
<1>4. s.table \in {"raw", "hour", "day"}
    BY DEF Statements
<1>5. ReadStatement(s, PageFilter) \in SUBSET Facts
    BY <1>3, <1>4 DEF ReadStatement, AggregateUsage, AggregateHourlyUsage, AggregateRollupUsage
<1> QED
    BY <1>5, TokensType

\* One request changes and stays well formed.
LEMMA OneRequest ==
    ASSUME RequestsOK, NEW s \in Slots, NEW q \in Request,
           q.refreshed => q.phase = "reading" /\ q.todo # <<>>,
           requests' = [requests EXCEPT ![s] = q], UNCHANGED <<writes, cache>>
    PROVE  RequestsOK'
  BY DEF RequestsOK

\* A write disturbs the requests that are being read.
LEMMA WritesRequests ==
    ASSUME RequestsOK, Writes
    PROVE  /\ writes' \in 0 .. MaxWrites
           /\ requests' \in [Slots -> Request]
           /\ \A s \in Slots :
                 LET q == requests[s]
                     n == requests'[s]
                 IN  /\ n.phase = q.phase /\ n.period = q.period /\ n.todo = q.todo
                     /\ n.refreshed = q.refreshed /\ n.answer = q.answer
                     /\ n.disturbed = IF q.phase = "reading" THEN TRUE ELSE q.disturbed
<1>1. writes' \in 0 .. MaxWrites
  <2>1. writes' = writes + 1 /\ writes < IF client.open THEN MaxPageWrites ELSE MaxWrites
    BY DEF Writes
  <2>2. writes \in Nat /\ MaxPageWrites \in Nat /\ MaxWrites \in Nat /\ MaxPageWrites <= MaxWrites
    BY DashboardAssumption DEF RequestsOK
  <2> QED
    BY <2>1, <2>2
<1>2. requests' = [s \in Slots |-> IF requests[s].phase = "reading"
                                   THEN [requests[s] EXCEPT !.disturbed = TRUE] ELSE requests[s]]
    BY DEF Writes
<1>3. ASSUME NEW s \in Slots
      PROVE  LET q == requests[s]
                 n == requests'[s]
             IN  /\ n \in Request
                 /\ n.phase = q.phase /\ n.period = q.period /\ n.todo = q.todo
                 /\ n.refreshed = q.refreshed /\ n.answer = q.answer
                 /\ n.disturbed = IF q.phase = "reading" THEN TRUE ELSE q.disturbed
  <2>1. requests[s] \in Request /\ requests[s].disturbed \in BOOLEAN
    BY DEF RequestsOK, Request
  <2>2. requests'[s] = IF requests[s].phase = "reading" THEN [requests[s] EXCEPT !.disturbed = TRUE] ELSE requests[s]
    BY <1>2
  <2>3. CASE requests[s].phase = "reading"
    <3> DEFINE q == requests[s]
               n == [q EXCEPT !.disturbed = TRUE]
    <3>1. requests'[s] = n
      BY <2>2, <2>3
    <3>2. /\ n \in Request
          /\ n.phase = q.phase /\ n.period = q.period /\ n.todo = q.todo /\ n.refreshed = q.refreshed
          /\ n.answer = q.answer /\ n.disturbed = TRUE
      BY <2>1, RequestSets
    <3> HIDE DEF n
    <3> QED
      BY <2>3, <3>1, <3>2
  <2>4. CASE requests[s].phase # "reading"
    BY <2>1, <2>2, <2>4
  <2> QED
    BY <2>3, <2>4
<1>4. requests' \in [Slots -> Request]
    BY <1>2, <1>3
<1> QED
    BY <1>1, <1>3, <1>4

\* A write leaves the requests well formed, whether it clears the cache or not.
LEMMA WritesRequestsOK ==
    ASSUME RequestsOK, Writes, cache' \in {None, cache}
    PROVE  RequestsOK'
  BY WritesRequests DEF RequestsOK

\* A new fetch
LEMMA FetchingRequests ==
    ASSUME RequestsOK, NEW page, NEW s \in Slots, NEW due, Fetching(page, s, due), UNCHANGED <<writes, cache>>
    PROVE  /\ RequestsOK'
           /\ requests' = [requests EXCEPT ![s] = [Idle EXCEPT !.phase = "sent"]]
<1> DEFINE q == [Idle EXCEPT !.phase = "sent"]
<1>1. q \in Request /\ q.refreshed = FALSE
    BY IdleType DEF Request
<1>2. requests' = [requests EXCEPT ![s] = q]
    BY DEF Fetching
<1> HIDE DEF q
<1>3. RequestsOK'
    BY <1>1, <1>2, OneRequest
<1> QED
    BY <1>2, <1>3 DEF q

\* A request that misses the cache begins to read.
LEMMA StartMiss ==
    ASSUME RequestsOK, EvidenceInv, NEW s \in Slots, Start(s), cache = None
    PROVE  LET q == requests[s]
               p == ResolvePeriod(PageLabel, now)
           IN  \E n \in Request :
                  /\ requests' = [requests EXCEPT ![s] = n]
                  /\ n.phase = "reading" /\ n.period = [start |-> TimeOr(p.start, 0), end |-> p.end]
                  /\ n.todo = StatementsOf(p) /\ n.refreshed = q.refreshed
                  /\ n.answer = q.answer /\ n.disturbed = q.disturbed
<1> DEFINE p == ResolvePeriod(PageLabel, now)
           period == [start |-> TimeOr(p.start, 0), end |-> p.end]
           todo == StatementsOf(p)
           q == requests[s]
           n == [q EXCEPT !.phase = "reading", !.period = period, !.todo = todo]
<1>1. requests' = [requests EXCEPT ![s] = n]
    BY RequestUpdates DEF RequestsOK
<1>2. now \in 0 .. MaxTime
    BY DashboardAssumption DEF EvidenceInv
<1>3. todo \in Seq(Statements)
    BY <1>2, StatementsSpan DEF Spans
<1>4. period \in [start : 0 .. MaxTime, end : 0 .. MaxTime]
  <2>1. p.end = now /\ TimeOr(p.start, 0) \in 0 .. now
    BY <1>2, PeriodShape, DashboardAssumption
  <2> HIDE DEF p
  <2> QED
    BY <1>2, <2>1, EffectiveSourceAssumption
<1>5. q \in Request
    BY DEF RequestsOK
<1> HIDE DEF p, period, todo, q
<1>6. /\ n \in Request
      /\ n.phase = "reading" /\ n.period = period /\ n.todo = todo /\ n.refreshed = q.refreshed
      /\ n.answer = q.answer /\ n.disturbed = q.disturbed
    BY <1>3, <1>4, <1>5 DEF Request
<1> HIDE DEF n
<1>7. \E m \in Request :
         /\ requests' = [requests EXCEPT ![s] = m]
         /\ m.phase = "reading" /\ m.period = period /\ m.todo = todo /\ m.refreshed = q.refreshed
         /\ m.answer = q.answer /\ m.disturbed = q.disturbed
    BY <1>1, <1>6
<1> QED
    BY <1>7 DEF p, period, todo, q

\* A statement is read: its facts join the sum.
LEMMA ReadOne ==
    ASSUME RequestsOK, EvidenceInv, NEW s \in Slots, Read(s)
    PROVE  LET q == requests[s]
           IN  \E n \in Request :
                  /\ requests' = [requests EXCEPT ![s] = n]
                  /\ n.phase = q.phase /\ n.period = q.period /\ n.todo = Tail(q.todo)
                  /\ n.refreshed = FALSE /\ n.disturbed = q.disturbed
                  /\ n.answer.sum = q.answer.sum + Tokens(ReadStatement(Head(q.todo), PageFilter))
<1> DEFINE q == requests[s]
           sum == q.answer.sum + Tokens(ReadStatement(Head(q.todo), PageFilter))
           todo == Tail(q.todo)
           b == [q.answer EXCEPT !.sum = sum]
           n == [q EXCEPT !.todo = todo, !.refreshed = FALSE, !.answer = b]
<1>1. requests' = [requests EXCEPT ![s] = n]
    BY ReadUpdates DEF RequestsOK
<1>2. q \in Request /\ q.todo # <<>>
  <2>1. q \in Request /\ q.refreshed
    BY DEF Read, RequestsOK
  <2> QED
    BY <2>1 DEF RequestsOK
<1>3. q.todo \in Seq(Statements) /\ q.answer \in Answer /\ q.answer.sum \in Nat
    BY <1>2 DEF Request, Answer
<1>4. todo \in Seq(Statements) /\ Head(q.todo) \in Statements
    BY <1>2, <1>3
<1>5. sum \in Nat
  <2>1. Tokens(ReadStatement(Head(q.todo), PageFilter)) \in Nat
    BY <1>4, ReadsFacts
  <2> QED
    BY <1>3, <2>1
<1> HIDE DEF q, sum, todo
<1>6. b \in Answer /\ b.sum = sum
    BY <1>3, <1>5 DEF Answer
<1> HIDE DEF b
<1>7. /\ n \in Request /\ n.phase = q.phase /\ n.period = q.period /\ n.todo = todo
      /\ n.refreshed = FALSE /\ n.answer = b /\ n.disturbed = q.disturbed
    BY <1>2, <1>4, <1>6 DEF Request
<1> HIDE DEF n
<1>8. \E m \in Request :
         /\ requests' = [requests EXCEPT ![s] = m]
         /\ m.phase = q.phase /\ m.period = q.period /\ m.todo = todo
         /\ m.refreshed = FALSE /\ m.disturbed = q.disturbed /\ m.answer.sum = sum
    BY <1>1, <1>6, <1>7
<1> QED
    BY <1>8 DEF q, sum, todo

\* The requests stay well formed.
LEMMA RequestsNext ==
    ASSUME RequestsOK, EvidenceInv, [Next]_vars
    PROVE  RequestsOK'
<1>1. ASSUME Write PROVE RequestsOK'
  <2>1. Writes /\ cache' \in {None, cache}
    BY <1>1 DEF Write, Ingest, Rebuild, Withdraw, Scan, StoreOfficial, Confirm, Compact
  <2> QED
    BY <2>1, WritesRequestsOK
<1>2. ASSUME UNCHANGED <<writes, requests>>, cache' \in {None, cache} PROVE RequestsOK'
    BY <1>2 DEF RequestsOK
<1>3. ASSUME PassTime \/ OtherReader \/ UNCHANGED vars PROVE RequestsOK'
  <2>1. UNCHANGED <<writes, requests>> /\ cache' \in {None, cache}
    BY <1>3 DEF PassTime, OtherReader, vars, views
  <2> QED
    BY <2>1, <1>2
<1>4. ASSUME NEW s \in Free, OpenPage(s) \/ Navigate(s) \/ TimerFires(s) \/ PostReturns(s) PROVE RequestsOK'
  <2>1. s \in Slots /\ UNCHANGED <<writes, cache>> /\ \E page, due : Fetching(page, s, due)
    BY <1>4 DEF OpenPage, Navigate, TimerFires, PostReturns, Free
  <2> QED
    BY <2>1, FetchingRequests
<1>5. ASSUME PostStores PROVE RequestsOK'
  <2>1. Writes /\ cache' = cache
    BY <1>5 DEF PostStores
  <2> QED
    BY <2>1, WritesRequestsOK
<1>6. ASSUME \/ \E kind \in {"official", "count"} : Post(kind)
             \/ Change \/ PostFails \/ Invalidate
      PROVE  RequestsOK'
  <2>1. UNCHANGED <<writes, requests>> /\ cache' \in {None, cache}
    BY <1>6 DEF Post, Change, PostFails, Invalidate
  <2> QED
    BY <2>1, <1>2
<1>7. ASSUME Tick PROVE RequestsOK'
  <2>1. UNCHANGED <<writes, requests>>
    BY <1>7 DEF Tick
  <2>2. cache' = IF cache = None \/ cache.age = CacheTtl THEN None ELSE [cache EXCEPT !.age = @ + 1]
    BY <1>7 DEF Tick
  <2>3. cache' \in {None} \cup [age : 1 .. CacheTtl, answer : Answer]
    <3>1. CASE cache = None \/ cache.age = CacheTtl
      BY <2>2, <3>1
    <3>2. CASE ~(cache = None \/ cache.age = CacheTtl)
      <4>1. cache \in [age : 1 .. CacheTtl, answer : Answer] /\ CacheTtl \in Nat
        BY <3>2, DashboardAssumption DEF RequestsOK
      <4>2. cache.age + 1 \in 1 .. CacheTtl
        BY <3>2, <4>1
      <4>3. cache' = [cache EXCEPT !.age = cache.age + 1]
        BY <2>2, <3>2
      <4> QED
        BY <4>1, <4>2, <4>3
    <3> QED
      BY <3>1, <3>2
  <2> QED
    BY <2>1, <2>3 DEF RequestsOK
<1>8. ASSUME NEW s \in Slots, Start(s) PROVE RequestsOK'
  <2> DEFINE q == requests[s]
             hit == [q EXCEPT !.phase = "done", !.answer = cache.answer]
  <2>1. q \in Request /\ q.refreshed = FALSE /\ UNCHANGED <<writes, cache>>
    <3>1. requests[s].refreshed \in BOOLEAN
      BY DEF RequestsOK, Request
    <3> QED
      BY <1>8, <3>1 DEF Start, RequestsOK
  <2>2. CASE cache # None
    <3>1. cache.answer \in Answer
      BY <2>2 DEF RequestsOK
    <3>2. hit \in Request /\ hit.refreshed = FALSE
      BY <2>1, <3>1, RequestHits
    <3>3. requests' = [requests EXCEPT ![s] = hit]
      BY <1>8, <2>2, RequestUpdates DEF RequestsOK
    <3> HIDE DEF hit
    <3> QED
      BY <2>1, <3>2, <3>3, OneRequest
  <2>3. CASE cache = None
    <3>1. PICK n \in Request : requests' = [requests EXCEPT ![s] = n] /\ n.refreshed = q.refreshed
      BY <1>8, <2>3, StartMiss
    <3> QED
      BY <2>1, <3>1, OneRequest
  <2> QED
    BY <2>2, <2>3
<1>9. ASSUME NEW s \in Slots, RefreshFirst(s) PROVE RequestsOK'
  <2> DEFINE n == [requests[s] EXCEPT !.refreshed = TRUE]
  <2>1. requests[s] \in Request /\ requests[s].phase = "reading" /\ requests[s].todo # <<>>
        /\ UNCHANGED <<writes, cache>>
    BY <1>9 DEF RefreshFirst, RequestsOK
  <2>2. n \in Request /\ n.phase = "reading" /\ n.todo # <<>>
    BY <2>1, RequestSets
  <2>3. requests' = [requests EXCEPT ![s] = n]
    BY <1>9, RequestUpdates DEF RequestsOK
  <2> HIDE DEF n
  <2> QED
    BY <2>1, <2>2, <2>3, OneRequest
<1>10. ASSUME NEW s \in Slots, Read(s) PROVE RequestsOK'
  <2>1. UNCHANGED <<writes, cache>>
    BY <1>10 DEF Read
  <2>2. PICK n \in Request : requests' = [requests EXCEPT ![s] = n] /\ n.refreshed = FALSE
    BY <1>10, ReadOne
  <2> QED
    BY <2>1, <2>2, OneRequest
<1>11. ASSUME NEW s \in Slots, Finish(s) PROVE RequestsOK'
  <2> DEFINE q == requests[s]
             n == [q EXCEPT !.phase = "done", !.answer.version = writes]
  <2>1. q \in Request /\ q.todo = <<>> /\ writes' = writes /\ cache' = [age |-> 1, answer |-> requests'[s].answer]
    BY <1>11 DEF Finish, RequestsOK
  <2>2. q.refreshed = FALSE
    <3>1. q.refreshed \in BOOLEAN
      BY <2>1 DEF Request
    <3> QED
      BY <2>1, <3>1 DEF RequestsOK
  <2>3. n \in Request /\ n.refreshed = FALSE
    BY <2>1, <2>2, RequestFinishes DEF RequestsOK
  <2>4. requests' = [requests EXCEPT ![s] = n]
    BY <1>11, RequestUpdates DEF RequestsOK
  <2> HIDE DEF n
  <2>5. requests'[s] = n /\ requests' \in [Slots -> Request]
    BY <2>3, <2>4 DEF RequestsOK
  <2>6. cache' \in [age : 1 .. CacheTtl, answer : Answer]
    <3>1. n.answer \in Answer /\ 1 \in 1 .. CacheTtl
      BY <2>3, DashboardAssumption DEF Request
    <3> QED
      BY <2>1, <2>5, <3>1
  <2>7. \A r \in Slots : requests'[r].refreshed => requests'[r].phase = "reading" /\ requests'[r].todo # <<>>
    BY <2>3, <2>4 DEF RequestsOK
  <2> QED
    BY <2>1, <2>5, <2>6, <2>7 DEF RequestsOK
<1>12. ASSUME NEW s \in Slots, Fail(s) \/ Deliver(s) PROVE RequestsOK'
  <2>1. requests' = [requests EXCEPT ![s] = Idle] /\ UNCHANGED <<writes, cache>>
    BY <1>12 DEF Fail, Deliver
  <2> QED
    BY <2>1, IdleType, OneRequest
<1> QED
    BY <1>1, <1>3, <1>4, <1>5, <1>6, <1>7, <1>8, <1>9, <1>10, <1>11, <1>12 DEF Next, Page, Serve

\* A fetch leaves the page open and whole.
LEMMA FetchingPage ==
    ASSUME NEW seen, NEW page \in PageState(seen), NEW s \in Slots,
           NEW due \in 0 .. MaxWrites \cup {None}, Fetching(page, s, due)
    PROVE  client' \in PageState(seen) /\ client'.open = TRUE /\ client'.seen = seen
<1> DEFINE n == page.fetches + 1
<1>1. page.fetches \in 0 .. MaxFetches
    BY DEF PageState
<1>2. n \in 0 .. MaxFetches
    BY <1>1, DashboardAssumption DEF Fetching
<1>3. client' = [page EXCEPT !.open = TRUE, !.fetch = s, !.due = due, !.fetches = n]
    BY DEF Fetching
<1> HIDE DEF n
<1> QED
    BY <1>2, <1>3 DEF PageState

\* A page that is updated field by field
LEMMA PageFields ==
    ASSUME NEW seen, NEW c \in PageState(seen)
    PROVE  /\ c.seen = seen
           /\ [c EXCEPT !.shown = None] \in PageState(seen)
           /\ [c EXCEPT !.timer = None] \in PageState(seen)
           /\ \A p \in {None, "official", "count", "stored", "answered"} :
                 [c EXCEPT !.post = p] \in PageState(seen) /\ [c EXCEPT !.post = p].open = c.open
           /\ [c EXCEPT !.fetch = None, !.due = None] \in PageState(seen)
           /\ [c EXCEPT !.fetch = None, !.due = None].open = c.open
<1>1. c.seen = seen
    BY DEF PageState
<1>2. [c EXCEPT !.shown = None] \in PageState(seen) /\ [c EXCEPT !.timer = None] \in PageState(seen)
    BY DEF PageState
<1>3. ASSUME NEW p \in {None, "official", "count", "stored", "answered"}
      PROVE  [c EXCEPT !.post = p] \in PageState(seen) /\ [c EXCEPT !.post = p].open = c.open
    BY DEF PageState
<1>4. /\ [c EXCEPT !.fetch = None, !.due = None] \in PageState(seen)
      /\ [c EXCEPT !.fetch = None, !.due = None].open = c.open
    BY DEF PageState
<1> QED
    BY <1>1, <1>2, <1>3, <1>4

\* What the page keeps in a step: it stays whole, and open once it is.
PageKept == PageOK' /\ client'.open \in BOOLEAN /\ (client.open => client'.open)

\* A fetch from the page or from one that differs in what it shows or awaits
LEMMA FetchingKept ==
    ASSUME NEW seen, NEW page, page \in PageState(seen), NEW s \in Slots,
           NEW due \in 0 .. MaxWrites \cup {None}, Fetching(page, s, due)
    PROVE  PageKept /\ client'.open = TRUE
<1>1. client' \in PageState(seen) /\ client'.open = TRUE /\ client'.seen = seen
    BY FetchingPage
<1> QED
    BY <1>1 DEF PageKept, PageOK

\* The page stays whole.
LEMMA PageNext ==
    ASSUME RequestsOK, PageOK, [Next]_vars
    PROVE  PageKept
<1> DEFINE seen == client.seen
<1>1. client \in PageState(seen) /\ client.open \in BOOLEAN /\ client.wanted \in 0 .. MaxWrites
      /\ client.timer \in 0 .. Debounce \cup {None}
    BY DEF PageOK, PageState
<1>2. ASSUME client' = client PROVE PageKept
    BY <1>1, <1>2 DEF PageKept, PageOK
<1>3. ASSUME Write \/ PassTime \/ OtherReader \/ UNCHANGED vars PROVE client' = client
    BY <1>3 DEF Write, Ingest, Rebuild, Withdraw, Scan, StoreOfficial, Confirm, Compact,
                PassTime, OtherReader, vars, views
<1>4. ASSUME NEW n, client' = n, n \in PageState(seen), n.open = client.open PROVE PageKept
  <2>1. client'.seen = seen
    BY <1>4 DEF PageState
  <2> QED
    BY <1>1, <1>4, <2>1 DEF PageKept, PageOK
<1> HIDE DEF seen
<1>5. ASSUME NEW s \in Free, OpenPage(s) \/ Navigate(s) \/ TimerFires(s) \/ PostReturns(s) PROVE PageKept
  <2>1. s \in Slots
    BY DEF Free
  <2>2. CASE OpenPage(s)
    <3>1. Fetching(client, s, None)
      BY <2>2 DEF OpenPage
    <3> QED
      BY <1>1, <2>1, <3>1, FetchingKept
  <2>3. CASE Navigate(s)
    <3> DEFINE page == [client EXCEPT !.shown = None]
    <3>1. Fetching(page, s, None)
      BY <2>3 DEF Navigate
    <3>2. page \in PageState(seen)
      BY <1>1, PageFields
    <3> HIDE DEF page
    <3> QED
      BY <2>1, <3>1, <3>2, FetchingKept
  <2>4. CASE TimerFires(s)
    <3> DEFINE page == [client EXCEPT !.timer = None]
    <3>1. Fetching(page, s, client.wanted)
      BY <2>4 DEF TimerFires
    <3>2. page \in PageState(seen)
      BY <1>1, PageFields
    <3> HIDE DEF page
    <3> QED
      BY <1>1, <2>1, <3>1, <3>2, FetchingKept
  <2>5. CASE PostReturns(s)
    <3> DEFINE page == [client EXCEPT !.post = None]
    <3>1. Fetching(page, s, None)
      BY <2>5 DEF PostReturns
    <3>2. page \in PageState(seen)
      BY <1>1, PageFields
    <3> HIDE DEF page
    <3> QED
      BY <2>1, <3>1, <3>2, FetchingKept
  <2> HIDE DEF PageKept
  <2> QED
    BY <1>5, <2>2, <2>3, <2>4, <2>5
<1>6. ASSUME NEW p \in {None, "official", "count", "stored", "answered"}, client' = [client EXCEPT !.post = p]
      PROVE  PageKept
  <2> DEFINE n == [client EXCEPT !.post = p]
  <2>1. n \in PageState(seen) /\ n.open = client.open
    <3>1. \A o \in {None, "official", "count", "stored", "answered"} :
             [client EXCEPT !.post = o] \in PageState(seen) /\ [client EXCEPT !.post = o].open = client.open
      BY <1>1, PageFields
    <3> QED
      BY <1>6, <3>1
  <2>2. client' = n
    BY <1>6
  <2> HIDE DEF n
  <2> QED
    BY <1>4, <2>1, <2>2
<1>7. ASSUME \/ \E kind \in {"official", "count"} : Post(kind)
             \/ PostStores \/ PostFails \/ Invalidate
      PROVE  \E p \in {None, "official", "count", "stored", "answered"} : client' = [client EXCEPT !.post = p]
    BY <1>7 DEF Post, PostStores, PostFails, Invalidate
<1>8. ASSUME Change PROVE PageKept
  <2> DEFINE t == IF client.seen # None /\ client.timer = None THEN Debounce ELSE client.timer
             r == Revision
             n == [client EXCEPT !.seen = r, !.wanted = writes, !.timer = t]
  <2>1. t \in 0 .. Debounce \cup {None}
    BY <1>1, DashboardAssumption
  <2>2. client' = n
    BY <1>8 DEF Change
  <2> HIDE DEF t, r
  <2>3. writes \in 0 .. MaxWrites
    BY DEF RequestsOK
  <2>4. n \in PageState(r) /\ n.open = client.open
    BY <1>1, <2>1, <2>3 DEF PageState
  <2> HIDE DEF n
  <2>5. n.seen = r
    BY <2>4 DEF PageState
  <2> QED
    BY <1>1, <2>2, <2>4, <2>5 DEF PageKept, PageOK
<1>9. ASSUME Tick PROVE PageKept
  <2> DEFINE t == IF client.timer \in {None, 0} THEN client.timer ELSE client.timer - 1
             n == [client EXCEPT !.timer = t]
  <2>1. t \in 0 .. Debounce \cup {None}
    BY <1>1, DashboardAssumption
  <2>2. client' = n
    BY <1>9 DEF Tick
  <2> HIDE DEF t
  <2>3. n \in PageState(seen) /\ n.open = client.open
    BY <1>1, <2>1 DEF PageState
  <2> HIDE DEF n
  <2> QED
    BY <1>4, <2>2, <2>3
<1>10. ASSUME NEW s \in Slots, Start(s) \/ RefreshFirst(s) \/ Read(s) \/ Finish(s) PROVE client' = client
    BY <1>10 DEF Start, RefreshFirst, Read, Finish
<1>11. ASSUME NEW s \in Slots, Fail(s) PROVE PageKept
  <2> DEFINE n == [client EXCEPT !.fetch = None, !.due = None]
  <2>1. client' = client \/ client' = n
    BY <1>11 DEF Fail
  <2>2. n \in PageState(seen) /\ n.open = client.open
    BY <1>1, PageFields
  <2> HIDE DEF n
  <2> QED
    BY <1>2, <1>4, <2>1, <2>2
<1>12. ASSUME NEW s \in Slots, Deliver(s) PROVE PageKept
  <2> DEFINE answer == requests[s].answer
             n == [client EXCEPT !.fetch = None, !.shown = answer]
  <2>1. client' = client \/ client' = n
    BY <1>12 DEF Deliver
  <2>2. answer \in Answer
    BY DEF RequestsOK, Request
  <2> HIDE DEF answer
  <2>3. n \in PageState(seen) /\ n.open = client.open
    BY <1>1, <2>2 DEF PageState
  <2> HIDE DEF n
  <2> QED
    BY <1>2, <1>4, <2>1, <2>3
<1> QED
    BY <1>2, <1>3, <1>5, <1>6, <1>7, <1>8, <1>9, <1>10, <1>11, <1>12 DEF Next, Page, Serve

-----------------------------------------------------------------------------
(* What a request has counted.                                             *)

\* The totals of the evidence of every window
Sums == [a \in Nat |-> [b \in Nat |-> Tokens(Evident(a, b))]]

\* A request q, at the time t and the marker d: undisturbed, it has counted
\* the evidence E of its window up to where the statements before it begin.
Counting(q, t, d, E) ==
    /\ q.phase \in {"idle", "sent"} => q.answer.sum = 0
    /\ q.phase = "reading" =>
          LET low == WindowFrom(q.period.start)
          IN  /\ q.period.end = t /\ low \in Nat
              /\ \E a \in Nat : low <= a /\ Spans(q.todo, a, t, t) /\ (~q.disturbed => q.answer.sum = E[low][a])
    /\ q.refreshed /\ ~q.disturbed => ~d

\* The page opens once, and before that nothing is asked.
NoReader == ~client.open => \A s \in Slots : requests[s].phase = "idle"

WindowInv ==
    /\ Clean /\ EvidenceInv /\ RequestsOK /\ PageOK /\ NoReader
    /\ \A s \in Slots : Counting(requests[s], now, dirty, Sums)

\* A write only has to leave the window of a request as it is.
LEMMA CountingDisturbed ==
    ASSUME NEW q, NEW n, NEW t, NEW d, NEW e, NEW E, NEW F, Counting(q, t, d, E),
           n.phase = q.phase, n.period = q.period, n.todo = q.todo, n.refreshed = q.refreshed,
           n.answer = q.answer, n.disturbed = IF q.phase = "reading" THEN TRUE ELSE q.disturbed,
           q.refreshed => q.phase = "reading"
    PROVE  Counting(n, t, e, F)
  BY DEF Counting

\* A marker that is cleared does no harm.
LEMMA CountingCleared ==
    ASSUME NEW q, NEW t, NEW d, NEW e, NEW E, Counting(q, t, d, E), e => d
    PROVE  Counting(q, t, e, E)
  BY DEF Counting

\* Requests that are not being read count nothing yet, or no more.
LEMMA CountingIdle ==
    ASSUME NEW q, NEW t, NEW d, NEW E, q.phase # "reading", q.refreshed = FALSE,
           q.phase = "done" \/ q.answer.sum = 0
    PROVE  Counting(q, t, d, E)
  BY DEF Counting

\* The evidence and the memberships say what the windows hold.
LEMMA SameSums ==
    ASSUME UNCHANGED <<sampled, rebuilt, standalone>>
    PROVE  Sums' = Sums
<1>1. BestChoice' = BestChoice
    BY SameBest DEF Confirmed
<1>2. \A a, b : Evident(a, b)' = Evident(a, b)
    BY <1>1 DEF Evident, Evidence, Confirmed, Matches, ProjectMatches, PageFilter, FilterOf
<1> QED
    BY <1>2 DEF Sums

\* One request changes, and the marker is cleared at most.
LEMMA CountingOne ==
    ASSUME WindowInv, NEW s \in Slots, NEW n, requests' = [requests EXCEPT ![s] = n],
           UNCHANGED <<sampled, rebuilt, standalone, now>>, dirty' => dirty, Counting(n, now, dirty', Sums)
    PROVE  \A r \in Slots : Counting(requests'[r], now', dirty', Sums')
<1>1. Sums' = Sums /\ now' = now
    BY SameSums
<1>2. requests \in [Slots -> Request]
    BY DEF WindowInv, RequestsOK
<1>3. ASSUME NEW r \in Slots PROVE Counting(requests'[r], now, dirty', Sums)
  <2>1. CASE r = s
    <3>1. requests'[r] = n
      BY <1>2, <2>1
    <3> QED
      BY <3>1
  <2>2. CASE r # s
    <3>1. requests'[r] = requests[r]
      BY <1>2, <2>2
    <3>2. Counting(requests[r], now, dirty, Sums)
      BY DEF WindowInv
    <3> DEFINE q == requests[r]
    <3> HIDE DEF q
    <3>3. Counting(q, now, dirty', Sums)
      BY <3>2, CountingCleared DEF q
    <3> QED
      BY <3>1, <3>3 DEF q
  <2> QED
    BY <2>1, <2>2
<1> QED
    BY <1>1, <1>3

\* The statements of a request begin where its window begins.
LEMMA CountingStarts ==
    ASSUME WindowInv, NEW s \in Slots, Start(s), cache = None
    PROVE  \E n \in Request : requests' = [requests EXCEPT ![s] = n] /\ Counting(n, now, dirty, Sums)
<1> DEFINE p == ResolvePeriod(PageLabel, now)
           start == TimeOr(p.start, 0)
           low == WindowFrom(start)
           q == requests[s]
           todo == StatementsOf(p)
<1>1. RequestsOK /\ EvidenceInv /\ Counting(q, now, dirty, Sums)
    BY DEF WindowInv
<1>2. q.phase = "sent" /\ q \in Request
    BY <1>1 DEF Start, RequestsOK
<1>3. q.answer.sum = 0 /\ q.refreshed = FALSE
  <2>1. q.refreshed \in BOOLEAN
    BY <1>2 DEF Request
  <2> QED
    BY <1>1, <1>2, <2>1 DEF Counting, RequestsOK
<1>4. now \in 0 .. MaxTime
    BY <1>1, DashboardAssumption DEF EvidenceInv
<1>5. Spans(todo, low, now, now) /\ low \in 0 .. now
    BY <1>4, StatementsSpan
<1>6. p.end = now
    BY <1>4, PeriodShape, DashboardAssumption
<1>7. \E n \in Request :
         /\ requests' = [requests EXCEPT ![s] = n]
         /\ n.phase = "reading" /\ n.period = [start |-> start, end |-> p.end] /\ n.todo = todo
         /\ n.refreshed = q.refreshed /\ n.answer = q.answer /\ n.disturbed = q.disturbed
    BY <1>1, StartMiss
<1> HIDE DEF p, start, q, todo
<1>8. PICK n \in Request :
         /\ requests' = [requests EXCEPT ![s] = n]
         /\ n.phase = "reading" /\ n.period = [start |-> start, end |-> p.end] /\ n.todo = todo
         /\ n.refreshed = q.refreshed /\ n.answer = q.answer /\ n.disturbed = q.disturbed
    BY <1>7
<1>9. n.period.start = start /\ n.period.end = now /\ n.answer.sum = 0 /\ n.refreshed = FALSE
    BY <1>3, <1>6, <1>8
<1>10. low \in Nat /\ Sums[low][low] = 0
  <2>1. low \in Nat
    BY <1>4, <1>5
  <2>2. Tokens(Evident(low, low)) = 0
    BY <1>1, <2>1, EvidentNothing
  <2> HIDE DEF low
  <2> QED
    BY <2>1, <2>2 DEF Sums
<1>11. WindowFrom(n.period.start) = low
    BY <1>9
<1> HIDE DEF low
<1>12. \E a \in Nat : low <= a /\ Spans(n.todo, a, now, now) /\ (~n.disturbed => n.answer.sum = Sums[low][a])
    BY <1>5, <1>8, <1>9, <1>10
<1>13. Counting(n, now, dirty, Sums)
    BY <1>8, <1>9, <1>10, <1>11, <1>12 DEF Counting
<1> QED
    BY <1>8, <1>13

\* What a statement adds is the evidence from where it begins to where it ends.
LEMMA CountingReads ==
    ASSUME WindowInv, NEW s \in Slots, Read(s)
    PROVE  \E n \in Request : requests' = [requests EXCEPT ![s] = n] /\ Counting(n, now, dirty, Sums)
<1> DEFINE q == requests[s]
           low == WindowFrom(q.period.start)
           head == Head(q.todo)
           read == Tokens(ReadStatement(head, PageFilter))
<1>1. RequestsOK /\ EvidenceInv /\ Clean /\ Counting(q, now, dirty, Sums)
    BY DEF WindowInv
<1>2. q.refreshed /\ q.phase = "reading" /\ q.todo # <<>> /\ q \in Request
    BY <1>1 DEF Read, RequestsOK
<1>3. /\ q.period.end = now /\ low \in Nat
      /\ \E a \in Nat : low <= a /\ Spans(q.todo, a, now, now) /\ (~q.disturbed => q.answer.sum = Sums[low][a])
      /\ ~q.disturbed => ~dirty
    BY <1>1, <1>2 DEF Counting
<1>4. \E n \in Request :
         /\ requests' = [requests EXCEPT ![s] = n]
         /\ n.phase = q.phase /\ n.period = q.period /\ n.todo = Tail(q.todo)
         /\ n.refreshed = FALSE /\ n.disturbed = q.disturbed
         /\ n.answer.sum = q.answer.sum + read
    BY <1>1, ReadOne
<1>5. PICK a \in Nat : low <= a /\ Spans(q.todo, a, now, now) /\ (~q.disturbed => q.answer.sum = Sums[low][a])
    BY <1>3
<1> DEFINE todo == q.todo
<1> HIDE DEF q, read
<1>6. /\ Fits(Head(todo), now) /\ Low(Head(todo)) = a /\ Head(todo).to \in Nat
      /\ a <= Head(todo).to
      /\ Spans(Tail(todo), Head(todo).to, now, now)
  <2>1. Spans(todo, a, now, now) /\ todo # <<>>
    BY <1>2, <1>5
  <2> HIDE DEF todo
  <2> QED
    BY <2>1, SpansRest
<1>7. /\ Fits(head, now) /\ Low(head) = a /\ head.to \in Nat /\ a <= head.to
      /\ Spans(Tail(q.todo), head.to, now, now)
    BY <1>6
<1>8. PICK n \in Request :
         /\ requests' = [requests EXCEPT ![s] = n]
         /\ n.phase = q.phase /\ n.period = q.period /\ n.todo = Tail(q.todo)
         /\ n.refreshed = FALSE /\ n.disturbed = q.disturbed
         /\ n.answer.sum = q.answer.sum + read
    BY <1>4
<1>9. WindowFrom(n.period.start) = low
    BY <1>8
<1> HIDE DEF low, head, todo
<1>10. ASSUME ~n.disturbed PROVE n.answer.sum = Sums[low][head.to]
  <2>1. ~q.disturbed /\ q.answer.sum = Sums[low][a]
    BY <1>5, <1>8, <1>10
  <2>2. choice = BestChoice
    BY <1>1, <1>3, <2>1 DEF Clean, SelectionCurrent
  <2>3. ReadStatement(head, PageFilter) = Evident(a, head.to)
    BY <1>1, <1>7, <2>2, ReadsEvidence
  <2> DEFINE to == head.to
  <2>4. to \in Nat /\ a <= to /\ low \in Nat /\ low <= a
    BY <1>3, <1>5, <1>7
  <2>5. read = Tokens(Evident(a, to))
    BY <2>3 DEF read
  <2> HIDE DEF to
  <2>6. Tokens(Evident(low, to)) = Tokens(Evident(low, a)) + Tokens(Evident(a, to))
    BY <1>1, <2>4, EvidentJoin
  <2>7. Sums[low][a] = Tokens(Evident(low, a)) /\ Sums[low][to] = Tokens(Evident(low, to))
    BY <2>4 DEF Sums
  <2>8. n.answer.sum = Sums[low][to]
    BY <1>8, <2>1, <2>5, <2>6, <2>7
  <2> QED
    BY <2>8 DEF to
<1>11. low <= head.to
    BY <1>3, <1>5, <1>7
<1>12. \E b \in Nat : low <= b /\ Spans(n.todo, b, now, now) /\ (~n.disturbed => n.answer.sum = Sums[low][b])
    BY <1>7, <1>8, <1>10, <1>11
<1>13. Counting(n, now, dirty, Sums)
    BY <1>2, <1>3, <1>8, <1>9, <1>12 DEF Counting
<1> QED
    BY <1>8, <1>13

\* A refresh clears the marker and leaves the evidence.
LEMMA RefreshClears ==
    ASSUME Clean, Refresh
    PROVE  ~dirty' /\ UNCHANGED <<sampled, rebuilt, standalone>>
  BY RefreshCurrent DEF Clean

Counted == \A s \in Slots : Counting(requests[s], now, dirty, Sums)

\* Every step keeps what the requests have counted.
LEMMA CountedNext ==
    ASSUME WindowInv, [Next]_vars
    PROVE  Counted'
<1>1. /\ RequestsOK /\ EvidenceInv /\ Clean /\ PageOK /\ NoReader
      /\ requests \in [Slots -> Request]
      /\ \A s \in Slots : Counting(requests[s], now, dirty, Sums)
    BY DEF WindowInv, RequestsOK
<1>2. \A s \in Slots : requests[s].refreshed => requests[s].phase = "reading" /\ requests[s].todo # <<>>
    BY <1>1 DEF RequestsOK
<1>3. \A s \in Slots : requests[s].refreshed \in BOOLEAN /\ requests[s] \in Request
    BY <1>1 DEF Request
<1>4. ASSUME Writes, now' = now PROVE Counted'
  <2>1. ASSUME NEW s \in Slots PROVE Counting(requests'[s], now', dirty', Sums')
    <3> DEFINE q == requests[s]
               n == requests'[s]
               t == now
               d == dirty
               E == Sums
               e == dirty'
               F == Sums'
    <3>1. Counting(q, t, d, E) /\ (q.refreshed => q.phase = "reading")
      BY <1>1, <1>2
    <3>2. /\ n.phase = q.phase /\ n.period = q.period /\ n.todo = q.todo
          /\ n.refreshed = q.refreshed /\ n.answer = q.answer
          /\ n.disturbed = IF q.phase = "reading" THEN TRUE ELSE q.disturbed
      BY <1>1, <1>4, WritesRequests
    <3> HIDE DEF q, n, t, d, E, e, F
    <3>3. Counting(n, t, e, F)
      BY <3>1, <3>2, CountingDisturbed
    <3> QED
      BY <1>4, <3>3 DEF n, t, e, F
  <2> QED
    BY <2>1 DEF Counted
<1>5. ASSUME requests' = requests, UNCHANGED <<sampled, rebuilt, standalone, now>>, dirty' => dirty PROVE Counted'
  <2>1. Sums' = Sums
    BY <1>5, SameSums
  <2>2. ASSUME NEW s \in Slots PROVE Counting(requests[s], now, dirty', Sums)
    <3> DEFINE q == requests[s]
    <3>1. Counting(q, now, dirty, Sums)
      BY <1>1
    <3> HIDE DEF q
    <3>2. Counting(q, now, dirty', Sums)
      BY <1>5, <3>1, CountingCleared
    <3> QED
      BY <3>2 DEF q
  <2> QED
    BY <1>5, <2>1, <2>2 DEF Counted
<1>6. ASSUME NEW s \in Slots, NEW n, requests' = [requests EXCEPT ![s] = n],
             UNCHANGED <<sampled, rebuilt, standalone, now>>, dirty' => dirty, Counting(n, now, dirty', Sums)
      PROVE  Counted'
    BY <1>6, CountingOne DEF Counted
<1>7. ASSUME Write PROVE Counted'
  <2>1. Writes /\ now' = now
    BY <1>7 DEF Write, Ingest, Rebuild, Withdraw, Scan, StoreOfficial, Confirm, Compact
  <2> QED
    BY <2>1, <1>4
<1>8. ASSUME PassTime PROVE Counted'
  <2>1. requests' = requests /\ \A s \in Slots : requests[s].phase = "idle"
    BY <1>1, <1>8 DEF PassTime, NoReader
  <2>2. ASSUME NEW s \in Slots PROVE Counting(requests'[s], now', dirty', Sums')
    <3> DEFINE q == requests[s]
               t == now'
               e == dirty'
               F == Sums'
    <3>1. q.phase = "idle" /\ q.refreshed = FALSE
      BY <1>2, <1>3, <2>1
    <3>2. q.answer.sum = 0
      BY <1>1, <3>1 DEF Counting
    <3> HIDE DEF q, t, e, F
    <3>3. Counting(q, t, e, F)
      BY <3>1, <3>2, CountingIdle
    <3> QED
      BY <2>1, <3>3 DEF q, t, e, F
  <2> QED
    BY <2>2 DEF Counted
<1>9. ASSUME OtherReader PROVE Counted'
  <2>1. Refresh /\ UNCHANGED <<requests, now>>
    BY <1>9 DEF OtherReader, views
  <2>2. ~dirty' /\ UNCHANGED <<sampled, rebuilt, standalone>>
    BY <1>1, <2>1, RefreshClears
  <2> QED
    BY <2>1, <2>2, <1>5
<1>10. ASSUME UNCHANGED vars PROVE Counted'
  <2>1. UNCHANGED <<requests, sampled, rebuilt, standalone, now, dirty>>
    BY <1>10 DEF vars, views, tables
  <2> QED
    BY <2>1, <1>5
<1>11. ASSUME NEW s \in Free, OpenPage(s) \/ Navigate(s) \/ TimerFires(s) \/ PostReturns(s) PROVE Counted'
  <2> DEFINE n == [Idle EXCEPT !.phase = "sent"]
  <2>1. s \in Slots /\ UNCHANGED <<writes, cache, sampled, rebuilt, standalone, now, dirty>>
        /\ \E page, due : Fetching(page, s, due)
    BY <1>11 DEF OpenPage, Navigate, TimerFires, PostReturns, Free, tables
  <2>2. requests' = [requests EXCEPT ![s] = n]
    BY <2>1 DEF Fetching
  <2>3. n.phase = "sent" /\ n.refreshed = FALSE /\ n.answer.sum = 0
    BY DEF Idle
  <2> HIDE DEF n
  <2>4. Counting(n, now, dirty', Sums)
    BY <2>3, CountingIdle
  <2> QED
    BY <1>6, <2>1, <2>2, <2>4
<1>12. ASSUME PostStores PROVE Counted'
  <2>1. Writes /\ now' = now
    BY <1>12 DEF PostStores
  <2> QED
    BY <2>1, <1>4
<1>13. ASSUME \/ \E kind \in {"official", "count"} : Post(kind)
              \/ Change \/ PostFails \/ Invalidate \/ Tick
       PROVE  Counted'
  <2>1. UNCHANGED <<requests, sampled, rebuilt, standalone, now, dirty>>
    BY <1>13 DEF Post, Change, PostFails, Invalidate, Tick, tables
  <2> QED
    BY <2>1, <1>5
<1>14. ASSUME NEW s \in Slots, Start(s) PROVE Counted'
  <2>1. UNCHANGED <<sampled, rebuilt, standalone, now, dirty>> /\ requests[s].phase = "sent"
    BY <1>14 DEF Start, tables
  <2>2. CASE cache # None
    <3> DEFINE q == requests[s]
               n == [q EXCEPT !.phase = "done", !.answer = cache.answer]
    <3>1. requests' = [requests EXCEPT ![s] = n]
      BY <1>1, <1>14, <2>2, RequestUpdates
    <3>2. q \in Request /\ q.refreshed = FALSE /\ cache.answer \in Answer
      BY <1>1, <1>2, <1>3, <2>1, <2>2 DEF RequestsOK
    <3>3. n.phase = "done" /\ n.refreshed = FALSE
      BY <3>2, RequestHits
    <3> HIDE DEF n
    <3>4. Counting(n, now, dirty', Sums)
      BY <3>3, CountingIdle
    <3> QED
      BY <1>6, <2>1, <3>1, <3>4
  <2>3. CASE cache = None
    <3>1. PICK n \in Request : requests' = [requests EXCEPT ![s] = n] /\ Counting(n, now, dirty, Sums)
      BY <1>14, <2>3, CountingStarts
    <3> QED
      BY <1>6, <2>1, <3>1
  <2> QED
    BY <2>2, <2>3
<1>15. ASSUME NEW s \in Slots, RefreshFirst(s) PROVE Counted'
  <2> DEFINE q == requests[s]
             n == [q EXCEPT !.refreshed = TRUE]
  <2>1. q \in Request /\ q.phase = "reading" /\ Refresh /\ now' = now
    BY <1>1, <1>15 DEF RefreshFirst
  <2>2. ~dirty' /\ UNCHANGED <<sampled, rebuilt, standalone>>
    BY <1>1, <2>1, RefreshClears
  <2>3. requests' = [requests EXCEPT ![s] = n]
    BY <1>1, <1>15, RequestUpdates
  <2>4. /\ n.phase = q.phase /\ n.period = q.period /\ n.todo = q.todo
        /\ n.answer = q.answer /\ n.disturbed = q.disturbed
    BY <2>1, RequestSets
  <2>5. Counting(q, now, dirty, Sums)
    BY <1>1
  <2> HIDE DEF n, q
  <2>6. Counting(n, now, dirty', Sums)
    BY <2>1, <2>2, <2>4, <2>5 DEF Counting
  <2> QED
    BY <1>6, <2>1, <2>2, <2>3, <2>6
<1>16. ASSUME NEW s \in Slots, Read(s) PROVE Counted'
  <2>1. UNCHANGED <<sampled, rebuilt, standalone, now, dirty>>
    BY <1>16 DEF Read, tables
  <2>2. PICK n \in Request : requests' = [requests EXCEPT ![s] = n] /\ Counting(n, now, dirty, Sums)
    BY <1>16, CountingReads
  <2> QED
    BY <1>6, <2>1, <2>2
<1>17. ASSUME NEW s \in Slots, Finish(s) PROVE Counted'
  <2> DEFINE q == requests[s]
             n == [q EXCEPT !.phase = "done", !.answer.version = writes]
  <2>1. q \in Request /\ q.todo = <<>> /\ Refresh /\ now' = now
    BY <1>1, <1>17 DEF Finish
  <2>2. ~dirty' /\ UNCHANGED <<sampled, rebuilt, standalone>>
    BY <1>1, <2>1, RefreshClears
  <2>3. requests' = [requests EXCEPT ![s] = n]
    BY <1>1, <1>17, RequestUpdates
  <2>4. n.phase = "done" /\ n.refreshed = FALSE
    <3>1. q.refreshed = FALSE /\ writes \in 0 .. MaxWrites
      BY <1>1, <1>2, <1>3, <2>1 DEF RequestsOK
    <3> QED
      BY <2>1, <3>1, RequestFinishes
  <2> HIDE DEF n
  <2>5. Counting(n, now, dirty', Sums)
    BY <2>4, CountingIdle
  <2> QED
    BY <1>6, <2>1, <2>2, <2>3, <2>5
<1>18. ASSUME NEW s \in Slots, Fail(s) \/ Deliver(s) PROVE Counted'
  <2>1. UNCHANGED <<sampled, rebuilt, standalone, now, dirty>> /\ requests' = [requests EXCEPT ![s] = Idle]
    BY <1>18 DEF Fail, Deliver, tables
  <2>2. Idle.phase = "idle" /\ Idle.refreshed = FALSE /\ Idle.answer.sum = 0
    BY DEF Idle
  <2>3. Counting(Idle, now, dirty', Sums)
    BY <2>2, CountingIdle
  <2> QED
    BY <1>6, <2>1, <2>3
<1> QED
    BY <1>7, <1>8, <1>9, <1>10, <1>11, <1>12, <1>13, <1>14, <1>15, <1>16, <1>17, <1>18 DEF Next, Page, Serve

\* Nothing is asked before the page opens.
LEMMA NoReaderNext ==
    ASSUME WindowInv, [Next]_vars
    PROVE  NoReader'
<1>1. PageKept /\ RequestsOK /\ requests \in [Slots -> Request] /\ NoReader
    BY PageNext DEF WindowInv, RequestsOK
<1> SUFFICES ASSUME ~client'.open, NEW s \in Slots PROVE requests'[s].phase = "idle"
    BY DEF NoReader
<1>2. ~client.open /\ \A r \in Slots : requests[r].phase = "idle"
    BY <1>1 DEF PageKept, NoReader
<1>3. ASSUME Writes PROVE requests'[s].phase = "idle"
    BY <1>1, <1>2, <1>3, WritesRequests
<1>4. ASSUME requests' = requests PROVE requests'[s].phase = "idle"
    BY <1>2, <1>4
<1>5. ASSUME Write \/ PostStores PROVE Writes
    BY <1>5 DEF Write, Ingest, Rebuild, Withdraw, Scan, StoreOfficial, Confirm, Compact, PostStores
<1>6. ASSUME \/ PassTime \/ OtherReader \/ UNCHANGED vars
             \/ \E kind \in {"official", "count"} : Post(kind)
             \/ Change \/ PostFails \/ Invalidate \/ Tick
      PROVE  requests' = requests
    BY <1>6 DEF PassTime, OtherReader, vars, views, Post, Change, PostFails, Invalidate, Tick
<1>7. ASSUME NEW r \in Free, OpenPage(r) \/ Navigate(r) \/ TimerFires(r) \/ PostReturns(r) PROVE FALSE
  <2> DEFINE seen == client.seen
  <2>1. r \in Slots /\ client \in PageState(seen) /\ client.wanted \in 0 .. MaxWrites
    BY DEF Free, WindowInv, PageOK, PageState
  <2>2. \E page \in PageState(seen), due \in 0 .. MaxWrites \cup {None} : Fetching(page, r, due)
    <3> HIDE DEF seen
    <3>1. /\ [client EXCEPT !.shown = None] \in PageState(seen)
          /\ [client EXCEPT !.timer = None] \in PageState(seen)
          /\ [client EXCEPT !.post = None] \in PageState(seen)
      BY <2>1, PageFields
    <3> QED
      BY <1>7, <2>1, <3>1 DEF OpenPage, Navigate, TimerFires, PostReturns
  <2>3. client'.open = TRUE
    BY <2>1, <2>2, FetchingPage
  <2> QED
    BY <2>3
<1>8. ASSUME NEW r \in Slots, Start(r) \/ RefreshFirst(r) \/ Read(r) \/ Finish(r) PROVE FALSE
  <2>1. requests[r].phase = "sent" \/ requests[r].phase = "reading" \/ requests[r].refreshed
    BY <1>8 DEF Start, RefreshFirst, Read, Finish
  <2> QED
    BY <1>1, <1>2, <2>1 DEF RequestsOK
<1>9. ASSUME NEW r \in Slots, Fail(r) \/ Deliver(r) PROVE FALSE
  <2>1. requests[r].phase \in {"sent", "reading", "done"}
    BY <1>9 DEF Fail, Deliver
  <2> QED
    BY <1>2, <2>1
<1> QED
    BY <1>3, <1>4, <1>5, <1>6, <1>7, <1>8, <1>9 DEF Next, Page, Serve

\* An undisturbed request that has read its last statement has counted the
\* evidence of its whole window, each fact once: WindowInv follows it from one
\* statement to the next.
THEOREM WindowCountsOnceHolds == Spec => []WindowCountsOnce
<1>1. Init => WindowInv
  <2> SUFFICES ASSUME Init PROVE WindowInv
    OBVIOUS
  <2>1. Clean /\ NoReader
    BY IdleType DEF Init, Clean, SelectionCurrent, NoReader
  <2>2. EvidenceInv /\ RequestsOK /\ PageOK
    BY EvidenceInit, RequestsInit
  <2>3. ASSUME NEW s \in Slots PROVE Counting(requests[s], now, dirty, Sums)
    <3>1. requests[s] = Idle
      BY DEF Init
    <3>2. Idle.phase = "idle" /\ Idle.refreshed = FALSE /\ Idle.answer.sum = 0
      BY DEF Idle
    <3>3. Counting(Idle, now, dirty, Sums)
      BY <3>2, CountingIdle
    <3> QED
      BY <3>1, <3>3
  <2> QED
    BY <2>1, <2>2, <2>3 DEF WindowInv
<1>2. WindowInv /\ [Next]_vars => WindowInv'
  <2> SUFFICES ASSUME WindowInv, [Next]_vars PROVE WindowInv'
    OBVIOUS
  <2>1. Clean /\ EvidenceInv /\ RequestsOK /\ PageOK
    BY DEF WindowInv
  <2>2. Clean'
    BY <2>1, StepsOnTables, TablesKeepClean
  <2>3. EvidenceInv'
    BY <2>1, EvidenceNext
  <2>4. RequestsOK'
    BY <2>1, RequestsNext
  <2>5. PageOK'
    BY <2>1, PageNext DEF PageKept
  <2>6. NoReader' /\ Counted'
    BY NoReaderNext, CountedNext
  <2> QED
    BY <2>2, <2>3, <2>4, <2>5, <2>6 DEF WindowInv, Counted
<1>3. WindowInv => WindowCountsOnce
  <2> SUFFICES ASSUME WindowInv, NEW s \in Slots, requests[s].phase = "reading", requests[s].todo = <<>>,
                      ~requests[s].disturbed
               PROVE  LET r == requests[s]
                          from == IF PageLabel = "rolling7" THEN r.period.start
                                  ELSE Day(r.period.start) * DayLength
                      IN  r.answer.sum = Tokens({f \in Evidence(from, r.period.end) : Matches(f,
                                             FilterOf(PageQuery, "confirmed", NoTime, NoTime))})
    BY DEF WindowCountsOnce
  <2> DEFINE q == requests[s]
             low == WindowFrom(q.period.start)
  <2>1. Counting(q, now, dirty, Sums)
    BY DEF WindowInv
  <2>2. q.period.end = now /\ low \in Nat
        /\ \E a \in Nat : Spans(q.todo, a, now, now) /\ q.answer.sum = Sums[low][a]
    BY <2>1 DEF Counting
  <2>3. q.answer.sum = Sums[low][now] /\ now \in Nat
    BY <2>2 DEF Spans
  <2>4. q.answer.sum = Tokens(Evident(low, q.period.end))
    <3> HIDE DEF low, q
    <3> QED
      BY <2>2, <2>3 DEF Sums
  <2> QED
    BY <2>4 DEF Evident, PageFilter, WindowFrom
<1> QED
    BY <1>1, <1>2, <1>3, PTL DEF Spec

-----------------------------------------------------------------------------
(* Types of the tables.                                                    *)

\* The generations of the threads that descend from S
Generations(g, cat, S, N) ==
    g = [n \in 0 .. N |->
            IF n = 0 THEN S ELSE g[n - 1] \cup {t \in DOMAIN cat : cat[t].parent \in g[n - 1]}]

\* Descendants is the last of them.
LEMMA DescendantsAre ==
    ASSUME NEW cat, NEW S, NEW N \in Nat
    PROVE  \E g : /\ Generations(g, cat, S, N) /\ Descendants(cat, S, N) = g[N]
                  /\ g \in [0 .. N -> SUBSET (S \cup DOMAIN cat)]
<1> DEFINE D == SUBSET (S \cup DOMAIN cat)
           F == [n \in Nat |-> [X \in D |-> X \cup {t \in DOMAIN cat : cat[t].parent \in X}]]
           h == CHOOSE g : Generations(g, cat, S, N)
<1>1. N \in Nat
    OBVIOUS
<1>2. Descendants(cat, S, N) = h[N]
    BY DEF Descendants, Generations
<1>3. S \in D /\ F \in [Nat -> [D -> D]]
    OBVIOUS
<1>4. PICK g \in [0 .. N -> D] : Recursive(g, S, F, N)
  <2> HIDE DEF D, F
  <2> QED
    BY <1>1, <1>3, RecursionExists
<1>5. \A n \in 0 .. N : n # 0 => n \in Nat /\ n - 1 \in 0 .. N
    BY <1>1
<1>6. \A n \in 0 .. N :
         g[n] = IF n = 0 THEN S ELSE g[n - 1] \cup {t \in DOMAIN cat : cat[t].parent \in g[n - 1]}
  <2> SUFFICES ASSUME NEW n \in 0 .. N
               PROVE  g[n] = IF n = 0 THEN S ELSE g[n - 1] \cup {t \in DOMAIN cat : cat[t].parent \in g[n - 1]}
    OBVIOUS
  <2>1. CASE n = 0
    BY <1>4, <2>1 DEF Recursive
  <2>2. CASE n # 0
    <3>1. g[n] = F[n][g[n - 1]] /\ n \in Nat /\ g[n - 1] \in D
      BY <1>4, <1>5, <2>2 DEF Recursive
    <3> QED
      BY <2>2, <3>1
  <2> QED
    BY <2>1, <2>2
<1>7. Generations(g, cat, S, N)
    BY <1>6 DEF Generations
<1>8. Generations(h, cat, S, N)
    BY <1>7
<1> HIDE DEF h
<1>9. \A n \in 0 .. N :
         h[n] = IF n = 0 THEN S ELSE h[n - 1] \cup {t \in DOMAIN cat : cat[t].parent \in h[n - 1]}
    BY <1>8 DEF Generations
<1>10. h \in [0 .. N -> D]
  <2> DEFINE A == {n \in Nat : h[n] \in D}
  <2>1. 0 \in A
    <3>1. 0 \in 0 .. N
      BY <1>1
    <3>2. h[0] = S
      BY <1>9, <3>1
    <3> QED
      BY <3>2
  <2>2. ASSUME NEW n \in 0 .. N, n # N, n \in A PROVE n + 1 \in A
    <3>1. n + 1 \in 0 .. N /\ n + 1 # 0 /\ (n + 1) - 1 = n
      BY <1>1, <2>2
    <3>2. h[n + 1] = h[n] \cup {t \in DOMAIN cat : cat[t].parent \in h[n]}
      <4> DEFINE k == n + 1
      <4>1. h[k] = IF k = 0 THEN S ELSE h[k - 1] \cup {t \in DOMAIN cat : cat[t].parent \in h[k - 1]}
        BY <1>9, <3>1
      <4> QED
        BY <3>1, <4>1
    <3> QED
      BY <2>2, <3>1, <3>2
  <2> HIDE DEF A
  <2>3. \A n \in 0 .. N : n \in A
    BY <1>1, <2>1, <2>2, BoundedInduction
  <2>4. \A n \in 0 .. N : h[n] \in D
    BY <2>3 DEF A
  <2>5. h = [n \in 0 .. N |-> h[n]]
    BY <1>8 DEF Generations
  <2> QED
    BY <2>4, <2>5
<1> QED
    BY <1>2, <1>8, <1>10

\* One step further down are the children of those found so far.
LEMMA DescendantsStep ==
    ASSUME NEW cat, NEW S, NEW N \in Nat
    PROVE  /\ Descendants(cat, S, 0) = S
           /\ Descendants(cat, S, N + 1)
                = Descendants(cat, S, N) \cup {t \in DOMAIN cat : cat[t].parent \in Descendants(cat, S, N)}
<1>1. Descendants(cat, S, 0) = S
  <2>1. PICK g : Generations(g, cat, S, 0) /\ Descendants(cat, S, 0) = g[0]
    BY DescendantsAre
  <2>2. g[0] = S
    BY <2>1 DEF Generations
  <2> QED
    BY <2>1, <2>2
<1>2. PICK g : Generations(g, cat, S, N) /\ Descendants(cat, S, N) = g[N]
    BY DescendantsAre
<1> DEFINE M == N + 1
<1>3. M \in Nat /\ M # 0 /\ M - 1 = N /\ M \in 0 .. M
    OBVIOUS
<1> HIDE DEF M
<1>4. PICK h : Generations(h, cat, S, M) /\ Descendants(cat, S, M) = h[M]
    BY <1>3, DescendantsAre
<1>5. \A n \in 0 .. N : g[n] = IF n = 0 THEN S ELSE g[n - 1] \cup {t \in DOMAIN cat : cat[t].parent \in g[n - 1]}
    BY <1>2 DEF Generations
<1>6. \A n \in 0 .. M : h[n] = IF n = 0 THEN S ELSE h[n - 1] \cup {t \in DOMAIN cat : cat[t].parent \in h[n - 1]}
    BY <1>4 DEF Generations
<1> DEFINE A == {n \in Nat : g[n] = h[n]}
<1>7. 0 \in A
  <2>1. 0 \in 0 .. N /\ 0 \in 0 .. M
    BY <1>3
  <2> QED
    BY <1>5, <1>6, <2>1
<1>8. ASSUME NEW n \in 0 .. N, n # N, n \in A PROVE n + 1 \in A
  <2> DEFINE k == n + 1
  <2>1. k \in Nat /\ k \in 0 .. N /\ k \in 0 .. M /\ k # 0 /\ k - 1 = n
    BY <1>8 DEF M
  <2>2. g[n] = h[n]
    BY <1>8
  <2> HIDE DEF k
  <2>3. g[k] = g[n] \cup {t \in DOMAIN cat : cat[t].parent \in g[n]}
    BY <1>5, <2>1
  <2>4. h[k] = h[n] \cup {t \in DOMAIN cat : cat[t].parent \in h[n]}
    BY <1>6, <2>1
  <2>5. g[k] = h[k]
    BY <2>2, <2>3, <2>4
  <2> QED
    BY <2>1, <2>5 DEF k
<1> HIDE DEF A
<1>9. N \in 0 .. N /\ \A n \in 0 .. N : n \in A
    BY <1>7, <1>8, BoundedInduction
<1>10. g[N] = h[N]
    BY <1>9 DEF A
<1>11. h[M] = h[N] \cup {t \in DOMAIN cat : cat[t].parent \in h[N]}
    BY <1>3, <1>6
<1> QED
    BY <1>1, <1>2, <1>4, <1>10, <1>11 DEF M

\* Who is found stays found, and who descends from a thread of a set descends
\* from the set.
LEMMA DescendantsGrow ==
    ASSUME NEW cat, NEW S, NEW m \in Nat, NEW n \in Nat, m <= n
    PROVE  /\ Descendants(cat, S, m) \subseteq Descendants(cat, S, n)
           /\ \A r \in S : Descendants(cat, {r}, n) \subseteq Descendants(cat, S, n)
<1> DEFINE D == [k \in Nat |-> Descendants(cat, S, k)]
           A == {k \in Nat : m <= k => D[m] \subseteq D[k]}
<1>1. \A k \in Nat : D[k] \subseteq D[k + 1]
    BY DescendantsStep
<1> HIDE DEF D
<1>2. 0 \in A
  <2>1. 0 \in Nat /\ (m <= 0 => m = 0)
    OBVIOUS
  <2> QED
    BY <2>1
<1>3. ASSUME NEW k \in Nat, k \in A PROVE k + 1 \in A
  <2>1. k + 1 \in Nat /\ (m <= k + 1 => m <= k \/ m = k + 1)
    OBVIOUS
  <2>2. D[k] \subseteq D[k + 1] /\ (m <= k => D[m] \subseteq D[k])
    BY <1>1, <1>3
  <2> QED
    BY <2>1, <2>2
<1> HIDE DEF A
<1>4. \A k \in Nat : k \in A
    BY <1>2, <1>3, SetInduction
<1>5. D[m] \subseteq D[n]
    BY <1>4 DEF A
<1>6. Descendants(cat, S, m) \subseteq Descendants(cat, S, n)
    BY <1>5 DEF D
<1>7. ASSUME NEW r \in S PROVE Descendants(cat, {r}, n) \subseteq Descendants(cat, S, n)
  <2> DEFINE R == [k \in Nat |-> Descendants(cat, {r}, k)]
             B == {k \in Nat : R[k] \subseteq D[k]}
  <2>1. R[0] = {r} /\ D[0] = S
    BY DescendantsStep, 0 \in Nat DEF D
  <2>2. \A k \in Nat : /\ R[k + 1] = R[k] \cup {t \in DOMAIN cat : cat[t].parent \in R[k]}
                       /\ D[k + 1] = D[k] \cup {t \in DOMAIN cat : cat[t].parent \in D[k]}
    BY DescendantsStep DEF D
  <2> HIDE DEF R
  <2>3. 0 \in B
    BY <2>1
  <2>4. ASSUME NEW k \in Nat, k \in B PROVE k + 1 \in B
    <3>1. R[k + 1] \subseteq D[k + 1]
      BY <2>2, <2>4
    <3> QED
      BY <3>1
  <2> HIDE DEF B
  <2>5. \A k \in Nat : k \in B
    BY <2>3, <2>4, SetInduction
  <2>6. R[n] \subseteq D[n]
    BY <2>5 DEF B
  <2> QED
    BY <2>6 DEF R, D
<1> QED
    BY <1>6, <1>7

\* Who descends from a set descends from one of its threads.
LEMMA DescendsFromOne ==
    ASSUME NEW cat, NEW S, NEW N \in Nat, NEW t \in Descendants(cat, S, N)
    PROVE  t \in S \cup DOMAIN cat /\ \E r \in S : t \in Descendants(cat, {r}, N)
<1> DEFINE D == [k \in Nat |-> Descendants(cat, S, k)]
           R == [r \in S |-> [k \in Nat |-> Descendants(cat, {r}, k)]]
           A == {k \in Nat : \A x \in D[k] : x \in S \cup DOMAIN cat /\ \E r \in S : x \in R[r][k]}
<1>1. D[0] = S /\ \A r \in S : R[r][0] = {r}
    BY DescendantsStep, 0 \in Nat
<1>2. \A k \in Nat : D[k + 1] = D[k] \cup {x \in DOMAIN cat : cat[x].parent \in D[k]}
    BY DescendantsStep
<1>3. \A r \in S : \A k \in Nat : R[r][k + 1] = R[r][k] \cup {x \in DOMAIN cat : cat[x].parent \in R[r][k]}
    BY DescendantsStep
<1> HIDE DEF D, R
<1>4. 0 \in A
    BY <1>1
<1>5. ASSUME NEW k \in Nat, k \in A PROVE k + 1 \in A
  <2>1. ASSUME NEW x \in D[k + 1] PROVE x \in S \cup DOMAIN cat /\ \E r \in S : x \in R[r][k + 1]
    BY <1>2, <1>3, <1>5
  <2> QED
    BY <2>1
<1> HIDE DEF A
<1>6. N \in A
    BY <1>4, <1>5, SetInduction
<1>7. \A x \in D[N] : x \in S \cup DOMAIN cat /\ \E r \in S : x \in R[r][N]
    BY <1>6 DEF A
<1> QED
    BY <1>7 DEF D, R

\* The catalog and what is derived from it
CatalogOK ==
    /\ IsCatalog(catalog) /\ standalone \subseteq Threads /\ DOMAIN rootOf \subseteq Threads
    /\ \A t \in DOMAIN rootOf : rootOf[t] \in Threads

\* The memberships of a catalog are made of its threads.
LEMMA MembershipType ==
    ASSUME NEW cat, IsCatalog(cat)
    PROVE  /\ StandaloneMembership(cat) \subseteq Threads
           /\ DOMAIN RootMembership(cat) \subseteq Threads
           /\ \A t \in DOMAIN RootMembership(cat) : RootMembership(cat)[t] \in Threads
<1>1. Roots(cat) \subseteq DOMAIN cat /\ DOMAIN cat \subseteq Threads
    BY DEF Roots, IsCatalog
<1>2. ASSUME NEW t \in StandaloneMembership(cat) PROVE t \in Threads
  <2> DEFINE S == {r \in Roots(cat) : cat[r].proj = NoProject /\ cat[r].native}
  <2>1. t \in Descendants(cat, S, Cardinality(Threads)) /\ S \subseteq DOMAIN cat
    BY <1>1, <1>2 DEF StandaloneMembership
  <2>2. Cardinality(Threads) \in Nat
    BY EffectiveSourceAssumption, FS_CardinalityType
  <2> HIDE DEF S
  <2> QED
    BY <1>1, <2>1, <2>2, DescendsFromOne
<1>3. ASSUME NEW t \in Descendants(cat, Roots(cat), TreeDepth)
      PROVE  t \in Threads /\ RootMembership(cat)[t] \in Threads
  <2>1. t \in Threads /\ \E r \in Roots(cat) : t \in SessionTree(cat, r)
    BY <1>1, EffectiveSourceAssumption, DescendsFromOne DEF SessionTree
  <2>2. (CHOOSE r \in Roots(cat) : t \in SessionTree(cat, r)) \in Roots(cat)
    BY <2>1
  <2> QED
    BY <1>1, <2>1, <2>2 DEF RootMembership
<1> QED
    BY <1>2, <1>3 DEF RootMembership

\* Rows upon a catalog make a catalog.
LEMMA CatalogWithType ==
    ASSUME IsCatalog(catalog), NEW rows, IsCatalog(rows)
    PROVE  IsCatalog(CatalogWith(rows))
<1> DEFINE by == [t \in DOMAIN rows |->
                     IF t \in DOMAIN catalog THEN MergedRow(catalog[t], rows[t]) ELSE rows[t]]
<1>1. ASSUME NEW old \in CatalogRow, NEW row \in CatalogRow PROVE MergedRow(old, row) \in CatalogRow
  <2> DEFINE u == Max({old.updated, row.updated})
  <2>1. /\ old.updated \in 0 .. MaxTime /\ row.updated \in 0 .. MaxTime /\ MaxTime \in Nat
        /\ old.parent \in Threads \cup {NoParent} /\ row.parent \in Threads \cup {NoParent}
        /\ old.proj \in Projects \cup {NoProject} /\ row.proj \in Projects \cup {NoProject}
        /\ (old.native \/ row.native) \in BOOLEAN
    BY EffectiveSourceAssumption DEF CatalogRow
  <2>2. u \in 0 .. MaxTime
    <3> DEFINE x == old.updated
               y == row.updated
    <3>1. x \in Nat /\ y \in Nat
      BY <2>1
    <3>2. Max({x, y}) = IF x >= y THEN x ELSE y
      <4> HIDE DEF x, y
      <4> QED
        BY <3>1, MinMaxOfTwo
    <3> QED
      BY <2>1, <3>2
  <2> HIDE DEF u
  <2>3. [parent |-> Known(row.parent, old.parent, NoParent), proj |-> Known(row.proj, old.proj, NoProject),
         native |-> old.native \/ row.native, updated |-> u] \in CatalogRow
    BY <2>1, <2>2 DEF CatalogRow, Known
  <2> QED
    BY <2>3 DEF MergedRow, u
<1>2. \A t \in DOMAIN rows : by[t] \in CatalogRow
    BY <1>1 DEF IsCatalog
<1>3. CatalogWith(rows) = Updated(catalog, by) /\ DOMAIN by = DOMAIN rows
    BY DEF CatalogWith
<1> HIDE DEF by
<1> QED
    BY <1>2, <1>3 DEF IsCatalog, Updated

\* The last of some events is one of them.
LEMMA LatestType ==
    ASSUME NEW S \in SUBSET Facts, S # {}
    PROVE  Latest(S) \in S
<1> DEFINE id == [f \in S |-> f.id]
<1>1. IsFiniteSet(S) /\ \A f \in S : f.id \in Nat
    BY EffectiveSourceAssumption, FS_Subset DEF Fact
<1>2. \A f \in S : id[f] = f.id /\ id[f] \in Nat
    BY <1>1
<1> HIDE DEF id
<1>3. \E f \in S : \A g \in S : id[f] >= id[g]
    BY <1>1, <1>2, GreatestWeight
<1>4. \E f \in S : \A g \in S : g.id <= f.id
    BY <1>1, <1>2, <1>3
<1> QED
    BY <1>4 DEF Latest

\* What a batch of events says of their threads is a catalog.
LEMMA CatalogAfterType ==
    ASSUME IsCatalog(catalog), NEW batch \in SUBSET Facts
    PROVE  IsCatalog(CatalogAfter(batch))
<1>1. ASSUME NEW S \in SUBSET Facts, S # {} PROVE EventRow(S) \in CatalogRow
  <2> DEFINE childs == {f \in S : f.parent # NoParent}
             placed == {f \in S : f.proj # NoProject}
             times == {f.time : f \in S}
             u == Max(times)
             parent == IF childs = {} THEN NoParent ELSE Latest(childs).parent
             proj == IF placed = {} THEN NoProject ELSE Latest(placed).proj
  <2>1. \A f \in S : f.time \in 0 .. MaxTime /\ f.parent \in Threads \cup {NoParent}
                     /\ f.proj \in Projects \cup {NoProject}
    BY EffectiveSourceAssumption DEF Fact
  <2>2. MaxTime \in Nat
    BY EffectiveSourceAssumption
  <2>3. u \in times
    <3>1. times \subseteq Nat /\ times # {} /\ \A n \in times : n <= MaxTime
      BY <1>1, <2>1, <2>2
    <3> HIDE DEF times
    <3>2. \E n \in times : \A m \in times : n >= m
      BY <2>2, <3>1, GreatestElement
    <3> QED
      BY <3>2 DEF Max, u
  <2>4. u \in 0 .. MaxTime
    BY <2>1, <2>3
  <2>5. parent \in Threads \cup {NoParent}
    <3>1. childs \in SUBSET Facts /\ childs \subseteq S
      OBVIOUS
    <3> HIDE DEF childs
    <3> QED
      BY <2>1, <3>1, LatestType
  <2>6. proj \in Projects \cup {NoProject}
    <3>1. placed \in SUBSET Facts /\ placed \subseteq S
      OBVIOUS
    <3> HIDE DEF placed
    <3> QED
      BY <2>1, <3>1, LatestType
  <2>7. EventRow(S) = [parent |-> parent, proj |-> proj, native |-> FALSE, updated |-> u]
    BY DEF EventRow
  <2> HIDE DEF parent, proj, u
  <2> QED
    BY <2>4, <2>5, <2>6, <2>7 DEF CatalogRow
<1> DEFINE rows == [t \in {f.thread : f \in batch} |-> EventRow({f \in batch : f.thread = t})]
<1>2. \A f \in batch : f.thread \in Threads
    BY EffectiveSourceAssumption DEF Fact
<1>3. \A t \in DOMAIN rows : rows[t] \in CatalogRow
  <2> SUFFICES ASSUME NEW e \in batch PROVE EventRow({f \in batch : f.thread = e.thread}) \in CatalogRow
    OBVIOUS
  <2> DEFINE S == {f \in batch : f.thread = e.thread}
  <2>1. S \in SUBSET Facts /\ S # {}
    OBVIOUS
  <2> HIDE DEF S
  <2>2. EventRow(S) \in CatalogRow
    BY <1>1, <2>1
  <2> QED
    BY <2>2 DEF S
<1>4. IsCatalog(rows)
    BY <1>2, <1>3 DEF IsCatalog
<1> HIDE DEF rows
<1>5. IsCatalog(CatalogWith(rows))
    BY <1>4, CatalogWithType
<1> QED
    BY <1>5 DEF CatalogAfter, rows

\* The steps of the program keep the catalog a catalog, and its memberships.
LEMMA CatalogNext ==
    ASSUME CatalogOK, [Next]_vars
    PROVE  CatalogOK'
<1>1. ASSUME NEW batch \in Batches, Ingest(batch) PROVE CatalogOK'
  <2>1. catalog' = CatalogAfter(batch) /\ UNCHANGED <<standalone, rootOf>>
    BY <1>1 DEF Ingest, InsertSamples
  <2>2. batch \in SUBSET Facts /\ IsCatalog(catalog)
    BY DashboardAssumption DEF CatalogOK
  <2>3. IsCatalog(catalog')
    BY <2>1, <2>2, CatalogAfterType
  <2> QED
    BY <2>1, <2>3 DEF CatalogOK
<1>2. ASSUME NEW rows \in Scans, Scan(rows) PROVE CatalogOK'
  <2>1. /\ catalog' = CatalogWith(rows) /\ standalone' = StandaloneMembership(catalog')
        /\ rootOf' = RootMembership(catalog')
    BY <1>2 DEF Scan, SyncCatalog
  <2>2. IsCatalog(rows) /\ IsCatalog(catalog)
    BY DashboardAssumption DEF CatalogOK
  <2>3. IsCatalog(catalog')
    BY <2>1, <2>2, CatalogWithType
  <2> QED
    BY <2>1, <2>3, MembershipType DEF CatalogOK
<1>3. ASSUME UNCHANGED <<catalog, standalone, rootOf>> PROVE CatalogOK'
    BY <1>3 DEF CatalogOK, IsCatalog
<1>4. ASSUME \/ \E batch \in RebuiltBatches : Rebuild(batch)
             \/ \E thread \in Threads : Withdraw(thread)
             \/ \E answer \in Answers : StoreOfficial(answer)
             \/ \E n \in Counts : Confirm(n)
             \/ Compact \/ PassTime \/ OtherReader \/ UNCHANGED vars
      PROVE  UNCHANGED <<catalog, standalone, rootOf>>
    BY <1>4 DEF Rebuild, InsertRebuilt, Withdraw, WithdrawRebuilt, StoreOfficial, Confirm, Compact, CompactRaw,
                PassTime, OtherReader, Refresh, vars, tables
<1>5. ASSUME Page PROVE UNCHANGED <<catalog, standalone, rootOf>>
    BY <1>5 DEF Page, OpenPage, Navigate, TimerFires, PostReturns, Post, Change, PostStores, PostFails,
                Invalidate, Tick, tables
<1>6. ASSUME Serve PROVE UNCHANGED <<catalog, standalone, rootOf>>
    BY <1>6 DEF Serve, Start, RefreshFirst, Read, Finish, Fail, Deliver, Refresh, tables
<1> QED
    BY <1>1, <1>2, <1>3, <1>4, <1>5, <1>6 DEF Next, Write

\* A later instant has no earlier unit.
LEMMA UnitsGrow ==
    ASSUME NEW n \in Nat \ {0}, NEW t \in Nat, NEW u \in Nat, t <= u
    PROVE  t \div n <= u \div n /\ t \div n \in Nat /\ u \div n \in Nat
<1> DEFINE q == t \div n
           p == u \div n
<1>1. q \in Nat /\ p \in Nat /\ q * n <= t /\ u < p * n + n
    BY RoundsDown
<1> HIDE DEF q, p
<1>2. ASSUME p + 1 <= q PROVE FALSE
  <2>1. (p + 1) * n <= q * n /\ (p + 1) * n = p * n + n
    BY <1>1, <1>2
  <2>2. p * n \in Nat /\ q * n \in Nat
    BY <1>1
  <2> QED
    BY <1>1, <2>1, <2>2
<1>3. q <= p
    BY <1>1, <1>2
<1> QED
    BY <1>1, <1>3 DEF q, p

\* Facts have their days.
LEMMA DayType == \A f \in Facts : Day(f.time) \in Days /\ Day(f.time) \in Nat
<1> SUFFICES ASSUME NEW f \in Facts PROVE Day(f.time) \in Days /\ Day(f.time) \in Nat
    OBVIOUS
<1> DEFINE t == f.time
<1>1. t \in Nat /\ MaxTime \in Nat /\ t <= MaxTime /\ DayLength \in Nat \ {0}
    BY EffectiveSourceAssumption DEF Fact
<1> HIDE DEF t
<1>2. t \div DayLength <= MaxTime \div DayLength /\ t \div DayLength \in Nat /\ MaxTime \div DayLength \in Nat
    BY <1>1, UnitsGrow
<1> QED
    BY <1>2 DEF Day, Days, t

\* The choice is one of sources, for days of threads.
ChoiceOK ==
    /\ dirty \in BOOLEAN /\ choice \in [DOMAIN choice -> Sources]
    /\ \A k \in DOMAIN choice : k[1] \in Days /\ k[2] \in Threads

\* A refresh keeps it so.
LEMMA ChoiceRefreshed ==
    ASSUME ChoiceOK, sampled \subseteq Facts, rebuilt \subseteq Facts, Refresh
    PROVE  ChoiceOK'
<1>1. CASE dirty
  <2>1. choice' = BestChoice /\ dirty' = FALSE
    BY <1>1 DEF Refresh, RefreshEffectiveSourceSelection
  <2> DEFINE best == BestChoice
  <2>2. best = [k \in DOMAIN best |-> BestSource(k)]
        /\ DOMAIN best = {KeyOf(f) : f \in Confirmed(sampled) \cup rebuilt}
    BY DEF BestChoice
  <2>3. \A k : BestSource(k) \in Sources
    BY DEF BestSource, Sources
  <2>4. \A f \in Confirmed(sampled) \cup rebuilt : Day(f.time) \in Days /\ f.thread \in Threads
    BY EffectiveSourceAssumption, DayType DEF Confirmed, Fact
  <2>5. \A k \in DOMAIN best : k[1] \in Days /\ k[2] \in Threads
    BY <2>2, <2>4 DEF KeyOf
  <2> HIDE DEF best
  <2>6. best \in [DOMAIN best -> Sources]
    BY <2>2, <2>3
  <2>7. choice' = best
    BY <2>1 DEF best
  <2> QED
    BY <2>1, <2>5, <2>6, <2>7 DEF ChoiceOK
<1>2. CASE ~dirty
  <2>1. UNCHANGED <<choice, dirty>>
    BY <1>2 DEF Refresh, RefreshEffectiveSourceSelection
  <2> QED
    BY <2>1 DEF ChoiceOK
<1> QED
    BY <1>1, <1>2

\* Every transaction on the tables keeps it so.
LEMMA ChoiceNext ==
    ASSUME ChoiceOK, EvidenceInv, [Next]_vars
    PROVE  ChoiceOK'
<1>1. ASSUME choice' = choice, dirty' \in BOOLEAN PROVE ChoiceOK'
    BY <1>1 DEF ChoiceOK
<1>2. \A a, b : Dirtied(a, b) \in BOOLEAN
    BY DEF ChoiceOK, Dirtied
<1>3. ASSUME NEW batch, InsertSamples(batch) PROVE choice' = choice /\ dirty' \in BOOLEAN
    BY <1>2, <1>3 DEF InsertSamples
<1>4. ASSUME NEW batch, InsertRebuilt(batch) PROVE choice' = choice /\ dirty' \in BOOLEAN
    BY <1>2, <1>4 DEF InsertRebuilt
<1>5. ASSUME NEW thread, WithdrawRebuilt(thread) PROVE choice' = choice /\ dirty' \in BOOLEAN
    BY <1>2, <1>5 DEF WithdrawRebuilt
<1>6. ASSUME NEW before, CompactRaw(before) PROVE choice' = choice /\ dirty' \in BOOLEAN
    BY <1>6 DEF CompactRaw, ChoiceOK
<1>7. ASSUME NEW rows, SyncCatalog(rows) PROVE choice' = choice /\ dirty' \in BOOLEAN
    BY <1>7 DEF SyncCatalog, ChoiceOK
<1>8. ASSUME UNCHANGED tables PROVE choice' = choice /\ dirty' \in BOOLEAN
    BY <1>8 DEF tables, ChoiceOK
<1>9. ASSUME Refresh PROVE ChoiceOK'
    BY <1>9, ChoiceRefreshed DEF EvidenceInv
<1> QED
    BY <1>1, <1>3, <1>4, <1>5, <1>6, <1>7, <1>8, <1>9, StepsOnTables

\* What the backend has said: every account has both its profile and its buckets,
\* and no answer is stamped later than the last write.
OfficialOK ==
    /\ DOMAIN snapshot \subseteq Accounts /\ DOMAIN buckets = DOMAIN snapshot
    /\ \A a \in DOMAIN snapshot :
          /\ snapshot[a].observed \in 1 .. writes /\ snapshot[a].lifetime \in Nat \cup {NoValue}
          /\ DOMAIN buckets[a] \subseteq Days /\ \A d \in DOMAIN buckets[a] : buckets[a][d] \in Nat
    /\ confirmedCount \in 0 .. 64

\* An answer that is stored keeps it so.
LEMMA OfficialStored ==
    ASSUME OfficialOK, writes \in Nat, writes' = writes + 1,
           NEW answer \in Answers, UpsertOfficialAccountUsage(answer[1], answer[2], Stamp)
    PROVE  OfficialOK'
<1> DEFINE a == answer[1]
           usage == answer[2]
           row == [lifetime |-> usage.lifetime, observed |-> Stamp]
           days == Updated(BucketsOf(a), usage.days)
           T == {0} \cup {snapshot[x].observed : x \in DOMAIN snapshot}
<1>1. a \in Accounts /\ IsOfficialUsage(usage)
    BY DashboardAssumption
<1>2. Stamp \in 1 .. writes'
  <2>1. T \subseteq Nat /\ T # {} /\ \A n \in T : n <= writes
    BY DEF OfficialOK
  <2> HIDE DEF T
  <2>2. \E n \in T : \A m \in T : n >= m
    BY <2>1, GreatestElement
  <2>3. Max(T) \in T
    BY <2>2 DEF Max
  <2>4. Max(T) \in Nat /\ Max(T) <= writes
    BY <2>1, <2>3
  <2>5. Stamp = 1 + Max(T)
    BY DEF Stamp, T
  <2> QED
    BY <2>4, <2>5
<1>3. /\ snapshot' = Updated(snapshot, [x \in {a} |-> row])
      /\ buckets' = Updated(buckets, [x \in {a} |-> days]) /\ confirmedCount' = confirmedCount
    BY DEF UpsertOfficialAccountUsage
<1>4. row.lifetime \in Nat \cup {NoValue} /\ row.observed = Stamp
    BY <1>1 DEF IsOfficialUsage
<1>5. DOMAIN days \subseteq Days /\ \A d \in DOMAIN days : days[d] \in Nat
  <2>1. DOMAIN BucketsOf(a) \subseteq Days /\ \A d \in DOMAIN BucketsOf(a) : BucketsOf(a)[d] \in Nat
    BY DEF OfficialOK, BucketsOf
  <2>2. DOMAIN usage.days \subseteq Days /\ \A d \in DOMAIN usage.days : usage.days[d] \in Nat
    BY <1>1 DEF IsOfficialUsage
  <2> HIDE DEF a, usage
  <2> QED
    BY <2>1, <2>2 DEF Updated
<1> HIDE DEF row, days, a, usage
<1>6. /\ DOMAIN snapshot' = DOMAIN snapshot \cup {a} /\ DOMAIN buckets' = DOMAIN buckets \cup {a}
      /\ \A x \in DOMAIN snapshot' : /\ snapshot'[x] = IF x = a THEN row ELSE snapshot[x]
                                     /\ buckets'[x] = IF x = a THEN days ELSE buckets[x]
    BY <1>3 DEF Updated, OfficialOK
<1>7. \A x \in DOMAIN snapshot : snapshot[x].observed \in 1 .. writes'
    BY DEF OfficialOK
<1> QED
    BY <1>1, <1>2, <1>3, <1>4, <1>5, <1>6, <1>7 DEF OfficialOK

\* Every step keeps it so.
LEMMA OfficialNext ==
    ASSUME OfficialOK, RequestsOK, [Next]_vars
    PROVE  OfficialOK'
<1>1. writes \in Nat
    BY DEF RequestsOK
<1>2. ASSUME UNCHANGED official, writes' = writes \/ writes' = writes + 1 PROVE OfficialOK'
    BY <1>1, <1>2 DEF OfficialOK, official
<1>3. ASSUME NEW n, SetUserConfirmedAccountCount(n), writes' = writes + 1 PROVE OfficialOK'
    BY <1>1, <1>3 DEF OfficialOK, SetUserConfirmedAccountCount
<1>4. ASSUME NEW answer \in Answers, StoreOfficial(answer) PROVE OfficialOK'
  <2>1. writes' = writes + 1 /\ UpsertOfficialAccountUsage(answer[1], answer[2], Stamp)
    BY <1>4 DEF StoreOfficial, Writes
  <2> QED
    BY <1>1, <2>1, OfficialStored
<1>5. ASSUME NEW n \in Counts, Confirm(n) PROVE OfficialOK'
    BY <1>3, <1>5 DEF Confirm, Writes
<1>6. ASSUME PostStores PROVE OfficialOK'
  <2>1. writes' = writes + 1
    BY <1>6 DEF PostStores, Writes
  <2>2. \/ \E answer \in Answers : UpsertOfficialAccountUsage(answer[1], answer[2], Stamp)
        \/ \E n \in Counts : SetUserConfirmedAccountCount(n)
    BY <1>6 DEF PostStores
  <2> QED
    BY <1>1, <1>3, <2>1, <2>2, OfficialStored
<1>7. ASSUME \/ \E batch \in Batches : Ingest(batch)
             \/ \E batch \in RebuiltBatches : Rebuild(batch)
             \/ \E thread \in Threads : Withdraw(thread)
             \/ \E rows \in Scans : Scan(rows)
             \/ Compact
      PROVE  UNCHANGED official /\ writes' = writes + 1
    BY <1>7 DEF Ingest, Rebuild, Withdraw, Scan, Compact, Writes
<1>8. ASSUME PassTime \/ OtherReader \/ UNCHANGED vars PROVE UNCHANGED official /\ writes' = writes
    BY <1>8 DEF PassTime, OtherReader, vars, views
<1>9. ASSUME Page, ~PostStores PROVE UNCHANGED official /\ writes' = writes
    BY <1>9 DEF Page, OpenPage, Navigate, TimerFires, PostReturns, Post, Change, PostFails, Invalidate, Tick
<1>10. ASSUME Serve PROVE UNCHANGED official /\ writes' = writes
    BY <1>10 DEF Serve, Start, RefreshFirst, Read, Finish, Fail, Deliver
<1> QED
    BY <1>2, <1>4, <1>5, <1>6, <1>7, <1>8, <1>9, <1>10 DEF Next, Write

\* The tables, the page and the requests have their types: the inductive
\* invariant of what the dashboard shows.
TypeInv == EvidenceInv /\ RequestsOK /\ PageOK /\ CatalogOK /\ ChoiceOK /\ OfficialOK

\* The program begins with it and keeps it.
LEMMA TypeInvariance == Spec => []TypeInv
<1>1. Init => TypeInv
  <2> SUFFICES ASSUME Init PROVE TypeInv
    OBVIOUS
  <2>1. EvidenceInv /\ RequestsOK /\ PageOK
    BY EvidenceInit, RequestsInit
  <2>2. CatalogOK /\ ChoiceOK /\ OfficialOK
    BY DEF Init, CatalogOK, IsCatalog, ChoiceOK, OfficialOK
  <2> QED
    BY <2>1, <2>2 DEF TypeInv
<1>2. TypeInv /\ [Next]_vars => TypeInv'
  <2> SUFFICES ASSUME TypeInv, [Next]_vars PROVE TypeInv'
    OBVIOUS
  <2>1. EvidenceInv /\ RequestsOK /\ PageOK /\ CatalogOK /\ ChoiceOK /\ OfficialOK
    BY DEF TypeInv
  <2>2. EvidenceInv' /\ RequestsOK' /\ CatalogOK' /\ ChoiceOK' /\ OfficialOK'
    BY <2>1, EvidenceNext, RequestsNext, CatalogNext, ChoiceNext, OfficialNext
  <2>3. PageOK'
    BY <2>1, PageNext DEF PageKept
  <2> QED
    BY <2>2, <2>3 DEF TypeInv
<1> QED
    BY <1>1, <1>2, PTL DEF Spec

\* Type correctness: the choice of evidence is of days and threads that exist, the
\* memberships are made of threads, no answer has a stamp of the future.
THEOREM TypeCorrect == Spec => []DashboardTypeOK
<1>1. TypeInv => DashboardTypeOK
  <2> SUFFICES ASSUME TypeInv PROVE DashboardTypeOK
    OBVIOUS
  <2>1. /\ sampled \subseteq Facts /\ raw \subseteq sampled /\ rebuilt \subseteq Facts
        /\ now \in FirstNow .. MaxTime
    BY DEF TypeInv, EvidenceInv
  <2>2. /\ dirty \in BOOLEAN /\ choice \in [DOMAIN choice -> Sources]
        /\ \A k \in DOMAIN choice : k[1] \in Days /\ k[2] \in Threads
    BY DEF TypeInv, ChoiceOK
  <2>3. /\ IsCatalog(catalog) /\ standalone \subseteq Threads /\ DOMAIN rootOf \subseteq Threads
        /\ \A t \in DOMAIN rootOf : rootOf[t] \in Threads
    BY DEF TypeInv, CatalogOK
  <2>4. writes \in 0 .. MaxWrites /\ requests \in [Slots -> Request]
        /\ (cache # None => cache.age \in 1 .. CacheTtl /\ cache.answer \in Answer)
    BY DEF TypeInv, RequestsOK
  <2>5. /\ DOMAIN snapshot \subseteq Accounts /\ DOMAIN buckets = DOMAIN snapshot
        /\ \A a \in DOMAIN snapshot :
              /\ snapshot[a].observed \in 1 .. MaxWrites /\ snapshot[a].lifetime \in Nat \cup {NoValue}
              /\ DOMAIN buckets[a] \subseteq Days /\ \A d \in DOMAIN buckets[a] : buckets[a][d] \in Nat
        /\ confirmedCount \in 0 .. 64
    <3>1. OfficialOK /\ writes <= MaxWrites /\ writes \in Int /\ MaxWrites \in Int
      BY <2>4, DashboardAssumption DEF TypeInv
    <3>2. \A n \in 1 .. writes : n \in 1 .. MaxWrites
      BY <3>1
    <3> QED
      BY <3>1, <3>2 DEF OfficialOK
  <2>6. /\ client.open \in BOOLEAN /\ client.fetch \in Slots \cup {None}
        /\ client.fetches \in 0 .. MaxFetches /\ client.shown \in Answer \cup {None}
        /\ client.wanted \in 0 .. MaxWrites /\ client.due \in 0 .. MaxWrites \cup {None}
        /\ client.timer \in 0 .. Debounce \cup {None}
        /\ client.post \in {None, "official", "count", "stored", "answered"}
    <3> DEFINE seen == client.seen
    <3>1. client \in PageState(seen)
      BY DEF TypeInv, PageOK
    <3> HIDE DEF seen
    <3> QED
      BY <3>1 DEF PageState
  <2> QED
    BY <2>1, <2>2, <2>3, <2>4, <2>5, <2>6 DEF DashboardTypeOK
<1> QED
    BY <1>1, TypeInvariance, PTL

-----------------------------------------------------------------------------
(* Accounts, their buckets and their totals.                               *)

\* Where a period other than lifetime begins
LEMMA PeriodStart ==
    ASSUME NEW t \in 0 .. MaxTime, NEW label \in PeriodLabels \ {"lifetime"}
    PROVE  LET p == ResolvePeriod(label, t)
           IN  p.label = label /\ p.start \in Nat /\ p.end = t /\ p.start # NoTime /\ p.end # NoTime
<1> USE EffectiveSourceAssumption, QueriesAssumption
<1> DEFINE p == ResolvePeriod(label, t)
           unit == CalendarUnit(label)
           start == (t \div unit) * unit
<1>1. t \in Nat /\ \A n \in Nat : n # NoTime
    OBVIOUS
<1>2. CASE label \in {"today", "week"}
  <2>1. unit \in Nat \ {0}
    BY DEF CalendarUnit
  <2> HIDE DEF unit
  <2>2. start \in Nat
    BY <1>1, <2>1, RoundsDown
  <2> HIDE DEF start
  <2>3. p = CalendarPeriod(label, t)
    BY <1>2 DEF ResolvePeriod
  <2>4. p.label = label /\ p.start = start /\ p.end = t
    BY <2>3 DEF CalendarPeriod, start, unit
  <2> QED
    BY <1>1, <2>2, <2>4
<1>3. CASE label \in {"rolling7", "rolling30"}
  <2> DEFINE length == IF label = "rolling7" THEN RollingLength ELSE LongLength
  <2>1. p = RollingPeriod(label, t)
    BY <1>3 DEF ResolvePeriod
  <2>2. p.label = label /\ p.start = Before(t, length) /\ p.end = t
    BY <2>1 DEF RollingPeriod
  <2>3. Before(t, length) \in Nat
    BY <1>1 DEF Before
  <2> QED
    BY <1>1, <2>2, <2>3
<1> QED
    BY <1>2, <1>3 DEF PeriodLabels

\* Every account has finitely many buckets, one without a profile has none.
LEMMA BucketsType ==
    ASSUME OfficialOK, NEW a
    PROVE  /\ DOMAIN BucketsOf(a) \subseteq Days /\ DOMAIN BucketsOf(a) \subseteq Nat
           /\ IsFiniteSet(DOMAIN BucketsOf(a)) /\ IsFiniteSet(Days) /\ Days \subseteq Nat
           /\ \A d \in DOMAIN BucketsOf(a) : BucketsOf(a)[d] \in Nat
           /\ a \notin OfficialAccounts => DOMAIN BucketsOf(a) = {}
           /\ \A d : BucketOn(a, d) \in Nat
<1>1. Day(MaxTime) \in Nat
    BY EffectiveSourceAssumption, RoundsDown DEF Day
<1>2. IsFiniteSet(Days) /\ Days \subseteq Nat
    BY <1>1, FS_Interval, 0 \in Int DEF Days
<1>3. /\ DOMAIN BucketsOf(a) \subseteq Days
      /\ \A d \in DOMAIN BucketsOf(a) : BucketsOf(a)[d] \in Nat
      /\ a \notin OfficialAccounts => DOMAIN BucketsOf(a) = {}
    BY DEF OfficialOK, BucketsOf, OfficialAccounts
<1>4. IsFiniteSet(DOMAIN BucketsOf(a))
    BY <1>2, <1>3, FS_Subset
<1>5. \A d : BucketOn(a, d) \in Nat
    BY <1>3 DEF BucketOn
<1> QED
    BY <1>2, <1>3, <1>4, <1>5

\* The coverage of an account reaches from its first bucket to its last.
LEMMA CoverageDays ==
    ASSUME OfficialOK, NEW a, DOMAIN BucketsOf(a) # {}
    PROVE  /\ CoverageStart(a) \in DOMAIN BucketsOf(a) /\ CoverageThrough(a) \in DOMAIN BucketsOf(a)
           /\ \A d \in DOMAIN BucketsOf(a) : CoverageStart(a) <= d /\ d <= CoverageThrough(a)
<1> DEFINE T == DOMAIN BucketsOf(a)
           top == Day(MaxTime)
<1>1. T \subseteq Nat /\ T # {} /\ top \in Nat /\ \A n \in T : n <= top
  <2>1. T \subseteq Days /\ T \subseteq Nat
    BY BucketsType
  <2>2. top \in Nat
    BY EffectiveSourceAssumption, RoundsDown DEF Day
  <2> QED
    BY <2>1, <2>2 DEF Days
<1> HIDE DEF T, top
<1>2. (\E n \in T : \A m \in T : n <= m) /\ (\E n \in T : \A m \in T : n >= m)
    BY <1>1, LeastElement, GreatestElement
<1>3. Min(T) \in T /\ (\A m \in T : Min(T) <= m) /\ Max(T) \in T /\ (\A m \in T : Max(T) >= m)
    BY <1>2 DEF Min, Max
<1>4. \A m \in T : m <= Max(T)
    BY <1>1, <1>3
<1> QED
    BY <1>3, <1>4 DEF T, CoverageStart, CoverageThrough

\* The accounts a total is of, those that have a profile and those that have buckets
LEMMA ScopeShape ==
    ASSUME TypeInv, NEW acct \in Scopes
    PROVE  /\ IsFiniteSet(InScope(acct)) /\ InScope(acct) \subseteq Accounts
           /\ Successful(acct) \subseteq InScope(acct) /\ Covered(acct) \subseteq Successful(acct)
           /\ Asked(acct) \subseteq InScope(acct)
           /\ \A a \in InScope(acct) : a \in Covered(acct) <=> DOMAIN BucketsOf(a) # {}
           /\ acct # Unfiltered => acct \in Accounts /\ InScope(acct) = {acct} /\ Asked(acct) = {acct}
<1>1. Observed \subseteq Accounts
  <2>1. OfficialAccounts \subseteq Accounts
    BY DEF TypeInv, OfficialOK, OfficialAccounts
  <2>2. Verified \subseteq Accounts /\ DOMAIN Aliases \subseteq Accounts
    BY ReconciliationAssumption
  <2>3. \A f \in sampled : f.acct \in Accounts \cup {NoAccount}
    BY EffectiveSourceAssumption DEF TypeInv, EvidenceInv, Fact
  <2> QED
    BY <2>1, <2>2, <2>3 DEF Observed, Canonical, Provisional
<1>2. Unfiltered \notin Accounts /\ IsFiniteSet(Accounts)
    BY EffectiveSourceAssumption, ReconciliationAssumption
<1>3. OfficialAccounts \subseteq Observed
    BY DEF Observed, Canonical
<1>4. \A a : a \notin OfficialAccounts => DOMAIN BucketsOf(a) = {}
    BY BucketsType DEF TypeInv
<1>5. acct = Unfiltered \/ (acct # Unfiltered /\ acct \in Observed)
    BY <1>1, <1>2 DEF Scopes
<1>6. InScope(acct) \subseteq Accounts /\ Asked(acct) \subseteq InScope(acct)
    BY <1>1, <1>3, <1>5 DEF InScope, Asked
<1>7. IsFiniteSet(InScope(acct))
    BY <1>2, <1>6, FS_Subset
<1>8. Covered(acct) \subseteq Successful(acct) /\ Successful(acct) \subseteq InScope(acct)
    BY <1>4, <1>6 DEF Covered, Successful
<1>9. ASSUME NEW a \in InScope(acct) PROVE a \in Covered(acct) <=> DOMAIN BucketsOf(a) # {}
    BY <1>4, <1>5, <1>9 DEF Covered, Asked, InScope
<1>10. acct # Unfiltered => acct \in Accounts /\ InScope(acct) = {acct} /\ Asked(acct) = {acct}
    BY <1>1, <1>5 DEF InScope, Asked
<1> QED
    BY <1>6, <1>7, <1>8, <1>9, <1>10

\* The local part and the official part of every account's total
LocalSums(p) == [a \in Accounts |-> LocalUsageAfterCoverage(a, p)]
BucketSums(b) == [a \in Accounts |-> SumFunction(OfficialDailyUsage(a, b))]

\* They are numbers.
LEMMA SumsType ==
    ASSUME TypeInv, NEW p, NEW b
    PROVE  \A a \in Accounts : /\ LocalSums(p)[a] \in Nat /\ BucketSums(b)[a] \in Nat
                               /\ LocalSums(p)[a] = LocalUsageAfterCoverage(a, p)
                               /\ BucketSums(b)[a] = SumFunction(OfficialDailyUsage(a, b))
<1> SUFFICES ASSUME NEW a \in Accounts
             PROVE  LocalUsageAfterCoverage(a, p) \in Nat /\ SumFunction(OfficialDailyUsage(a, b)) \in Nat
    BY DEF LocalSums, BucketSums
<1>1. LocalUsageAfterCoverage(a, p) \in Nat
  <2>1. sampled \subseteq Facts /\ rebuilt \subseteq Facts
    BY DEF TypeInv, EvidenceInv
  <2>2. \A quality : DailyTable(quality) \subseteq Facts
    BY <2>1 DEF DailyTable, Chosen, Confirmed
  <2>3. \A filter : AggregateRollupUsage(filter) \in SUBSET Facts
    BY <2>2 DEF AggregateRollupUsage, BuildRollupFilter
  <2> QED
    BY <2>3, TokensType DEF LocalUsageAfterCoverage
<1>2. SumFunction(OfficialDailyUsage(a, b)) \in Nat
  <2> DEFINE u == OfficialDailyUsage(a, b)
  <2>1. /\ DOMAIN u = {d \in DOMAIN BucketsOf(a) : InBounds(d, b)}
        /\ \A d \in DOMAIN u : u[d] = BucketsOf(a)[d]
    BY DEF OfficialDailyUsage, Restrict
  <2>2. IsFiniteSet(DOMAIN BucketsOf(a)) /\ \A d \in DOMAIN BucketsOf(a) : BucketsOf(a)[d] \in Nat
    BY BucketsType DEF TypeInv
  <2> HIDE DEF u
  <2>3. IsFiniteSet(DOMAIN u) /\ \A d \in DOMAIN u : u[d] \in Nat
    BY <2>1, <2>2, FS_Subset
  <2>4. Total(u, DOMAIN u) \in Nat
    BY <2>3, TotalAdds
  <2> QED
    BY <2>4, SumIsTotal DEF u
<1> QED
    BY <1>1, <1>2

\* A sum over accounts, written with a function of their own, is that of the
\* function of all accounts.
LEMMA SumOfAccounts ==
    ASSUME NEW S, IsFiniteSet(S), NEW f, DOMAIN f = S, NEW w, \A a \in S : f[a] = w[a] /\ w[a] \in Nat
    PROVE  SumFunction(f) = Total(w, S) /\ Total(w, S) \in Nat
<1>1. SumFunction(f) = Total(f, S)
    BY SumIsTotal
<1>2. Total(f, S) = Total(w, S)
    BY TotalSame
<1>3. Total(w, S) \in Nat
    BY TotalAdds
<1> QED
    BY <1>1, <1>2, <1>3

\* The local complement is the local part of every account in scope.
LEMMA LocalComplementIs ==
    ASSUME TypeInv, NEW acct \in Scopes, NEW p
    PROVE  LocalComplement(acct, p) = Total(LocalSums(p), InScope(acct)) /\ LocalComplement(acct, p) \in Nat
<1> DEFINE S == InScope(acct)
           A == InScope(acct) \cap Covered(acct)
           B == InScope(acct) \ Covered(acct)
           w == LocalSums(p)
           f == [a \in A |-> LocalUsageAfterCoverage(a, p)]
           g == [a \in B |-> LocalUsageAfterCoverage(a, p)]
<1>1. IsFiniteSet(S) /\ S \subseteq Accounts
    BY ScopeShape
<1>2. A \cap B = {} /\ A \cup B = S
    OBVIOUS
<1>3. IsFiniteSet(A) /\ IsFiniteSet(B)
    BY <1>1, <1>2, FS_Subset
<1>4. \A a \in S : w[a] \in Nat /\ w[a] = LocalUsageAfterCoverage(a, p)
    BY <1>1, SumsType
<1>5. DOMAIN f = A /\ (\A a \in A : f[a] = w[a] /\ w[a] \in Nat) /\ DOMAIN g = B /\ (\A a \in B : g[a] = w[a] /\ w[a] \in Nat)
    BY <1>4
<1>6. LocalComplement(acct, p) = SumFunction(f) + SumFunction(g)
    BY DEF LocalComplement, LocalTail, MissingAccountLocal
<1> HIDE DEF S, A, B, w, f, g
<1>7. SumFunction(f) = Total(w, A) /\ SumFunction(g) = Total(w, B)
    BY <1>3, <1>5, SumOfAccounts
<1>8. \A a \in A \cup B : w[a] \in Nat
    BY <1>2, <1>4
<1>9. Total(w, A \cup B) = Total(w, A) + Total(w, B) /\ Total(w, A) \in Nat /\ Total(w, B) \in Nat
    BY <1>2, <1>3, <1>8, TotalUnion
<1>10. LocalComplement(acct, p) = Total(w, A) + Total(w, B)
    BY <1>6, <1>7
<1>11. Total(w, A \cup B) = Total(w, S)
    BY <1>2
<1> DEFINE x == Total(w, A)
           y == Total(w, B)
           z == Total(w, S)
           l == LocalComplement(acct, p)
<1>12. z = x + y /\ x \in Nat /\ y \in Nat /\ l = x + y
    BY <1>9, <1>10, <1>11
<1> HIDE DEF x, y, z, l
<1>13. l = z /\ l \in Nat
    BY <1>12
<1> QED
    BY <1>13 DEF S, w, l, z

\* The official total by buckets is the official part of every account with a profile.
LEMMA BucketTotalIs ==
    ASSUME TypeInv, NEW acct \in Scopes, NEW b
    PROVE  BucketTotal(acct, b) = Total(BucketSums(b), Successful(acct)) /\ BucketTotal(acct, b) \in Nat
<1> DEFINE S == Successful(acct)
           w == BucketSums(b)
           f == [a \in S |-> SumFunction(OfficialDailyUsage(a, b))]
<1>1. IsFiniteSet(S) /\ S \subseteq Accounts
    BY ScopeShape, FS_Subset
<1>2. DOMAIN f = S /\ \A a \in S : f[a] = w[a] /\ w[a] \in Nat
    BY <1>1, SumsType
<1>3. BucketTotal(acct, b) = SumFunction(f)
    BY DEF BucketTotal
<1> HIDE DEF S, w, f
<1>4. SumFunction(f) = Total(w, S) /\ Total(w, S) \in Nat
    BY <1>1, <1>2, SumOfAccounts
<1> QED
    BY <1>3, <1>4 DEF S, w

\* Days are numbers.
LEMMA DayIsNat == \A t \in Nat : Day(t) \in Nat
<1> SUFFICES ASSUME NEW t \in Nat PROVE Day(t) \in Nat
    OBVIOUS
<1>1. DayLength \in Nat \ {0}
    BY EffectiveSourceAssumption
<1> QED
    BY <1>1, RoundsDown DEF Day

\* The instant and the label of the period an answer is about
LEMMA PeriodNow ==
    ASSUME TypeInv, NEW label \in PeriodLabels
    PROVE  LET p == Period(label)
           IN  /\ p.label = label
               /\ label # "lifetime" => /\ p.start \in Nat /\ p.start # NoTime
                                        /\ p.end = now /\ p.end # NoTime
                                        /\ Bounds(p).from = Day(p.start) /\ Bounds(p).from \in Nat
                                        /\ Bounds(p).to = IF now % DayLength = 0 THEN Day(now) ELSE Day(now) + 1
                                        /\ Bounds(p).from # NoTime /\ Bounds(p).to # NoTime
<1> USE EffectiveSourceAssumption, QueriesAssumption, DashboardAssumption
<1> DEFINE p == Period(label)
<1>1. now \in 0 .. MaxTime
    BY DEF TypeInv, EvidenceInv
<1>2. CASE label = "lifetime"
  <2>1. p.label = label
    BY <1>2 DEF Period, ResolvePeriod
  <2> QED
    BY <1>2, <2>1
<1>3. CASE label # "lifetime"
  <2>1. p.label = label /\ p.start \in Nat /\ p.end = now /\ p.start # NoTime /\ p.end # NoTime
    BY <1>1, <1>3, PeriodStart DEF Period
  <2> HIDE DEF p
  <2>2. Bounds(p).from = Day(p.start)
        /\ Bounds(p).to = IF now % DayLength = 0 THEN Day(now) ELSE Day(now) + 1
    BY <2>1 DEF Bounds, OfficialDayBounds
  <2> DEFINE first == p.start
             from == Day(p.start)
             to == IF now % DayLength = 0 THEN Day(now) ELSE Day(now) + 1
  <2>3. from \in Nat /\ Day(now) \in Nat
    BY <1>1, <2>1, DayIsNat
  <2> HIDE DEF from
  <2>4. from \in Int /\ to \in Int
    BY <2>3
  <2> QED
    BY <1>3, <2>1, <2>2, <2>3, <2>4 DEF p, from
<1> QED
    BY <1>2, <1>3

\* What a total shows of the backend's numbers
OfficialPart(acct, p) == IF SelectedTotal(acct, p) = NoValue THEN 0 ELSE SelectedTotal(acct, p)
Lifetimes == [a \in Accounts |-> IF a \in DOMAIN snapshot /\ snapshot[a].lifetime # NoValue
                                 THEN snapshot[a].lifetime ELSE 0]

\* The lifetime total, when every account has one
LEMMA LifetimeTotalIs ==
    ASSUME TypeInv, NEW acct \in Scopes, LifetimeAvailable(acct)
    PROVE  LifetimeTotal(acct) = Total(Lifetimes, Successful(acct)) /\ LifetimeTotal(acct) \in Nat
<1> DEFINE S == Successful(acct)
           w == Lifetimes
           f == [a \in S |-> snapshot[a].lifetime]
<1>1. IsFiniteSet(S) /\ S \subseteq Accounts /\ S \subseteq DOMAIN snapshot
    BY ScopeShape, FS_Subset DEF Successful, OfficialAccounts
<1>2. ASSUME NEW a \in S PROVE snapshot[a].lifetime # NoValue /\ snapshot[a].lifetime \in Nat
    BY <1>1 DEF LifetimeAvailable, Successful, TypeInv, OfficialOK
<1>3. DOMAIN f = S /\ \A a \in S : f[a] = w[a] /\ w[a] \in Nat
    BY <1>1, <1>2 DEF Lifetimes
<1>4. LifetimeTotal(acct) = SumFunction(f)
    BY DEF LifetimeTotal
<1> HIDE DEF S, w, f
<1>5. SumFunction(f) = Total(w, S) /\ Total(w, S) \in Nat
    BY <1>1, <1>3, SumOfAccounts
<1> QED
    BY <1>4, <1>5 DEF S, w

\* The cases of a total
LEMMA OfficialPartIs ==
    ASSUME TypeInv, NEW acct \in Scopes, NEW p
    PROVE  /\ OfficialPart(acct, p) \in Nat
           /\ Successful(acct) = {} \/ ~SelectedHasCoverage(acct, p) =>
                    OfficialPart(acct, p) = 0 /\ SelectedTotal(acct, p) = NoValue
           /\ Successful(acct) # {} /\ SelectedHasCoverage(acct, p) =>
                /\ SelectedTotal(acct, p) # NoValue
                /\ p.label = "lifetime" /\ LifetimeAvailable(acct) => OfficialPart(acct, p) = LifetimeTotal(acct)
                /\ ~(p.label = "lifetime" /\ LifetimeAvailable(acct)) =>
                        OfficialPart(acct, p) = BucketTotal(acct, Bounds(p))
<1> DEFINE b == Bounds(p)
           x == BucketTotal(acct, b)
           y == LifetimeTotal(acct)
           none == Successful(acct) = {} \/ ~SelectedHasCoverage(acct, p)
           all == p.label = "lifetime" /\ LifetimeAvailable(acct)
<1>1. x \in Nat
    BY BucketTotalIs
<1>2. all => y \in Nat
    BY LifetimeTotalIs
<1>3. \A n \in Nat : n # NoValue
    BY ReconciliationAssumption
<1>4. SelectedTotal(acct, p) = IF none THEN NoValue ELSE IF all THEN y ELSE x
    BY DEF SelectedTotal
<1>5. none <=> (Successful(acct) = {} \/ ~SelectedHasCoverage(acct, p))
    OBVIOUS
<1> HIDE DEF x, y, none, all
<1>6. OfficialPart(acct, p) = IF none THEN 0 ELSE IF all THEN y ELSE x
    BY <1>1, <1>2, <1>3, <1>4 DEF OfficialPart
<1>7. OfficialPart(acct, p) \in Nat
    BY <1>1, <1>2, <1>6
<1>8. none => OfficialPart(acct, p) = 0 /\ SelectedTotal(acct, p) = NoValue
    BY <1>4, <1>6
<1>9. ~none => /\ SelectedTotal(acct, p) # NoValue
               /\ all => OfficialPart(acct, p) = y
               /\ ~all => OfficialPart(acct, p) = x
    BY <1>1, <1>2, <1>3, <1>4, <1>6
<1> QED
    BY <1>7, <1>8, <1>9 DEF x, y, none, all

\* All accounts know of every day that one of them knows of.
LEMMA CoverageGrows ==
    ASSUME TypeInv, NEW a \in Observed, NEW p, p.label # "lifetime", Bounds(p).from \in Nat,
           SelectedHasCoverage(a, p)
    PROVE  SelectedHasCoverage(Unfiltered, p)
<1> DEFINE T == {CoverageThrough(c) : c \in Covered(Unfiltered)}
           from == Bounds(p).from
           top == Day(MaxTime)
<1>1. a \in Scopes /\ Unfiltered \in Scopes
    BY DEF Scopes
<1>2. LatestThrough(a) # NoTime /\ from < LatestThrough(a) + 1
    BY DEF SelectedHasCoverage
<1>3. Covered(a) # {}
    BY <1>2 DEF LatestThrough
<1>4. a \in Accounts /\ a # Unfiltered
    BY ScopeShape, <1>1, EffectiveSourceAssumption DEF InScope
<1>5. Covered(a) = {a} /\ DOMAIN BucketsOf(a) # {}
    BY <1>3, <1>4 DEF Covered, Asked
<1>6. a \in Covered(Unfiltered)
    BY <1>1, <1>5, ScopeShape DEF InScope
<1>7. OfficialOK
    BY DEF TypeInv
<1>8. \A c \in Covered(Unfiltered) : CoverageThrough(c) \in DOMAIN BucketsOf(c) /\ DOMAIN BucketsOf(c) \subseteq Days
    BY <1>7, CoverageDays, BucketsType DEF Covered
<1>9. top \in Nat /\ T \subseteq 0 .. top /\ CoverageThrough(a) \in T
  <2>1. top \in Nat
    BY EffectiveSourceAssumption, RoundsDown DEF Day
  <2> QED
    BY <1>6, <1>8, <2>1 DEF Days
<1>10. LatestThrough(a) = CoverageThrough(a)
  <2> DEFINE n == CoverageThrough(a)
  <2>1. LatestThrough(a) = Max({n})
    <3>1. {CoverageThrough(c) : c \in Covered(a)} = {n}
      BY <1>5
    <3> QED
      BY <1>3, <3>1 DEF LatestThrough
  <2>2. n \in Nat
    BY <1>9
  <2> HIDE DEF n
  <2>3. Max({n}) = n
    <3>1. {n} = {n, n}
      OBVIOUS
    <3> QED
      BY <2>2, <3>1, MinMaxOfTwo
  <2> QED
    BY <2>1, <2>3 DEF n
<1>11. LatestThrough(Unfiltered) = Max(T)
    BY <1>6 DEF LatestThrough
<1> DEFINE k == CoverageThrough(a)
           m == Max(T)
<1>12. T \subseteq Nat /\ T # {} /\ (\A n \in T : n <= top) /\ k \in T
    BY <1>9
<1> HIDE DEF T, top, k, from
<1>13. \E n \in T : \A x \in T : n >= x
    BY <1>9, <1>12, GreatestElement
<1>14. m \in T /\ m >= k
    BY <1>12, <1>13 DEF Max
<1> HIDE DEF m
<1>15. from \in Nat /\ k \in Nat /\ m \in Nat /\ from < k + 1
    BY <1>2, <1>10, <1>12, <1>14 DEF from, k
<1>16. from < m + 1
    BY <1>14, <1>15
<1>17. m # NoTime
    BY <1>15, QueriesAssumption
<1> QED
    BY <1>11, <1>16, <1>17 DEF SelectedHasCoverage, m, from

\* The local part of an account is in that of all accounts.
LEMMA LocalGrows ==
    ASSUME TypeInv, NEW a \in Observed, NEW p
    PROVE  LocalComplement(a, p) <= LocalComplement(Unfiltered, p)
<1> DEFINE S == InScope(Unfiltered)
           R == InScope(a)
           w == LocalSums(p)
<1>1. a \in Scopes /\ Unfiltered \in Scopes
    BY DEF Scopes
<1>2. a \in Accounts /\ a # Unfiltered
    BY ScopeShape, <1>1, EffectiveSourceAssumption DEF InScope
<1>3. IsFiniteSet(S) /\ R \in SUBSET S /\ S \subseteq Accounts
    BY <1>1, <1>2, ScopeShape DEF InScope
<1>4. \A x \in S : w[x] \in Nat /\ w[x] <= w[x]
    BY <1>3, SumsType
<1>5. LocalComplement(a, p) = Total(w, R) /\ LocalComplement(Unfiltered, p) = Total(w, S)
    BY <1>1, LocalComplementIs
<1> HIDE DEF S, R, w
<1>6. Total(w, R) <= Total(w, S)
    BY <1>3, <1>4, TotalGrows
<1> QED
    BY <1>5, <1>6

\* So is its official part, unless it has a lifetime total and another account has none.
LEMMA OfficialGrows ==
    ASSUME TypeInv, NEW a \in Observed, NEW p,
           p.label = "lifetime" => LifetimeAvailable(Unfiltered) \/ ~LifetimeAvailable(a),
           p.label # "lifetime" => Bounds(p).from \in Nat
    PROVE  OfficialPart(a, p) <= OfficialPart(Unfiltered, p)
<1> DEFINE S == Successful(Unfiltered)
           R == Successful(a)
           b == Bounds(p)
           x == OfficialPart(a, p)
           y == OfficialPart(Unfiltered, p)
<1>1. a \in Scopes /\ Unfiltered \in Scopes
    BY DEF Scopes
<1>2. a \in Accounts /\ a # Unfiltered
    BY ScopeShape, <1>1, EffectiveSourceAssumption DEF InScope
<1>3. IsFiniteSet(S) /\ R \in SUBSET S /\ S \subseteq Accounts /\ (R # {} => a \in S)
  <2>1. IsFiniteSet(S) /\ S \subseteq Accounts
    BY <1>1, ScopeShape, FS_Subset
  <2>2. R \in SUBSET S /\ (R # {} => a \in S)
    BY <1>2 DEF Successful, Asked
  <2> QED
    BY <2>1, <2>2
<1>4. x \in Nat /\ y \in Nat
    BY <1>1, OfficialPartIs
<1>5. CASE R = {} \/ ~SelectedHasCoverage(a, p)
  <2>1. x = 0
    BY <1>1, <1>5, OfficialPartIs
  <2> HIDE DEF x, y
  <2>2. x <= y
    BY <1>4, <2>1
  <2> QED
    BY <2>2 DEF x, y
<1>6. CASE R # {} /\ SelectedHasCoverage(a, p)
  <2>1. S # {} /\ SelectedHasCoverage(Unfiltered, p)
    <3>1. CASE p.label = "lifetime"
      BY <1>3, <1>6, <3>1 DEF SelectedHasCoverage
    <3>2. CASE p.label # "lifetime"
      BY <1>3, <1>6, <3>2, CoverageGrows
    <3> QED
      BY <3>1, <3>2
  <2>2. a \in DOMAIN snapshot /\ a \in Asked(Unfiltered)
    BY <1>3, <1>6 DEF Successful, OfficialAccounts
  <2>3. CASE p.label = "lifetime" /\ LifetimeAvailable(a)
    <3> DEFINE w == Lifetimes
    <3>1. LifetimeAvailable(Unfiltered)
      BY <2>3
    <3>2. x = LifetimeTotal(a) /\ y = LifetimeTotal(Unfiltered)
      BY <1>1, <1>6, <2>1, <2>3, <3>1, OfficialPartIs
    <3>3. LifetimeTotal(a) = Total(w, R) /\ LifetimeTotal(Unfiltered) = Total(w, S)
      BY <1>1, <2>3, <3>1, LifetimeTotalIs
    <3>4. \A c \in S : w[c] \in Nat /\ w[c] <= w[c]
      <4>1. \A c \in Accounts : w[c] \in Nat
        BY DEF TypeInv, OfficialOK, Lifetimes
      <4> QED
        BY <1>3, <4>1
    <3> HIDE DEF S, R, w, x, y
    <3>5. Total(w, R) <= Total(w, S)
      BY <1>3, <3>4, TotalGrows
    <3>6. x <= y
      BY <3>2, <3>3, <3>5
    <3> QED
      BY <3>6 DEF x, y
  <2>4. CASE ~(p.label = "lifetime" /\ LifetimeAvailable(a))
    <3> DEFINE w == BucketSums(b)
    <3>1. ~(p.label = "lifetime" /\ LifetimeAvailable(Unfiltered))
      <4> SUFFICES ASSUME p.label = "lifetime", LifetimeAvailable(Unfiltered), ~LifetimeAvailable(a)
                   PROVE  FALSE
        BY <2>4
      <4>1. snapshot[a].lifetime # NoValue /\ a \in OfficialAccounts
        BY <2>2 DEF LifetimeAvailable
      <4>2. Asked(a) = {a}
        BY <1>2 DEF Asked
      <4> QED
        BY <4>1, <4>2 DEF LifetimeAvailable
    <3>2. x = BucketTotal(a, b) /\ y = BucketTotal(Unfiltered, b)
      BY <1>1, <1>6, <2>1, <2>4, <3>1, OfficialPartIs
    <3>3. BucketTotal(a, b) = Total(w, R) /\ BucketTotal(Unfiltered, b) = Total(w, S)
      BY <1>1, BucketTotalIs
    <3>4. \A c \in S : w[c] \in Nat /\ w[c] <= w[c]
      BY <1>3, SumsType
    <3> HIDE DEF S, R, w, x, y
    <3>5. Total(w, R) <= Total(w, S)
      BY <1>3, <3>4, TotalGrows
    <3>6. x <= y
      BY <3>2, <3>3, <3>5
    <3> QED
      BY <3>6 DEF x, y
  <2> QED
    BY <2>3, <2>4
<1> QED
    BY <1>5, <1>6

\* AllNotBelowOne: no account shows more than all accounts together, whatever
\* local usage completes whose buckets.
THEOREM AllNotBelowOneHolds == Spec => []AllNotBelowOne
<1>1. ASSUME TypeInv PROVE AllNotBelowOne
  <2> SUFFICES ASSUME NEW label \in PeriodLabels, NEW a \in Observed,
                      label = "lifetime" => LifetimeAvailable(Unfiltered) \/ ~LifetimeAvailable(a)
               PROVE  DisplayTotal(Unfiltered, Period(label)) >= DisplayTotal(a, Period(label))
    BY DEF AllNotBelowOne
  <2> DEFINE p == Period(label)
             l == LocalComplement(a, p)
             m == LocalComplement(Unfiltered, p)
             x == OfficialPart(a, p)
             y == OfficialPart(Unfiltered, p)
  <2>1. p.label = label /\ (label # "lifetime" => Bounds(p).from \in Nat)
    BY <1>1, PeriodNow
  <2>2. a \in Scopes /\ Unfiltered \in Scopes
    BY DEF Scopes
  <2> HIDE DEF p
  <2>3. l \in Nat /\ m \in Nat /\ x \in Nat /\ y \in Nat
    BY <1>1, <2>2, LocalComplementIs, OfficialPartIs
  <2>4. l <= m
    BY <1>1, LocalGrows
  <2>5. x <= y
    BY <1>1, <2>1, OfficialGrows
  <2>6. DisplayTotal(a, p) = l + x /\ DisplayTotal(Unfiltered, p) = m + y
    BY DEF DisplayTotal, OfficialPart
  <2> HIDE DEF l, m, x, y
  <2>7. m + y >= l + x
    BY <2>3, <2>4, <2>5
  <2> QED
    BY <2>6, <2>7 DEF p
<1> QED
    BY <1>1, TypeInvariance, PTL

\* The days that every account covers are covered by each.
LEMMA CommonDays ==
    ASSUME TypeInv, NEW acct \in Scopes, AllCovered(acct), NEW a \in Covered(acct)
    PROVE  /\ CoverageStart(a) \in Nat /\ CoverageThrough(a) \in Nat
           /\ CommonStart(acct) \in Nat /\ CommonThrough(acct) \in Nat
           /\ CoverageStart(a) <= CommonStart(acct) /\ CommonThrough(acct) <= CoverageThrough(a)
<1> DEFINE S == {CoverageStart(c) : c \in Covered(acct)}
           T == {CoverageThrough(c) : c \in Covered(acct)}
           top == Day(MaxTime)
<1>1. top \in Nat
    BY EffectiveSourceAssumption, DayIsNat
<1>2. ASSUME NEW c \in Covered(acct) PROVE CoverageStart(c) \in 0 .. top /\ CoverageThrough(c) \in 0 .. top
  <2>1. OfficialOK /\ DOMAIN BucketsOf(c) # {}
    BY DEF TypeInv, Covered
  <2>2. CoverageStart(c) \in DOMAIN BucketsOf(c) /\ CoverageThrough(c) \in DOMAIN BucketsOf(c)
        /\ DOMAIN BucketsOf(c) \subseteq Days
    BY <2>1, CoverageDays, BucketsType
  <2> QED
    BY <2>2 DEF Days
<1>3. CoverageStart(a) \in S /\ CoverageThrough(a) \in T
    OBVIOUS
<1>4. S \subseteq 0 .. top /\ T \subseteq 0 .. top
    BY <1>2
<1>5. CommonStart(acct) = Max(S) /\ CommonThrough(acct) = Min(T)
    BY DEF CommonStart, CommonThrough
<1> DEFINE x == CoverageStart(a)
           y == CoverageThrough(a)
           m == Max(S)
           n == Min(T)
<1> HIDE DEF S, T, top, x, y
<1>6. S \subseteq Nat /\ S # {} /\ (\A k \in S : k <= top) /\ T \subseteq Nat /\ T # {}
    BY <1>1, <1>3, <1>4
<1>7. (\E k \in S : \A j \in S : k >= j) /\ (\E k \in T : \A j \in T : k <= j)
    BY <1>1, <1>6, LeastElement, GreatestElement
<1>8. m \in S /\ (\A j \in S : m >= j) /\ n \in T /\ (\A j \in T : n <= j)
    BY <1>7 DEF Max, Min
<1> HIDE DEF m, n
<1>9. x \in S /\ y \in T
    BY <1>3 DEF x, y
<1>10. x \in Nat /\ y \in Nat /\ m \in Nat /\ n \in Nat /\ m >= x /\ n <= y
    BY <1>6, <1>8, <1>9
<1>11. x <= m /\ n <= y
    BY <1>10
<1> QED
    BY <1>5, <1>10, <1>11 DEF x, y, m, n

\* On a day that every account asked for covers, the chart has their official values.
LEMMA CoveredDayExact ==
    ASSUME TypeInv, NEW acct \in Scopes, NEW b, b.from \in Nat, b.to \in Nat, CoversRequest(acct, b),
           NEW d \in b.from .. b.to - 1
    PROVE  DayStatus(acct, d) = "exact_official"
<1> USE QueriesAssumption
<1> DEFINE C == Covered(acct)
           D == {a \in InScope(acct) \cap C : CoversDay(a, d)}
           from == b.from
           to == b.to
           s == CommonStart(acct)
           t == CommonThrough(acct)
<1>1. AllCovered(acct) /\ from # NoTime /\ to # NoTime /\ from \in Nat /\ to \in Nat
    BY DEF CoversRequest
<1>2. s <= from /\ t + 1 >= to
    BY <1>1 DEF CoversRequest
<1>3. ASSUME NEW a \in C PROVE CoversDay(a, d)
  <2> DEFINE x == CoverageStart(a)
             y == CoverageThrough(a)
  <2>1. x \in Nat /\ y \in Nat /\ s \in Nat /\ t \in Nat /\ x <= s /\ t <= y
    BY <1>1, <1>3, CommonDays
  <2>2. d \in Int /\ from <= d /\ d <= to - 1
    BY <1>1
  <2> HIDE DEF x, y, s, t, from, to
  <2>3. x <= d /\ d <= y
    BY <1>1, <1>2, <2>1, <2>2
  <2> QED
    BY <2>3, <1>3 DEF CoversDay, x, y, Covered
<1>4. C \subseteq InScope(acct)
    BY ScopeShape
<1>5. D = C
    BY <1>3, <1>4
<1>6. Cardinality(C) = Expected(acct)
    BY <1>1 DEF AllCovered
<1> QED
    BY <1>5, <1>6 DEF DayStatus

\* ExactIsEveryDay: a total called exact has an official value for every account on
\* every day and nothing else, and then the gap to the local total is shown.
THEOREM ExactIsEveryDayHolds == Spec => []ExactIsEveryDay
<1>1. ASSUME TypeInv PROVE ExactIsEveryDay
  <2> SUFFICES ASSUME NEW label \in PeriodLabels \ {"lifetime"}, NEW acct \in Scopes,
                      MetricStatus(acct, Period(label)) = "exact"
               PROVE  LET p == Period(label)
                          points == ReconcileAccountDays(acct, Bounds(p), Day(now))
                      IN  /\ \A d \in DOMAIN points : points[d].status = "exact_official"
                          /\ DisplayTotal(acct, p) = BucketTotal(acct, Bounds(p))
                          /\ acct = Unfiltered /\ LocalCoverageComplete(p) => ReconciliationComparable(acct, p)
    BY DEF ExactIsEveryDay
  <2> DEFINE p == Period(label)
             b == Bounds(p)
             points == ReconcileAccountDays(acct, b, Day(now))
             l == LocalComplement(acct, p)
             x == OfficialPart(acct, p)
  <2>1. p.label # "lifetime" /\ b.from \in Nat /\ b.from # NoTime /\ b.to \in Nat /\ b.to # NoTime
    <3>1. now \in Nat
      BY <1>1, DashboardAssumption, EffectiveSourceAssumption DEF TypeInv, EvidenceInv
    <3>2. Day(now) \in Nat
      BY <3>1, DayIsNat
    <3> QED
      BY <1>1, <3>2, PeriodNow
  <2> HIDE DEF p
  <2>2. ~DisplayIsLowerBound(acct, p) /\ CoverageComplete(acct, p) /\ AccountCoverageComplete(acct)
    BY DEF MetricStatus, p
  <2>3. DisplayTotalKind(acct, p) = "official"
    BY <2>2 DEF DisplayIsLowerBound
  <2>4. SelectedTotal(acct, p) # NoValue /\ ~(l > 0) /\ IdentityScopeComplete(acct)
    BY <2>3 DEF DisplayTotalKind
  <2>5. CoversRequest(acct, b)
    BY <2>1, <2>2 DEF CoverageComplete
  <2>6. ASSUME NEW d \in DOMAIN points PROVE points[d].status = "exact_official"
    <3>1. DOMAIN points = ReconciledDays(acct, b, Day(now)) /\ points[d].status = DayStatus(acct, d)
      BY DEF ReconcileAccountDays
    <3>2. d \in b.from .. b.to - 1
      BY <2>1, <3>1 DEF ReconciledDays, TimeOr
    <3> HIDE DEF b
    <3> QED
      BY <1>1, <2>1, <2>5, <3>1, <3>2, CoveredDayExact
  <2>7. DisplayTotal(acct, p) = BucketTotal(acct, b)
    <3>1. l \in Nat /\ x \in Nat
      BY <1>1, LocalComplementIs, OfficialPartIs
    <3>2. x = BucketTotal(acct, b)
      BY <1>1, <2>1, <2>4, OfficialPartIs
    <3>3. DisplayTotal(acct, p) = l + x
      BY DEF DisplayTotal, OfficialPart
    <3> HIDE DEF l, x
    <3>4. l + x = x
      BY <2>4, <3>1
    <3> QED
      BY <3>2, <3>3, <3>4
  <2>8. acct = Unfiltered /\ LocalCoverageComplete(p) => ReconciliationComparable(acct, p)
    BY <2>2, <2>4 DEF ReconciliationComparable
  <2> QED
    BY <2>6, <2>7, <2>8 DEF p, b, points
<1> QED
    BY <1>1, TypeInvariance, PTL

-----------------------------------------------------------------------------
(* The chart adds up to the total.                                         *)

\* What is reconstructed is confirmed.
RebuiltOK == \A f \in rebuilt : f.source = "reconstruction"

LEMMA RebuiltInvariance == Spec => []RebuiltOK
<1>1. Init => RebuiltOK
    BY DEF Init, RebuiltOK
<1>2. ASSUME RebuiltOK, [Next]_vars PROVE RebuiltOK'
  <2>1. ASSUME NEW batch \in RebuiltBatches, Rebuild(batch) PROVE RebuiltOK'
    <3>1. rebuilt' = rebuilt \cup batch
      BY <2>1 DEF Rebuild, InsertRebuilt
    <3>2. \A f \in batch : f.source = "reconstruction"
      BY DashboardAssumption
    <3> QED
      BY <1>2, <3>1, <3>2 DEF RebuiltOK
  <2>2. ASSUME rebuilt' \subseteq rebuilt PROVE RebuiltOK'
    BY <1>2, <2>2 DEF RebuiltOK
  <2>3. ASSUME NEW thread \in Threads, Withdraw(thread) PROVE rebuilt' \subseteq rebuilt
    BY <2>3 DEF Withdraw, WithdrawRebuilt
  <2>4. ASSUME \/ \E batch \in Batches : Ingest(batch)
               \/ \E rows \in Scans : Scan(rows)
               \/ \E answer \in Answers : StoreOfficial(answer)
               \/ \E n \in Counts : Confirm(n)
               \/ Compact \/ PassTime \/ OtherReader \/ UNCHANGED vars
        PROVE  rebuilt' = rebuilt
    BY <2>4 DEF Ingest, InsertSamples, Scan, SyncCatalog, StoreOfficial, Confirm, Compact, CompactRaw,
                PassTime, OtherReader, Refresh, vars, tables
  <2>5. ASSUME Page PROVE rebuilt' = rebuilt
    BY <2>5 DEF Page, OpenPage, Navigate, TimerFires, PostReturns, Post, Change, PostStores, PostFails,
                Invalidate, Tick, tables
  <2>6. ASSUME Serve PROVE rebuilt' = rebuilt
    BY <2>6 DEF Serve, Start, RefreshFirst, Read, Finish, Fail, Deliver, Refresh, tables
  <2> QED
    BY <1>2, <2>1, <2>2, <2>3, <2>4, <2>5, <2>6 DEF Next, Write
<1> QED
    BY <1>1, <1>2, PTL DEF Spec

\* The local usage of an account by day
LocalDays(a) == [d \in Nat |-> LocalByDay(a, d)]

LEMMA LocalDaysType ==
    ASSUME TypeInv, NEW a
    PROVE  /\ DailyTable("confirmed") \in SUBSET Facts
           /\ \A d \in Nat : LocalDays(a)[d] \in Nat /\ LocalDays(a)[d] = LocalByDay(a, d)
           /\ \A d \in Nat : LocalByDay(a, d) = Tokens({f \in DailyTable("confirmed") : f.acct = a /\ Day(f.time) = d})
<1>1. DailyTable("confirmed") \in SUBSET Facts
  <2>1. sampled \subseteq Facts /\ rebuilt \subseteq Facts
    BY DEF TypeInv, EvidenceInv
  <2> QED
    BY <2>1 DEF DailyTable, Chosen, Confirmed
<1>2. ASSUME NEW d \in Nat
      PROVE  /\ LocalByDay(a, d) = Tokens({f \in DailyTable("confirmed") : f.acct = a /\ Day(f.time) = d})
             /\ LocalByDay(a, d) \in Nat
  <2> DEFINE F == {f \in DailyTable("confirmed") : f.acct = a /\ Day(f.time) = d}
  <2>1. \A f \in F : f.thread \in Threads
    BY <1>1, EffectiveSourceAssumption DEF Fact
  <2>2. OfThreads(F, Threads) = F
    BY <2>1 DEF OfThreads
  <2>3. LocalByDay(a, d) = Tokens(F)
    BY <2>2 DEF LocalByDay
  <2>4. F \in SUBSET Facts
    BY <1>1
  <2> HIDE DEF F
  <2>5. Tokens(F) \in Nat
    BY <2>4, TokensType
  <2> QED
    BY <2>3, <2>5 DEF F
<1> QED
    BY <1>1, <1>2 DEF LocalDays

\* The instant now lies on the last day that a total is about, or begins the next.
LEMMA DaysBefore ==
    ASSUME NEW n \in Nat \ {0}, NEW t \in Nat,
           NEW to, to = IF t % n = 0 THEN t \div n ELSE t \div n + 1
    PROVE  /\ to \in Nat
           /\ t > 0 => (t - 1) \div n = to - 1 /\ (t - 1) \div n \in Nat
           /\ ~(t > 0) => to = 0
<1> DEFINE k == t \div n
           r == t % n
<1>1. k \in Nat /\ r \in 0 .. n - 1 /\ t = k * n + r
    OBVIOUS
<1>2. to = IF r = 0 THEN k ELSE k + 1
    OBVIOUS
<1> HIDE DEF k, r
<1>3. to \in Nat
    BY <1>1, <1>2
<1>4. ASSUME t > 0 PROVE (t - 1) \div n = to - 1 /\ (t - 1) \div n \in Nat
  <2> DEFINE u == t - 1
             j == to - 1
  <2>1. u \in Nat /\ t = u + 1
    BY <1>4
  <2>2. to # 0
    <3>1. CASE r = 0
      <4>1. k # 0
        <5> SUFFICES ASSUME k = 0 PROVE FALSE
          OBVIOUS
        <5>1. k * n = 0
          OBVIOUS
        <5> QED
          BY <1>1, <1>4, <3>1, <5>1
      <4> QED
        BY <1>2, <3>1, <4>1
    <3>2. CASE r # 0
      BY <1>1, <1>2, <3>2
    <3> QED
      BY <3>1, <3>2
  <2>3. j \in Nat /\ to = j + 1
    BY <1>3, <2>2
  <2>4. j * n <= u /\ u < j * n + n
    <3>1. CASE r = 0
      <4>1. k = j + 1
        BY <1>2, <2>3, <3>1
      <4>2. k * n = j * n + n
        BY <2>3, <4>1
      <4>3. j * n \in Nat
        BY <2>3
      <4> HIDE DEF u, j
      <4> QED
        BY <1>1, <2>1, <3>1, <4>2, <4>3
    <3>2. CASE r # 0
      <4>1. k = j
        BY <1>1, <1>2, <2>3, <3>2
      <4>2. j * n \in Nat
        BY <2>3
      <4>3. t = j * n + r
        BY <1>1, <4>1
      <4> HIDE DEF u, j
      <4> QED
        BY <1>1, <2>1, <3>2, <4>2, <4>3
    <3> QED
      BY <3>1, <3>2
  <2> HIDE DEF u, j
  <2>5. u \div n \in Nat /\ (u \div n) * n <= u /\ u < (u \div n) * n + n
    BY <2>1, RoundsDown
  <2> DEFINE q2 == u \div n
  <2>6. q2 \in Nat /\ q2 * n <= u /\ u < q2 * n + n
    BY <2>5
  <2> HIDE DEF q2
  <2>7. ~(q2 + 1 <= j)
    <3> SUFFICES ASSUME q2 + 1 <= j PROVE FALSE
      OBVIOUS
    <3>1. (q2 + 1) * n <= j * n /\ (q2 + 1) * n = q2 * n + n
      BY <2>3, <2>6
    <3>2. q2 * n \in Nat /\ j * n \in Nat
      BY <2>3, <2>6
    <3> QED
      BY <2>1, <2>4, <2>6, <3>1, <3>2
  <2>8. ~(j + 1 <= q2)
    <3> SUFFICES ASSUME j + 1 <= q2 PROVE FALSE
      OBVIOUS
    <3>1. (j + 1) * n <= q2 * n /\ (j + 1) * n = j * n + n
      BY <2>3, <2>6
    <3>2. q2 * n \in Nat /\ j * n \in Nat
      BY <2>3, <2>6
    <3> QED
      BY <2>1, <2>4, <2>6, <3>1, <3>2
  <2>9. q2 = j
    BY <2>3, <2>6, <2>7, <2>8
  <2> QED
    BY <2>3, <2>9 DEF q2, u, j
<1>5. ASSUME ~(t > 0) PROVE to = 0
  <2>1. t = 0
    BY <1>5
  <2>2. k * n \in Nat
    BY <1>1
  <2>3. r = 0 /\ k * n = 0
    BY <1>1, <2>1, <2>2
  <2>4. k = 0
    <3> SUFFICES ASSUME k >= 1 PROVE FALSE
      BY <1>1
    <3>1. k * n >= n
      BY <1>1
    <3> QED
      BY <2>3, <3>1
  <2> QED
    BY <1>2, <2>3, <2>4
<1> QED
    BY <1>3, <1>4, <1>5

\* The whole days of a window of local usage add up to its tokens.
LEMMA LocalDaysAddUp ==
    ASSUME TypeInv, RebuiltOK, NEW a \in Accounts, NEW s \in Nat,
           NEW to, to = IF now % DayLength = 0 THEN Day(now) ELSE Day(now) + 1
    PROVE  Tokens(AggregateRollupUsage(FilterOf([acct |-> a, proj |-> Unfiltered], "confirmed", s, now)))
              = Total(LocalDays(a), Day(s) .. to - 1)
<1> USE EffectiveSourceAssumption, QueriesAssumption
<1> DEFINE filter == FilterOf([acct |-> a, proj |-> Unfiltered], "confirmed", s, now)
           table == DailyTable("confirmed")
           R == Day(s) .. to - 1
           F == {f \in table : f.acct = a /\ Day(f.time) \in R}
           h == [f \in F |-> Day(f.time)]
           fibers == [d \in R |-> Total(Weight, Fiber(h, F, d))]
<1>1. now \in Nat /\ s # NoTime /\ now # NoTime
    BY DashboardAssumption DEF TypeInv, EvidenceInv
<1>2. filter.acct = a /\ filter.proj = Unfiltered /\ filter.quality = "confirmed" /\ filter.from = s /\ filter.to = now
    BY <1>1 DEF FilterOf, TimeOr
<1>3. table \in SUBSET Facts
    BY LocalDaysType
<1>4. \A f \in table : f.quality = "confirmed"
  <2>1. rebuilt \subseteq Facts
    BY DEF TypeInv, EvidenceInv
  <2> QED
    BY <2>1 DEF DailyTable, Chosen, Confirmed, RebuiltOK
<1>5. Day(s) \in Nat /\ to \in Nat /\ (now > 0 => Day(now - 1) = to - 1 /\ Day(now - 1) \in Nat) /\ (~(now > 0) => to = 0)
  <2>1. to = IF now % DayLength = 0 THEN now \div DayLength ELSE now \div DayLength + 1
    BY DEF Day
  <2>2. DayLength \in Nat \ {0}
    OBVIOUS
  <2>3. to \in Nat /\ (now > 0 => (now - 1) \div DayLength = to - 1 /\ (now - 1) \div DayLength \in Nat)
        /\ (~(now > 0) => to = 0)
    BY ONLY <1>1, <2>1, <2>2, DaysBefore
  <2>4. Day(s) \in Nat
    BY DayIsNat
  <2> QED
    BY <2>3, <2>4 DEF Day
<1>6. IsFiniteSet(R) /\ R \subseteq Nat
  <2> DEFINE e == to - 1
             d == Day(s)
  <2>1. d \in Int /\ e \in Int /\ d \in Nat
    BY <1>5
  <2> HIDE DEF e, d
  <2>2. IsFiniteSet(d .. e) /\ d .. e \subseteq Nat
    BY <2>1, FS_Interval
  <2> QED
    BY <2>2 DEF e, d
<1> HIDE DEF filter, R
<1>7. \A f \in table : Matches(f, filter) <=> f.acct = a
    BY <1>2, <1>4 DEF Matches, ProjectMatches
<1>8. \A t : WithinDays(t, filter) <=> Day(t) \in R
  <2>1. CASE now > 0
    BY <1>2, <1>5, <2>1 DEF WithinDays, R
  <2>2. CASE ~(now > 0)
    <3>1. R = {}
      BY <1>5, <2>2 DEF R
    <3> QED
      BY <1>2, <2>2, <3>1 DEF WithinDays
  <2> QED
    BY <2>1, <2>2
<1>9. AggregateRollupUsage(filter) = F
    BY <1>2, <1>7, <1>8 DEF AggregateRollupUsage, BuildRollupFilter
<1>10. F \in SUBSET Facts
    BY <1>3
<1>11. Tokens(F) = Total(Weight, F) /\ IsFiniteSet(F) /\ \A f \in F : Weight[f] \in Nat
  <2> HIDE DEF F
  <2> QED
    BY <1>10, TokensIsTotal
<1>12. h \in [F -> R]
    OBVIOUS
<1>13. Total(Weight, F) = Total(fibers, R)
  <2> HIDE DEF F, h
  <2>1. \A f \in F : Weight[f] \in Nat
    BY <1>11
  <2>2. AreFibers(fibers, h, Weight, F, R)
    BY <1>12 DEF AreFibers
  <2> HIDE DEF fibers
  <2> QED
    BY <1>6, <1>11, <2>1, <2>2, TotalFibers
<1>14. ASSUME NEW d \in R PROVE LocalDays(a)[d] = fibers[d]
  <2> DEFINE G == {f \in table : f.acct = a /\ Day(f.time) = d}
  <2>1. Fiber(h, F, d) = G
    BY <1>14 DEF Fiber
  <2>2. LocalDays(a)[d] = Tokens(G)
    BY <1>6, LocalDaysType
  <2>3. G \in SUBSET Facts
    BY <1>3
  <2>4. fibers[d] = Total(Weight, G)
    BY <2>1
  <2> HIDE DEF G, fibers
  <2> QED
    BY <2>2, <2>3, <2>4, TokensIsTotal
<1> HIDE DEF fibers, F
<1>15. Total(fibers, R) = Total(LocalDays(a), R)
    BY <1>6, <1>14, TotalSame
<1>16. Tokens(AggregateRollupUsage(filter)) = Total(LocalDays(a), R)
    BY <1>9, <1>11, <1>13, <1>15
<1> QED
    BY <1>16 DEF filter, R

\* What the chart shows of an account, and what of it lies before the account's coverage
ChartDays(a) == [d \in Nat |-> IF CoversDay(a, d) THEN BucketOn(a, d) ELSE LocalByDay(a, d)]
EarlyDays(a, R) ==
    IF DOMAIN BucketsOf(a) = {} THEN 0 ELSE Total(LocalDays(a), {d \in R : d < CoverageStart(a)})

LEMMA ChartDaysType ==
    ASSUME TypeInv, NEW a
    PROVE  \A d \in Nat : /\ ChartDays(a)[d] \in Nat
                          /\ CoversDay(a, d) => ChartDays(a)[d] = BucketOn(a, d)
                          /\ ~CoversDay(a, d) => ChartDays(a)[d] = LocalDays(a)[d]
<1>1. \A d : BucketOn(a, d) \in Nat
    BY BucketsType DEF TypeInv
<1>2. \A d \in Nat : LocalDays(a)[d] \in Nat /\ LocalDays(a)[d] = LocalByDay(a, d)
    BY LocalDaysType
<1> QED
    BY <1>1, <1>2 DEF ChartDays

\* The buckets of an account in a window of days
LEMMA BucketWindow ==
    ASSUME TypeInv, NEW a, NEW b, b.from \in Nat, b.to \in Nat
    PROVE  LET u == OfficialDailyUsage(a, b)
           IN  /\ DOMAIN u = DOMAIN BucketsOf(a) \cap (b.from .. b.to - 1) /\ IsFiniteSet(DOMAIN u)
               /\ DOMAIN u \subseteq Days
               /\ \A d \in DOMAIN u : u[d] \in Nat /\ u[d] = BucketOn(a, d)
               /\ \A d \in b.from .. b.to - 1 : d \notin DOMAIN u => BucketOn(a, d) = 0
               /\ SumFunction(u) = Total(u, DOMAIN u) /\ SumFunction(u) \in Nat
<1> USE QueriesAssumption
<1> DEFINE u == OfficialDailyUsage(a, b)
           D == DOMAIN BucketsOf(a)
           from == b.from
           to == b.to
<1>1. /\ D \subseteq Nat /\ D \subseteq Days /\ IsFiniteSet(D) /\ \A d \in D : BucketsOf(a)[d] \in Nat
    BY BucketsType DEF TypeInv
<1>2. from \in Nat /\ to \in Nat /\ from # NoTime /\ to # NoTime
    OBVIOUS
<1>3. \A d : InBounds(d, b) <=> from <= d /\ d < to
    BY <1>2 DEF InBounds, TimeOr
<1>4. DOMAIN u = {d \in D : InBounds(d, b)} /\ \A d \in DOMAIN u : u[d] = BucketsOf(a)[d]
    BY DEF OfficialDailyUsage, Restrict
<1>5. \A d \in D : d \in DOMAIN u <=> d \in from .. to - 1
  <2> HIDE DEF from, to, u
  <2> SUFFICES ASSUME NEW d \in D PROVE InBounds(d, b) <=> d \in from .. to - 1
    BY <1>4
  <2>1. d \in Nat
    BY <1>1
  <2>2. InBounds(d, b) <=> from <= d /\ d < to
    BY <1>3
  <2>3. (from <= d /\ d < to) <=> d \in from .. to - 1
    BY <1>2, <2>1
  <2> QED
    BY <2>2, <2>3
<1>6. DOMAIN u \subseteq D
    BY <1>4
<1>7. IsFiniteSet(DOMAIN u)
    BY <1>1, <1>6, FS_Subset
<1>8. \A d : BucketOn(a, d) = IF d \in D THEN BucketsOf(a)[d] ELSE 0
    BY DEF BucketOn
<1> HIDE DEF u, D, from, to
<1>9. DOMAIN u = D \cap (from .. to - 1)
    BY <1>5, <1>6
<1>10. \A d \in DOMAIN u : u[d] \in Nat /\ u[d] = BucketOn(a, d)
    BY <1>1, <1>4, <1>6, <1>8 DEF D
<1>11. \A d \in from .. to - 1 : d \notin DOMAIN u => BucketOn(a, d) = 0
    BY <1>8, <1>9
<1>12. SumFunction(u) = Total(u, DOMAIN u) /\ SumFunction(u) \in Nat
  <2> DEFINE X == DOMAIN u
  <2>1. IsFiniteSet(X) /\ \A d \in X : u[d] \in Nat
    BY <1>7, <1>10
  <2>2. SumFunction(u) = Total(u, X)
    BY SumIsTotal
  <2> HIDE DEF X
  <2>3. Total(u, X) \in Nat
    BY <2>1, TotalAdds
  <2> QED
    BY <2>2, <2>3 DEF X
<1> QED
    BY <1>1, <1>6, <1>7, <1>9, <1>10, <1>11, <1>12 DEF u, D, from, to

\* The local usage after an account's coverage is that of the days after it.
LEMMA LocalPartIs ==
    ASSUME TypeInv, RebuiltOK, NEW a \in Accounts, NEW label \in PeriodLabels \ {"lifetime"}
    PROVE  LET p == Period(label)
               b == Bounds(p)
           IN  LocalUsageAfterCoverage(a, p)
                  = Total(LocalDays(a), {d \in b.from .. b.to - 1 :
                                            DOMAIN BucketsOf(a) = {} \/ CoverageThrough(a) < d})
<1> USE QueriesAssumption
<1> DEFINE p == Period(label)
           b == Bounds(p)
           start == p.start
           from == b.from
           to == b.to
           w == LocalDays(a)
           query == [acct |-> a, proj |-> Unfiltered]
           rest == {d \in from .. to - 1 : DOMAIN BucketsOf(a) = {} \/ CoverageThrough(a) < d}
<1>1. /\ start \in Nat /\ start # NoTime /\ p.end = now /\ from = Day(start) /\ from \in Nat
      /\ to = IF now % DayLength = 0 THEN Day(now) ELSE Day(now) + 1
    BY PeriodNow
<1>2. to \in Int
  <2>1. Day(now) \in Nat
    BY DashboardAssumption, EffectiveSourceAssumption, DayIsNat DEF TypeInv, EvidenceInv
  <2> QED
    BY <1>1, <2>1
<1> HIDE DEF p
<1>3. CASE DOMAIN BucketsOf(a) = {}
  <2>1. LocalUsageAfterCoverage(a, p) = Tokens(AggregateRollupUsage(FilterOf(query, "confirmed", start, now)))
    BY <1>1, <1>3 DEF LocalUsageAfterCoverage
  <2>2. rest = from .. to - 1
    BY <1>3
  <2> HIDE DEF start, from, to, b, rest, w
  <2>3. Tokens(AggregateRollupUsage(FilterOf(query, "confirmed", start, now))) = Total(LocalDays(a), Day(start) .. to - 1)
    BY <1>1, LocalDaysAddUp
  <2>4. LocalUsageAfterCoverage(a, p) = Total(w, rest)
    BY <1>1, <2>1, <2>2, <2>3 DEF w
  <2> QED
    BY <2>4 DEF p, b, from, to, rest, w
<1>4. CASE DOMAIN BucketsOf(a) # {}
  <2> DEFINE t == CoverageThrough(a)
             end == (t + 1) * DayLength
             s == IF start >= end THEN start ELSE end
  <2>1. t \in Nat
    BY <1>4, CoverageDays, BucketsType DEF TypeInv
  <2>2. DayLength \in Nat \ {0} /\ t + 1 \in Nat
    BY <2>1, EffectiveSourceAssumption
  <2>3. end \in Nat
    BY <2>2
  <2>4. Day(end) = t + 1
    BY <2>2, RoundedMultiple DEF Day
  <2>5. LocalUsageAfterCoverage(a, p)
           = Tokens(AggregateRollupUsage(FilterOf(query, "confirmed", Max({start, end}), now)))
    <3>1. end # NoTime
      BY <2>3
    <3> QED
      BY <1>1, <1>4, <3>1 DEF LocalUsageAfterCoverage
  <2> HIDE DEF end, start
  <2>6. Max({start, end}) = s /\ s \in Nat
    BY <1>1, <2>3, MinMaxOfTwo
  <2>7. Day(s) .. to - 1 = {d \in from .. to - 1 : t < d}
    <3> DEFINE f == Day(start)
               g == Day(end)
    <3>1. f \in Nat /\ g \in Nat /\ g = t + 1 /\ from = f
      BY <1>1, <2>3, <2>4, DayIsNat
    <3>2. CASE start >= end
      <4>1. g <= f
        BY <1>1, <2>2, <2>3, <3>2, UnitsGrow DEF Day
      <4>2. Day(s) = f
        BY <3>2
      <4> HIDE DEF f, g, t, s, to, from, b
      <4>3. f .. to - 1 = {d \in from .. to - 1 : t < d}
        BY <1>2, <2>1, <3>1, <4>1
      <4> QED
        BY <4>2, <4>3
    <3>3. CASE ~(start >= end)
      <4>1. f <= g
        <5>1. start <= end
          BY <1>1, <2>3, <3>3
        <5> QED
          BY <1>1, <2>2, <2>3, <5>1, UnitsGrow DEF Day
      <4>2. Day(s) = g
        BY <3>3
      <4> HIDE DEF f, g, t, s, to, from, b
      <4>3. g .. to - 1 = {d \in from .. to - 1 : t < d}
        BY <1>2, <2>1, <3>1, <4>1
      <4> QED
        BY <4>2, <4>3
    <3> QED
      BY <3>2, <3>3
  <2>8. rest = {d \in from .. to - 1 : t < d}
    BY <1>4
  <2> HIDE DEF s, from, to, b, rest, w, t
  <2>9. Tokens(AggregateRollupUsage(FilterOf(query, "confirmed", s, now))) = Total(LocalDays(a), Day(s) .. to - 1)
    BY <1>1, <2>6, LocalDaysAddUp
  <2>10. LocalUsageAfterCoverage(a, p) = Total(w, rest)
    BY <2>5, <2>6, <2>7, <2>8, <2>9 DEF w
  <2> QED
    BY <2>10 DEF p, b, from, to, rest, w
<1> QED
    BY <1>3, <1>4

\* The days of the chart show an account's local part, its buckets in the window
\* and its early days.
LEMMA AccountAddsUp ==
    ASSUME TypeInv, RebuiltOK, NEW a \in Accounts, NEW label \in PeriodLabels \ {"lifetime"}
    PROVE  LET p == Period(label)
               b == Bounds(p)
               R == b.from .. b.to - 1
           IN  /\ Total(ChartDays(a), R) = LocalSums(p)[a] + BucketSums(b)[a] + EarlyDays(a, R)
               /\ EarlyDays(a, R) \in Nat
<1> DEFINE p == Period(label)
           b == Bounds(p)
           from == b.from
           to == b.to
           R == from .. to - 1
           D == DOMAIN BucketsOf(a)
           c == CoverageStart(a)
           t == CoverageThrough(a)
           chart == ChartDays(a)
           local == LocalDays(a)
           rest == {d \in R : D = {} \/ t < d}
           u == OfficialDailyUsage(a, b)
           U == DOMAIN u
           l == LocalSums(p)[a]
           o == BucketSums(b)[a]
           e == EarlyDays(a, R)
<1>1. from \in Nat /\ to \in Nat
  <2>1. now \in Nat
    BY DashboardAssumption, EffectiveSourceAssumption DEF TypeInv, EvidenceInv
  <2>2. Day(now) \in Nat
    BY <2>1, DayIsNat
  <2> QED
    BY <2>2, PeriodNow
<1>2. l = Total(local, rest)
  <2>1. l = LocalUsageAfterCoverage(a, p)
    BY SumsType
  <2> QED
    BY <2>1, LocalPartIs
<1>3. o = SumFunction(u)
  BY SumsType
<1>4. \A d \in Nat : /\ chart[d] \in Nat /\ local[d] \in Nat
                     /\ CoversDay(a, d) => chart[d] = BucketOn(a, d)
                     /\ ~CoversDay(a, d) => chart[d] = local[d]
    BY ChartDaysType, LocalDaysType
<1> HIDE DEF p, l, o
<1>5. /\ U = D \cap R /\ IsFiniteSet(U)
      /\ \A d \in U : u[d] \in Nat /\ u[d] = BucketOn(a, d)
      /\ \A d \in R : d \notin U => BucketOn(a, d) = 0
      /\ SumFunction(u) = Total(u, U) /\ SumFunction(u) \in Nat
  <2> HIDE DEF b
  <2> QED
    BY <1>1, BucketWindow
<1>6. IsFiniteSet(R) /\ R \subseteq Nat
  <2> HIDE DEF from, to
  <2>1. to - 1 \in Int /\ from \in Int
    BY <1>1
  <2>2. R \subseteq Nat
    BY <1>1
  <2> QED
    BY <2>1, <2>2, FS_Interval
<1> HIDE DEF b, from, to, R, u, U, chart, local
<1>7. CASE D = {}
  <2>1. rest = R
    BY <1>7
  <2>2. U = {} /\ e = 0
    BY <1>5, <1>7 DEF EarlyDays
  <2>3. \A d \in R : chart[d] = local[d]
    BY <1>4, <1>6, <1>7 DEF CoversDay
  <2>4. Total(chart, R) = Total(local, R) /\ Total(local, R) \in Nat
    BY <1>4, <1>6, <2>3, TotalSame, TotalAdds
  <2>5. o = 0
    BY <1>3, <1>5, <2>2, TotalAdds
  <2> DEFINE x == Total(chart, R)
  <2>6. x = l /\ x \in Nat
    BY <1>2, <2>1, <2>4
  <2> HIDE DEF x, e
  <2>7. x = l + o + e /\ e \in Nat
    BY <2>2, <2>5, <2>6
  <2> QED
    BY <2>7 DEF p, b, from, to, R, chart, l, o, e, x
<1>8. CASE D # {}
  <2> DEFINE R1 == {d \in R : d < c}
             R2 == {d \in R : c <= d /\ d <= t}
             R3 == {d \in R : t < d}
  <2>1. OfficialOK
    BY DEF TypeInv
  <2>2. c \in D /\ t \in D /\ (\A d \in D : c <= d /\ d <= t) /\ c \in Nat /\ t \in Nat /\ D \subseteq Nat
    BY <1>8, <2>1, CoverageDays, BucketsType
  <2>3. c <= t
    BY <2>2
  <2>4. \A d \in R : CoversDay(a, d) <=> c <= d /\ d <= t
    BY <1>8 DEF CoversDay
  <2>5. e = Total(local, R1)
    BY <1>8 DEF EarlyDays, local
  <2>6. rest = R3
    BY <1>8
  <2> HIDE DEF c, t, D, e, rest
  <2>7. R1 \cap R2 = {} /\ (R1 \cup R2) \cap R3 = {} /\ (R1 \cup R2) \cup R3 = R
    <3>1. \A d \in R : d \in Nat
      BY <1>6
    <3>2. \A d \in R : ~(d < c /\ c <= d)
      BY <2>2, <3>1
    <3>3. \A d \in R : ~((d < c \/ d <= t) /\ t < d)
      BY <2>2, <2>3, <3>1
    <3>4. \A d \in R : d < c \/ (c <= d /\ d <= t) \/ t < d
      BY <2>2, <3>1
    <3>5. R1 \cap R2 = {}
      BY <3>2
    <3>6. (R1 \cup R2) \cap R3 = {}
      BY <3>3
    <3>7. (R1 \cup R2) \cup R3 = R
      BY <3>4
    <3> QED
      BY <3>5, <3>6, <3>7
  <2>8. U \in SUBSET R2
    BY <1>5, <2>2
  <2>9. \A d \in R1 \cup R3 : chart[d] = local[d]
    BY <1>4, <1>6, <2>2, <2>3, <2>4
  <2>10. (\A d \in U : u[d] \in Nat /\ chart[d] = u[d]) /\ (\A d \in R2 \ U : chart[d] = 0)
    <3>1. \A d \in R2 : chart[d] = BucketOn(a, d)
      BY <1>4, <1>6, <2>4
    <3>2. U \subseteq R2 /\ R2 \subseteq R
      BY <2>8
    <3> QED
      BY <1>5, <3>1, <3>2
  <2>11. R1 \subseteq R /\ R2 \subseteq R /\ R3 \subseteq R
    OBVIOUS
  <2>12. IsFiniteSet(R1) /\ IsFiniteSet(R2) /\ IsFiniteSet(R3) /\ IsFiniteSet(R1 \cup R2)
    BY <1>6, <2>11, FS_Subset, FS_Union
  <2> HIDE DEF R1, R2, R3
  <2>13. \A d \in R : chart[d] \in Nat /\ local[d] \in Nat
    BY <1>4, <1>6
  <2>14. (\A d \in (R1 \cup R2) \cup R3 : chart[d] \in Nat) /\ (\A d \in R1 \cup R2 : chart[d] \in Nat)
         /\ (\A d \in R1 : local[d] \in Nat)
    BY <2>11, <2>13
  <2>15. Total(chart, (R1 \cup R2) \cup R3) = Total(chart, R1 \cup R2) + Total(chart, R3) /\ Total(chart, R3) \in Nat
    BY <2>7, <2>12, <2>14, TotalUnion
  <2>16. Total(chart, R1 \cup R2) = Total(chart, R1) + Total(chart, R2) /\ Total(chart, R1) \in Nat /\ Total(chart, R2) \in Nat
    BY <2>7, <2>12, <2>14, TotalUnion
  <2>17. Total(chart, R1) = Total(local, R1)
    BY <2>9, <2>12, TotalSame
  <2>18. Total(chart, R3) = Total(local, R3)
    BY <2>9, <2>12, TotalSame
  <2>19. Total(chart, R2) = Total(u, U)
    BY <2>8, <2>10, <2>12, TotalPart
  <2> DEFINE x == Total(chart, R)
             y == Total(chart, R1 \cup R2)
             x1 == Total(chart, R1)
             x2 == Total(chart, R2)
             x3 == Total(chart, R3)
  <2>20. x = y + x3 /\ y = x1 + x2 /\ x1 \in Nat /\ x2 \in Nat /\ x3 \in Nat
    BY <2>7, <2>15, <2>16
  <2>21. x1 = e /\ x2 = o /\ x3 = l
    BY <1>2, <1>3, <1>5, <2>5, <2>6, <2>17, <2>18, <2>19
  <2> HIDE DEF x, y, x1, x2, x3
  <2>22. x = l + o + e /\ e \in Nat
    BY <2>20, <2>21
  <2> QED
    BY <2>22 DEF p, b, from, to, R, chart, l, o, e, x
<1> QED
    BY <1>7, <1>8

\* Of a period other than lifetime, what a total shows of the backend's numbers are the
\* buckets of the period.
LEMMA OfficialPartIsBuckets ==
    ASSUME TypeInv, NEW acct \in Scopes, NEW p, p.label # "lifetime", Bounds(p).from \in Nat, Bounds(p).to \in Nat
    PROVE  OfficialPart(acct, p) = BucketTotal(acct, Bounds(p))
<1> USE QueriesAssumption
<1> DEFINE b == Bounds(p)
           from == b.from
           S == Successful(acct)
           w == BucketSums(b)
           T == {CoverageThrough(c) : c \in Covered(acct)}
           top == Day(MaxTime)
<1>1. BucketTotal(acct, b) = Total(w, S)
    BY BucketTotalIs
<1>2. IsFiniteSet(S) /\ S \subseteq Accounts
    BY ScopeShape, FS_Subset
<1>3. CASE S # {} /\ SelectedHasCoverage(acct, p)
    BY <1>3, OfficialPartIs
<1>4. CASE S = {}
  <2>1. OfficialPart(acct, p) = 0
    BY <1>4, OfficialPartIs
  <2>2. BucketTotal(acct, b) = 0
    BY <1>1, <1>2, <1>4, TotalZero
  <2> QED
    BY <2>1, <2>2
<1>5. CASE ~SelectedHasCoverage(acct, p)
  <2>1. OfficialPart(acct, p) = 0
    BY <1>5, OfficialPartIs
  <2>2. ASSUME NEW a \in Accounts, NEW d \in DOMAIN BucketsOf(a), d \in from .. b.to - 1, a \in Asked(acct) PROVE FALSE
    <3> DEFINE k == CoverageThrough(a)
               m == Max(T)
    <3>1. OfficialOK /\ DOMAIN BucketsOf(a) # {}
      BY <2>2 DEF TypeInv
    <3>2. k \in DOMAIN BucketsOf(a) /\ d <= k
      BY <2>2, <3>1, CoverageDays
    <3>3. a \in Covered(acct)
      BY <2>2 DEF Covered
    <3>4. ASSUME NEW c \in Covered(acct) PROVE CoverageThrough(c) \in 0 .. top
      <4>1. DOMAIN BucketsOf(c) # {}
        BY DEF Covered
      <4>2. CoverageThrough(c) \in DOMAIN BucketsOf(c) /\ DOMAIN BucketsOf(c) \subseteq Days
        BY <3>1, <4>1, CoverageDays, BucketsType
      <4> QED
        BY <4>2 DEF Days
    <3>5. top \in Nat /\ T \subseteq 0 .. top /\ k \in T
      BY <3>3, <3>4, EffectiveSourceAssumption, DayIsNat
    <3>6. LatestThrough(acct) = m
      BY <3>3 DEF LatestThrough
    <3>7. T \subseteq Nat /\ T # {} /\ (\A n \in T : n <= top)
      BY <3>5
    <3> HIDE DEF T, top, k
    <3>8. \E n \in T : \A x \in T : n >= x
      BY <3>5, <3>7, GreatestElement
    <3>9. m \in T /\ m >= k
      BY <3>5, <3>8 DEF Max
    <3> HIDE DEF m
    <3>10. m \in Nat /\ m # NoTime /\ k \in Nat
      BY <3>5, <3>7, <3>9
    <3>11. ~(from < m + 1)
      BY <1>5, <3>6, <3>10 DEF SelectedHasCoverage
    <3>12. d \in Nat /\ from <= d /\ from \in Nat
      BY <2>2
    <3> HIDE DEF from
    <3> QED
      BY <3>2, <3>9, <3>10, <3>11, <3>12 DEF k
  <2>3. ASSUME NEW a \in S PROVE w[a] = 0
    <3> DEFINE u == OfficialDailyUsage(a, b)
               U == DOMAIN u
    <3>1. a \in Asked(acct) /\ a \in Accounts
      BY <1>2 DEF Successful
    <3> HIDE DEF from
    <3>2. U = DOMAIN BucketsOf(a) \cap (from .. b.to - 1) /\ IsFiniteSet(U) /\ SumFunction(u) = Total(u, U)
      BY BucketWindow DEF from
    <3>3. U = {}
      BY <2>2, <3>1, <3>2
    <3>4. w[a] = SumFunction(u)
      BY <3>1, SumsType
    <3> HIDE DEF u, U
    <3>5. Total(u, U) = 0
      BY <3>2, <3>3, TotalAdds
    <3> QED
      BY <3>2, <3>4, <3>5
  <2> HIDE DEF w, S
  <2>4. Total(w, S) = 0
    BY <1>2, <2>3, TotalZero
  <2> QED
    BY <1>1, <2>1, <2>4
<1> QED
    BY <1>3, <1>4, <1>5

\* The early days of every account
EarlySums(R) == [a \in Accounts |-> EarlyDays(a, R)]
EarlySum(acct, R) ==
    SumFunction([a \in InScope(acct) \cap Covered(acct) |->
        SumFunction([d \in {x \in R : x < CoverageStart(a)} |-> LocalByDay(a, d)])])

LEMMA EarlyIs ==
    ASSUME TypeInv, NEW acct \in Scopes, NEW R \in SUBSET Nat, IsFiniteSet(R)
    PROVE  /\ EarlySum(acct, R) = Total(EarlySums(R), InScope(acct))
           /\ \A a \in Accounts : EarlySums(R)[a] \in Nat /\ EarlySums(R)[a] = EarlyDays(a, R)
<1> DEFINE S == InScope(acct)
           C == S \cap Covered(acct)
           w == EarlySums(R)
           f == [a \in C |-> SumFunction([d \in {x \in R : x < CoverageStart(a)} |-> LocalByDay(a, d)])]
<1>1. IsFiniteSet(S) /\ S \subseteq Accounts /\ \A a \in S : a \in Covered(acct) <=> DOMAIN BucketsOf(a) # {}
    BY ScopeShape
<1>2. ASSUME NEW a \in Accounts
      PROVE  LET D == {x \in R : x < CoverageStart(a)}
             IN  /\ Total(LocalDays(a), D) \in Nat
                 /\ SumFunction([d \in D |-> LocalByDay(a, d)]) = Total(LocalDays(a), D)
  <2> DEFINE D == {x \in R : x < CoverageStart(a)}
             v == LocalDays(a)
             g == [d \in D |-> LocalByDay(a, d)]
  <2>1. D \subseteq Nat /\ IsFiniteSet(D)
    BY FS_Subset
  <2>2. \A d \in D : v[d] \in Nat /\ v[d] = LocalByDay(a, d)
    BY <2>1, LocalDaysType
  <2>3. SumFunction(g) = Total(g, D)
    <3>1. DOMAIN g = D
      OBVIOUS
    <3> HIDE DEF g
    <3> QED
      BY <3>1, SumIsTotal
  <2>4. \A d \in D : g[d] = v[d]
    BY <2>2
  <2> HIDE DEF g, D, v
  <2>5. Total(g, D) = Total(v, D) /\ Total(v, D) \in Nat
    BY <2>1, <2>2, <2>4, TotalSame, TotalAdds
  <2> QED
    BY <2>3, <2>5 DEF g, D, v
<1>3. \A a \in Accounts : w[a] \in Nat /\ w[a] = EarlyDays(a, R)
    BY <1>2 DEF EarlySums, EarlyDays
<1>4. \A a \in C : w[a] = f[a] /\ w[a] \in Nat
    BY <1>1, <1>2, <1>3 DEF EarlyDays
<1>5. \A a \in S \ C : w[a] = 0
    BY <1>1, <1>3 DEF EarlyDays
<1>6. EarlySum(acct, R) = SumFunction(f) /\ DOMAIN f = C
    BY DEF EarlySum
<1>7. C \in SUBSET S
    OBVIOUS
<1> HIDE DEF S, C, w, f
<1>8. SumFunction(f) = Total(f, C)
    BY <1>6, SumIsTotal
<1>9. \A a \in C : f[a] \in Nat /\ w[a] = f[a]
    BY <1>4
<1>10. Total(w, S) = Total(f, C)
    BY <1>1, <1>5, <1>7, <1>9, TotalPart
<1> QED
    BY <1>3, <1>6, <1>8, <1>10 DEF S, w

\* The days of the chart and their values
LEMMA PointsShape ==
    ASSUME TypeInv, NEW acct \in Scopes, NEW label \in PeriodLabels \ {"lifetime"}
    PROVE  LET b      == Bounds(Period(label))
               points == ReconcileAccountDays(acct, b, Day(now))
               chart  == [a \in InScope(acct) |-> ChartDays(a)]
           IN  /\ b.from \in Nat /\ b.to \in Nat
               /\ DOMAIN points = IF InScope(acct) = {} THEN {} ELSE b.from .. b.to - 1
               /\ DOMAIN points \subseteq Nat /\ IsFiniteSet(DOMAIN points)
               /\ \A d \in DOMAIN points :
                     /\ points[d].value \in Nat
                     /\ points[d].value = Total(Column(chart, InScope(acct), d), InScope(acct))
<1> USE QueriesAssumption
<1> DEFINE b == Bounds(Period(label))
           points == ReconcileAccountDays(acct, b, Day(now))
           S == InScope(acct)
           chart == [a \in S |-> ChartDays(a)]
           D == DOMAIN points
           from == b.from
           to == b.to
<1>1. from \in Nat /\ to \in Nat /\ from # NoTime /\ to # NoTime
  <2>1. now \in Nat
    BY DashboardAssumption, EffectiveSourceAssumption DEF TypeInv, EvidenceInv
  <2>2. Day(now) \in Nat
    BY <2>1, DayIsNat
  <2> QED
    BY <2>2, PeriodNow
<1>2. IsFiniteSet(S) /\ S \subseteq Accounts
    BY ScopeShape
<1> HIDE DEF b
<1>3. D = (IF S = {} THEN {} ELSE from .. to - 1) /\ \A d \in D : points[d].value = DayValue(acct, d)
    BY <1>1 DEF ReconcileAccountDays, ReconciledDays, TimeOr
<1>4. D \subseteq Nat /\ IsFiniteSet(D)
  <2> HIDE DEF from, to
  <2>1. to - 1 \in Int /\ from \in Int /\ from .. to - 1 \subseteq Nat
    BY <1>1
  <2>2. IsFiniteSet(from .. to - 1)
    BY <2>1, FS_Interval
  <2> HIDE DEF D
  <2> QED
    BY <1>3, <2>1, <2>2, FS_EmptySet
<1>5. ASSUME NEW d \in Nat PROVE DayValue(acct, d) = Total(Column(chart, S, d), S) /\ DayValue(acct, d) \in Nat
  <2> DEFINE f == [a \in S |-> IF CoversDay(a, d) THEN BucketOn(a, d) ELSE LocalByDay(a, d)]
             g == Column(chart, S, d)
  <2>1. DayValue(acct, d) = SumFunction(f) /\ DOMAIN f = S
    BY DEF DayValue
  <2>2. \A a \in S : f[a] = ChartDays(a)[d] /\ g[a] = f[a]
    BY DEF ChartDays, Column
  <2>3. \A a \in S : f[a] \in Nat
    BY <2>2, ChartDaysType
  <2> HIDE DEF f, g, S
  <2>4. SumFunction(f) = Total(f, S)
    BY <2>1, SumIsTotal
  <2>5. Total(f, S) = Total(g, S) /\ Total(f, S) \in Nat
    BY <1>2, <2>2, <2>3, TotalSame, TotalAdds
  <2> QED
    BY <2>1, <2>4, <2>5 DEF g
<1>6. \A d \in D : points[d].value \in Nat /\ points[d].value = Total(Column(chart, S, d), S)
    BY <1>3, <1>4, <1>5
<1> QED
    BY <1>1, <1>3, <1>4, <1>6 DEF b

\* The chart adds up to the total above it and the early days.
LEMMA ChartIsTotal ==
    ASSUME TypeInv, RebuiltOK, NEW acct \in Scopes, NEW label \in PeriodLabels \ {"lifetime"}
    PROVE  LET p      == Period(label)
               points == ReconcileAccountDays(acct, Bounds(p), Day(now))
           IN  SumFunction([d \in DOMAIN points |-> points[d].value])
                  = DisplayTotal(acct, p) + EarlySum(acct, DOMAIN points)
<1> DEFINE p == Period(label)
           b == Bounds(p)
           points == ReconcileAccountDays(acct, b, Day(now))
           D == DOMAIN points
           S == InScope(acct)
           chart == [a \in S |-> ChartDays(a)]
           value == [d \in D |-> points[d].value]
           L == LocalSums(p)
           O == BucketSums(b)
           E == EarlySums(D)
           row == [a \in S |-> Total(ChartDays(a), D)]
           LO == [a \in S |-> L[a] + O[a]]
           l == Total(L, S)
           o == Total(O, S)
           e == Total(E, S)
<1>1. /\ b.from \in Nat /\ b.to \in Nat
      /\ D = IF S = {} THEN {} ELSE b.from .. b.to - 1
      /\ D \subseteq Nat /\ IsFiniteSet(D)
      /\ \A d \in D : /\ points[d].value \in Nat
                      /\ points[d].value = Total(Column(chart, S, d), S)
    BY PointsShape
<1>2. IsFiniteSet(S) /\ S \subseteq Accounts /\ Successful(acct) \in SUBSET S
    BY ScopeShape
<1>3. p.label # "lifetime"
    BY PeriodNow
<1>4. \A a \in S : L[a] \in Nat /\ O[a] \in Nat
    BY <1>2, SumsType
<1>5. EarlySum(acct, D) = e /\ \A a \in Accounts : E[a] \in Nat /\ E[a] = EarlyDays(a, D)
  <2> HIDE DEF D
  <2> QED
    BY <1>1, EarlyIs
<1>6. \A a \in S : row[a] = LO[a] + E[a]
  <2> SUFFICES ASSUME NEW a \in S PROVE row[a] = LO[a] + E[a]
    OBVIOUS
  <2>1. D = b.from .. b.to - 1 /\ a \in Accounts
    BY <1>1, <1>2
  <2>2. Total(ChartDays(a), b.from .. b.to - 1) = L[a] + O[a] + EarlyDays(a, b.from .. b.to - 1)
    BY <2>1, AccountAddsUp
  <2> QED
    BY <1>5, <2>1, <2>2
<1>7. IsTable(chart, S, D, row, value)
  <2>1. \A a \in S : \A d \in D : chart[a][d] \in Nat
    BY <1>1, ChartDaysType
  <2>2. \A a \in S : row[a] = Total(chart[a], D)
    OBVIOUS
  <2>3. \A d \in D : value[d] = Total(Column(chart, S, d), S)
    BY <1>1
  <2> HIDE DEF chart, row, value, S, D
  <2> QED
    BY <2>1, <2>2, <2>3 DEF IsTable
<1>8. SumFunction(value) = Total(value, D)
  <2>1. DOMAIN value = D
    OBVIOUS
  <2> HIDE DEF value
  <2> QED
    BY <2>1, SumIsTotal
<1>9. LocalComplement(acct, p) = l /\ l \in Nat
    BY LocalComplementIs
<1>10. OfficialPart(acct, p) = BucketTotal(acct, b) /\ BucketTotal(acct, b) = Total(O, Successful(acct))
  <2> HIDE DEF p
  <2> QED
    BY <1>1, <1>3, OfficialPartIsBuckets, BucketTotalIs
<1>11. \A a \in S \ Successful(acct) : O[a] = 0
  <2> SUFFICES ASSUME NEW a \in S \ Successful(acct) PROVE O[a] = 0
    OBVIOUS
  <2>1. a \notin Covered(acct) /\ DOMAIN BucketsOf(a) = {}
    BY ScopeShape
  <2> DEFINE u == OfficialDailyUsage(a, b)
             U == DOMAIN u
  <2>2. O[a] = SumFunction(u)
    BY <1>2, SumsType
  <2> HIDE DEF b
  <2>3. U = DOMAIN BucketsOf(a) \cap (b.from .. b.to - 1) /\ IsFiniteSet(U) /\ SumFunction(u) = Total(u, U)
    BY <1>1, BucketWindow
  <2>4. U = {}
    BY <2>1, <2>3
  <2> HIDE DEF U, u
  <2>5. Total(u, U) = 0
    BY <2>3, <2>4, TotalAdds
  <2> QED
    BY <2>2, <2>3, <2>5
<1>12. DisplayTotal(acct, p) = LocalComplement(acct, p) + OfficialPart(acct, p)
    BY DEF DisplayTotal, OfficialPart
<1>13. \A a \in S : LO[a] = L[a] + O[a] /\ LO[a] \in Nat
    BY <1>4
<1>14. \A a \in S : E[a] \in Nat
    BY <1>2, <1>5
<1> DEFINE R == Successful(acct)
           total == Total(value, D)
           x == Total(LO, S)
           y == Total(row, S)
<1> HIDE DEF p, b, points, D, S, chart, value, L, O, E, row, LO, R
<1>15. y = total
    BY <1>1, <1>2, <1>7, TotalTable
<1>16. x = l + o
    BY <1>2, <1>4, <1>13, TotalPlus
<1>17. y = x + e
    BY <1>2, <1>6, <1>13, <1>14, TotalPlus
<1>18. o = Total(O, R)
  <2>1. R \in SUBSET S /\ (\A a \in R : O[a] \in Nat /\ O[a] = O[a]) /\ (\A a \in S \ R : O[a] = 0)
    BY <1>2, <1>4, <1>11 DEF R
  <2> QED
    BY <1>2, <2>1, TotalPart
<1>19. DisplayTotal(acct, p) = l + o
    BY <1>9, <1>10, <1>12, <1>18 DEF R
<1>20. total = DisplayTotal(acct, p) + e
    BY <1>15, <1>16, <1>17, <1>19
<1>21. SumFunction(value) = DisplayTotal(acct, p) + EarlySum(acct, D)
    BY <1>5, <1>8, <1>20
<1> QED
    BY <1>21 DEF value, D, points, b, p

\* Weeks add up to what their days add up to.
LEMMA WeeksAddUp ==
    ASSUME NEW points, DOMAIN points \subseteq Nat, IsFiniteSet(DOMAIN points),
           \A d \in DOMAIN points : points[d].value \in Nat
    PROVE  LET weeks == AggregateReconciledAccountDays(points, "week")
           IN  SumFunction([k \in DOMAIN weeks |-> weeks[k].value])
                  = SumFunction([d \in DOMAIN points |-> points[d].value])
<1> DEFINE weeks == AggregateReconciledAccountDays(points, "week")
           D == DOMAIN points
           K == DOMAIN weeks
           value == [d \in D |-> points[d].value]
           week == [k \in K |-> weeks[k].value]
           h == [d \in D |-> AggregateDateKey(d, "week")]
<1>1. K = {h[d] : d \in D}
    BY DEF AggregateReconciledAccountDays
<1>2. IsFiniteSet(K)
  <2>1. WeekDays \in Nat \ {0}
    BY QueriesAssumption
  <2>2. \A d \in D : h[d] \in Nat /\ h[d] <= d
    BY <2>1, RoundsDown DEF AggregateDateKey
  <2> DEFINE weight == [d \in D |-> d]
  <2>3. CASE D = {}
    <3>1. K = {}
      BY <1>1, <2>3
    <3> QED
      BY <3>1, FS_EmptySet
  <2>4. CASE D # {}
    <3>1. \A d \in D : weight[d] \in Nat
      OBVIOUS
    <3> HIDE DEF weight, K, h
    <3>2. PICK top \in D : \A d \in D : weight[top] >= weight[d]
      BY <2>4, <3>1, GreatestWeight
    <3>3. top \in Nat /\ \A d \in D : d <= top
      BY <3>2 DEF weight
    <3>4. K \subseteq 0 .. top
      <4> SUFFICES ASSUME NEW d \in D PROVE h[d] \in 0 .. top
        BY <1>1
      <4>1. h[d] \in Nat /\ h[d] <= d /\ d <= top /\ d \in Nat
        BY <2>2, <3>3
      <4> QED
        BY <3>3, <4>1
    <3>5. 0 \in Int /\ top \in Int
      BY <3>3
    <3>6. IsFiniteSet(0 .. top)
      BY <3>5, FS_Interval
    <3> QED
      BY <3>4, <3>6, FS_Subset
  <2> QED
    BY <2>3, <2>4
<1>3. \A d \in D : value[d] \in Nat
    OBVIOUS
<1>4. ASSUME NEW k \in K PROVE week[k] = Total(value, Fiber(h, D, k))
  <2> DEFINE of == {d \in D : AggregateDateKey(d, "week") = k}
             g == [d \in of |-> points[d].value]
  <2>1. week[k] = SumFunction(g) /\ DOMAIN g = of
    BY <1>4 DEF AggregateReconciledAccountDays
  <2>2. Fiber(h, D, k) = of
    BY DEF Fiber
  <2>3. \A d \in of : g[d] = value[d]
    OBVIOUS
  <2>4. IsFiniteSet(of)
    BY FS_Subset
  <2> HIDE DEF of, g, value, week, h, D
  <2>5. SumFunction(g) = Total(g, of)
    BY <2>1, SumIsTotal
  <2>6. Total(g, of) = Total(value, of)
    BY <2>3, <2>4, TotalSame
  <2> QED
    BY <2>1, <2>2, <2>5, <2>6
<1>5. AreFibers(week, h, value, D, K)
  <2>1. h \in [D -> K]
    BY <1>1
  <2> HIDE DEF D, K, h, value, week
  <2> QED
    BY <1>4, <2>1 DEF AreFibers
<1>6. DOMAIN week = K /\ DOMAIN value = D /\ IsFiniteSet(D)
    OBVIOUS
<1> HIDE DEF D, K, h, value, week
<1>7. Total(value, D) = Total(week, K)
    BY <1>2, <1>3, <1>5, <1>6, TotalFibers
<1>8. SumFunction(value) = Total(value, D) /\ SumFunction(week) = Total(week, K)
    BY <1>6, SumIsTotal
<1>9. SumFunction(week) = SumFunction(value)
    BY <1>7, <1>8
<1> QED
    BY <1>9 DEF D, K, value, week

\* The official points add up to the buckets.
LEMMA OfficialPointsAddUp ==
    ASSUME TypeInv, NEW acct \in Scopes, NEW b, b.from \in Nat, b.to \in Nat
    PROVE  SumFunction(OfficialPoints(acct, b)) = BucketTotal(acct, b)
<1> USE QueriesAssumption
<1> DEFINE S == Successful(acct)
           R == b.from .. b.to - 1
           points == OfficialPoints(acct, b)
           Z == DOMAIN points
           m == [a \in S |-> [d \in Z |-> BucketOn(a, d)]]
           O == BucketSums(b)
           row == [a \in S |-> Total(m[a], Z)]
           Used(a) == DOMAIN OfficialDailyUsage(a, b)
<1>1. IsFiniteSet(S) /\ S \subseteq Accounts
    BY ScopeShape, FS_Subset
<1>2. ASSUME NEW a \in Accounts
      PROVE  LET u == OfficialDailyUsage(a, b)
             IN  /\ DOMAIN u = DOMAIN BucketsOf(a) \cap R /\ IsFiniteSet(DOMAIN u) /\ DOMAIN u \subseteq Days
                 /\ \A d \in DOMAIN u : u[d] \in Nat /\ u[d] = BucketOn(a, d)
                 /\ \A d \in R : d \notin DOMAIN u => BucketOn(a, d) = 0
                 /\ SumFunction(u) = Total(u, DOMAIN u)
    BY BucketWindow
<1>3. Days \subseteq Nat /\ IsFiniteSet(Days)
    BY BucketsType DEF TypeInv
<1>4. /\ Z \subseteq Days /\ \A d \in Z : d \in R
      /\ \A a \in S : DOMAIN OfficialDailyUsage(a, b) \subseteq Z
      /\ \A d \in Z : points[d] = SumFunction([a \in S |-> BucketOn(a, d)])
  <2> DEFINE zeros == {d \in Days : AllCovered(acct) /\ b.to # NoTime /\ InBounds(d, b)
                                    /\ d \in CommonStart(acct) .. CommonThrough(acct)}
             used == UNION {DOMAIN OfficialDailyUsage(a, b) : a \in S}
  <2>1. Z = zeros \cup used /\ \A d \in Z : points[d] = SumFunction([a \in S |-> BucketOn(a, d)])
    BY DEF OfficialPoints
  <2>2. \A a \in S : DOMAIN OfficialDailyUsage(a, b) \subseteq R /\ DOMAIN OfficialDailyUsage(a, b) \subseteq Days
    BY <1>1, <1>2
  <2>3. used \subseteq R /\ used \subseteq Days
    BY <2>2
  <2>4. zeros \subseteq R /\ zeros \subseteq Days
    <3> SUFFICES ASSUME NEW d \in Days, InBounds(d, b) PROVE d \in R
      OBVIOUS
    <3> DEFINE from == b.from
               to == b.to
    <3>1. from \in Nat /\ to \in Nat /\ from # NoTime /\ to # NoTime /\ d \in Nat
      BY <1>3
    <3>2. from <= d /\ d < to
      BY <3>1 DEF InBounds, TimeOr
    <3> HIDE DEF from, to
    <3>3. d \in from .. to - 1
      BY <3>1, <3>2
    <3> QED
      BY <3>3 DEF from, to
  <2>5. \A a \in S : DOMAIN OfficialDailyUsage(a, b) \subseteq used
    OBVIOUS
  <2> HIDE DEF Z, points, used, zeros
  <2> QED
    BY <2>1, <2>3, <2>4, <2>5
<1>5. IsFiniteSet(Z)
    BY <1>3, <1>4, FS_Subset
<1> HIDE DEF R
<1>6. \A a \in S : \A d \in Z : m[a][d] \in Nat
    BY BucketsType DEF TypeInv
<1>7. ASSUME NEW d \in Z PROVE points[d] = Total(Column(m, S, d), S)
  <2> DEFINE f == [a \in S |-> BucketOn(a, d)]
             g == Column(m, S, d)
  <2>1. points[d] = SumFunction(f) /\ DOMAIN f = S /\ \A a \in S : f[a] = g[a]
    BY <1>4 DEF Column
  <2> HIDE DEF f, g, S, Z
  <2>2. SumFunction(f) = Total(f, S)
    BY <2>1, SumIsTotal
  <2>3. Total(f, S) = Total(g, S)
    BY <1>1, <2>1, TotalSame
  <2> QED
    BY <2>1, <2>2, <2>3 DEF g
<1>8. IsTable(m, S, Z, row, points)
  <2>1. \A a \in S : row[a] = Total(m[a], Z)
    OBVIOUS
  <2> HIDE DEF m, row, points, S, Z
  <2> QED
    BY <1>6, <1>7, <2>1 DEF IsTable
<1>9. ASSUME NEW a \in S PROVE row[a] = O[a]
  <2> DEFINE u == OfficialDailyUsage(a, b)
             U == DOMAIN u
             v == m[a]
  <2>1. a \in Accounts /\ row[a] = Total(v, Z) /\ \A d \in Z : v[d] = BucketOn(a, d)
    BY <1>1
  <2>2. U \in SUBSET Z
    BY <1>4
  <2>3. (\A d \in U : u[d] \in Nat /\ v[d] = u[d]) /\ (\A d \in Z \ U : v[d] = 0) /\ SumFunction(u) = Total(u, U)
    BY <1>2, <1>4, <2>1, <2>2
  <2>4. O[a] = SumFunction(u)
    BY <2>1, SumsType
  <2> HIDE DEF u, U, v, Z, O, row
  <2>5. Total(v, Z) = Total(u, U)
    BY <1>5, <2>2, <2>3, TotalPart
  <2> QED
    BY <2>1, <2>3, <2>4, <2>5
<1>10. BucketTotal(acct, b) = Total(O, S)
    BY BucketTotalIs
<1>11. SumFunction(points) = Total(points, Z)
    BY SumIsTotal
<1> HIDE DEF S, Z, m, O, row, points
<1>12. Total(row, S) = Total(points, Z)
    BY <1>1, <1>5, <1>8, TotalTable
<1>13. Total(row, S) = Total(O, S)
    BY <1>1, <1>9, TotalSame
<1>14. SumFunction(points) = BucketTotal(acct, b)
    BY <1>10, <1>11, <1>12, <1>13
<1> QED
    BY <1>14 DEF points

\* A part of a window's official usage
OfficialOf(acct, b, X) ==
    SumFunction([a \in Asked(acct) |->
        SumFunctionOnSet(OfficialDailyUsage(a, b), X \cap DOMAIN OfficialDailyUsage(a, b))])
OfficialOfSums(b, X) ==
    [a \in Accounts |-> Total(OfficialDailyUsage(a, b), X \cap DOMAIN OfficialDailyUsage(a, b))]

LEMMA OfficialOfIs ==
    ASSUME TypeInv, NEW acct \in Scopes, NEW b, b.from \in Nat, b.to \in Nat, NEW X
    PROVE  /\ OfficialOf(acct, b, X) = Total(OfficialOfSums(b, X), Asked(acct))
           /\ \A a \in Accounts : OfficialOfSums(b, X)[a] \in Nat
<1> DEFINE S == Asked(acct)
           w == OfficialOfSums(b, X)
           f == [a \in S |-> SumFunctionOnSet(OfficialDailyUsage(a, b), X \cap DOMAIN OfficialDailyUsage(a, b))]
<1>1. IsFiniteSet(S) /\ S \subseteq Accounts
  <2>1. S \subseteq InScope(acct) /\ InScope(acct) \subseteq Accounts /\ IsFiniteSet(InScope(acct))
    BY ScopeShape
  <2> HIDE DEF S
  <2> QED
    BY <2>1, FS_Subset
<1>2. ASSUME NEW a \in Accounts PROVE w[a] \in Nat
  <2> DEFINE u == OfficialDailyUsage(a, b)
             U == DOMAIN u
  <2>1. IsFiniteSet(U) /\ \A d \in U : u[d] \in Nat
    BY BucketWindow
  <2>2. w[a] = Total(u, X \cap U)
    BY DEF OfficialOfSums
  <2> HIDE DEF u, U, w
  <2>3. X \cap U \in SUBSET U
    OBVIOUS
  <2>4. Total(u, X \cap U) \in Nat
    BY <2>1, <2>3, TotalAdds
  <2> QED
    BY <2>2, <2>4
<1>3. \A a \in S : f[a] = w[a]
    BY <1>1, SumIsTotal DEF OfficialOfSums
<1>4. OfficialOf(acct, b, X) = SumFunction(f) /\ DOMAIN f = S
    BY DEF OfficialOf
<1> HIDE DEF S, w, f
<1>5. SumFunction(f) = Total(f, S)
    BY <1>4, SumIsTotal
<1>6. Total(f, S) = Total(w, S)
    BY <1>1, <1>3, TotalSame
<1> QED
    BY <1>2, <1>4, <1>5, <1>6 DEF S, w

\* Days before any evidence, days without any and days with evidence share out the
\* official usage of a window.
LEMMA CoverAddsUp ==
    ASSUME TypeInv, NEW acct \in Scopes, NEW b, b.from \in Nat, b.to \in Nat, NEW evidence
    PROVE  LET before == {d \in Days : \A e \in evidence : d < e}
           IN  OfficialOf(acct, b, before) + OfficialOf(acct, b, Days \ (evidence \cup before))
                  + OfficialOf(acct, b, evidence) = BucketTotal(acct, b)
<1> DEFINE before == {d \in Days : \A e \in evidence : d < e}
           without == Days \ (evidence \cup before)
           S == Asked(acct)
           R == Successful(acct)
           O == BucketSums(b)
           w1 == OfficialOfSums(b, before)
           w2 == OfficialOfSums(b, without)
           w3 == OfficialOfSums(b, evidence)
           w12 == [a \in S |-> w1[a] + w2[a]]
<1>1. IsFiniteSet(S) /\ S \subseteq Accounts /\ R \in SUBSET S
  <2>1. S \subseteq InScope(acct) /\ InScope(acct) \subseteq Accounts /\ IsFiniteSet(InScope(acct))
    BY ScopeShape
  <2>2. R \in SUBSET S
    BY DEF Successful
  <2> HIDE DEF S, R
  <2> QED
    BY <2>1, <2>2, FS_Subset
<1>2. /\ OfficialOf(acct, b, before) = Total(w1, S) /\ OfficialOf(acct, b, without) = Total(w2, S)
      /\ OfficialOf(acct, b, evidence) = Total(w3, S)
      /\ \A a \in Accounts : w1[a] \in Nat /\ w2[a] \in Nat /\ w3[a] \in Nat
  <2> HIDE DEF before, without, S
  <2> QED
    BY OfficialOfIs DEF S
<1>3. Days \subseteq Nat
    BY BucketsType DEF TypeInv
<1>4. before \cap evidence = {} /\ before \cap without = {} /\ evidence \cap without = {}
      /\ Days \subseteq before \cup without \cup evidence
  <2>1. \A d \in Days : ~(d < d)
    BY <1>3
  <2>2. before \cap evidence = {}
    BY <2>1
  <2> QED
    BY <2>2
<1>5. ASSUME NEW a \in S PROVE O[a] = w12[a] + w3[a] /\ O[a] \in Nat /\ (a \notin R => O[a] = 0)
  <2> DEFINE u == OfficialDailyUsage(a, b)
             U == DOMAIN u
             U1 == before \cap U
             U2 == without \cap U
             U3 == evidence \cap U
  <2>1. a \in Accounts
    BY <1>1
  <2>2. IsFiniteSet(U) /\ U \subseteq Days /\ (\A d \in U : u[d] \in Nat) /\ SumFunction(u) = Total(u, U) /\ SumFunction(u) \in Nat
        /\ U \subseteq DOMAIN BucketsOf(a)
    <3>1. /\ DOMAIN u = DOMAIN BucketsOf(a) \cap (b.from .. b.to - 1) /\ IsFiniteSet(DOMAIN u)
          /\ DOMAIN u \subseteq Days
          /\ \A d \in DOMAIN u : u[d] \in Nat /\ u[d] = BucketOn(a, d)
          /\ SumFunction(u) = Total(u, DOMAIN u) /\ SumFunction(u) \in Nat
      BY ONLY TypeInv, b.from \in Nat, b.to \in Nat, BucketWindow
    <3> HIDE DEF u
    <3> QED
      BY ONLY <3>1
  <2>3. O[a] = SumFunction(u) /\ w1[a] = Total(u, U1) /\ w2[a] = Total(u, U2) /\ w3[a] = Total(u, U3)
        /\ w12[a] = w1[a] + w2[a]
    BY <2>1, SumsType DEF OfficialOfSums
  <2>4. a \notin R => DOMAIN BucketsOf(a) = {}
    BY ScopeShape
  <2> HIDE DEF before, without, u, U, O, w1, w2, w3, w12
  <2>5. U1 \cap U2 = {} /\ (U1 \cup U2) \cap U3 = {} /\ (U1 \cup U2) \cup U3 = U
    BY <1>4, <2>2
  <2>6. IsFiniteSet(U1) /\ IsFiniteSet(U2) /\ IsFiniteSet(U3) /\ IsFiniteSet(U1 \cup U2)
    BY <2>2, FS_Subset
  <2>7. (\A d \in U1 \cup U2 : u[d] \in Nat) /\ (\A d \in (U1 \cup U2) \cup U3 : u[d] \in Nat)
    BY <2>2
  <2> HIDE DEF U1, U2, U3
  <2>8. Total(u, U1 \cup U2) = Total(u, U1) + Total(u, U2)
    BY <2>5, <2>6, <2>7, TotalUnion
  <2>9. Total(u, (U1 \cup U2) \cup U3) = Total(u, U1 \cup U2) + Total(u, U3)
    BY <2>5, <2>6, <2>7, TotalUnion
  <2>10. O[a] = w12[a] + w3[a]
    BY <2>2, <2>3, <2>5, <2>8, <2>9
  <2>11. a \notin R => O[a] = 0
    <3> SUFFICES ASSUME a \notin R PROVE O[a] = 0
      OBVIOUS
    <3>1. U = {}
      BY <2>2, <2>4
    <3>2. Total(u, U) = 0
      BY <2>2, <3>1, TotalAdds
    <3> QED
      BY <2>2, <2>3, <3>2
  <2> QED
    BY <2>2, <2>3, <2>10, <2>11
<1>6. BucketTotal(acct, b) = Total(O, R)
    BY BucketTotalIs
<1>7. \A a \in S : w12[a] = w1[a] + w2[a] /\ w1[a] \in Nat /\ w2[a] \in Nat /\ w3[a] \in Nat /\ w12[a] \in Nat
  <2>1. \A a \in S : w12[a] = w1[a] + w2[a]
    OBVIOUS
  <2> HIDE DEF w1, w2, w3, w12, S
  <2>2. \A a \in S : w1[a] \in Nat /\ w2[a] \in Nat /\ w3[a] \in Nat
    BY <1>1, <1>2
  <2> QED
    BY <2>1, <2>2
<1> HIDE DEF before, without, S, R, O, w1, w2, w3, w12
<1>8. Total(w12, S) = Total(w1, S) + Total(w2, S)
    BY <1>1, <1>7, TotalPlus
<1>9. Total(O, S) = Total(w12, S) + Total(w3, S)
    BY <1>1, <1>5, <1>7, TotalPlus
<1>10. Total(O, S) = Total(O, R)
  <2>1. (\A a \in R : O[a] \in Nat /\ O[a] = O[a]) /\ \A a \in S \ R : O[a] = 0
    BY <1>1, <1>5
  <2> QED
    BY <1>1, <2>1, TotalPart
<1>11. OfficialOf(acct, b, before) + OfficialOf(acct, b, without) + OfficialOf(acct, b, evidence) = BucketTotal(acct, b)
    BY <1>2, <1>6, <1>8, <1>9, <1>10
<1> QED
    BY <1>11 DEF before, without

\* PointsAddUp: the chart, its weeks, the official points and the three parts of the
\* attribution coverage all add up to the total shown above them.
THEOREM PointsAddUpHolds == Spec => []PointsAddUp
<1>1. ASSUME TypeInv, RebuiltOK PROVE PointsAddUp
  <2> SUFFICES ASSUME NEW label \in PeriodLabels \ {"lifetime"}, NEW acct \in Scopes
               PROVE  LET p      == Period(label)
                          b      == Bounds(p)
                          points == ReconcileAccountDays(acct, b, Day(now))
                          cover  == AttributionCoverage(acct, p)
                          weeks  == AggregateReconciledAccountDays(points, "week")
                          early  == SumFunction([a \in InScope(acct) \cap Covered(acct) |->
                                        SumFunction([d \in {x \in DOMAIN points : x < CoverageStart(a)} |->
                                                        LocalByDay(a, d)])])
                          Sum(m) == SumFunction([k \in DOMAIN m |-> m[k].value])
                      IN  /\ Sum(points) = DisplayTotal(acct, p) + early
                          /\ Sum(weeks) = Sum(points)
                          /\ SumFunction(OfficialPoints(acct, b)) = BucketTotal(acct, b)
                          /\ cover.before + cover.without + cover.onEvidence = BucketTotal(acct, b)
    BY DEF PointsAddUp
  <2> DEFINE p == Period(label)
             b == Bounds(p)
             points == ReconcileAccountDays(acct, b, Day(now))
             cover == AttributionCoverage(acct, p)
             weeks == AggregateReconciledAccountDays(points, "week")
             early == SumFunction([a \in InScope(acct) \cap Covered(acct) |->
                          SumFunction([d \in {x \in DOMAIN points : x < CoverageStart(a)} |->
                                          LocalByDay(a, d)])])
             Sum(m) == SumFunction([k \in DOMAIN m |-> m[k].value])
  <2>1. /\ b.from \in Nat /\ b.to \in Nat /\ DOMAIN points \subseteq Nat /\ IsFiniteSet(DOMAIN points)
        /\ \A d \in DOMAIN points : points[d].value \in Nat
    BY <1>1, PointsShape
  <2>2. Sum(points) = DisplayTotal(acct, p) + early
    BY <1>1, ChartIsTotal DEF EarlySum
  <2>3. Sum(weeks) = Sum(points)
    <3> HIDE DEF points
    <3> QED
      BY <2>1, WeeksAddUp
  <2>4. SumFunction(OfficialPoints(acct, b)) = BucketTotal(acct, b)
    <3> HIDE DEF b
    <3> QED
      BY <1>1, <2>1, OfficialPointsAddUp
  <2>5. cover.before + cover.without + cover.onEvidence = BucketTotal(acct, b)
    <3> DEFINE query == [acct |-> acct, proj |-> Unfiltered]
               filter == PeriodFilter(query, "confirmed", p)
               evidence == DOMAIN AggregateRollupBy("day", [filter EXCEPT !.quality = Unfiltered])
               before == {d \in Days : \A e \in evidence : d < e}
    <3>1. /\ cover.before = OfficialOf(acct, b, before)
          /\ cover.without = OfficialOf(acct, b, Days \ (evidence \cup before))
          /\ cover.onEvidence = OfficialOf(acct, b, evidence)
      BY DEF AttributionCoverage, OfficialOf
    <3> HIDE DEF b, evidence, cover
    <3>2. OfficialOf(acct, b, before) + OfficialOf(acct, b, Days \ (evidence \cup before))
            + OfficialOf(acct, b, evidence) = BucketTotal(acct, b)
      BY <1>1, <2>1, CoverAddsUp
    <3> HIDE DEF before
    <3> QED
      BY <3>1, <3>2
  <2> HIDE DEF points, p, cover
  <2> QED
    BY <2>2, <2>3, <2>4, <2>5 DEF p, points, cover
<1> QED
    BY <1>1, TypeInvariance, RebuiltInvariance, PTL

-----------------------------------------------------------------------------
(* Every route to local usage shares out the same facts.                   *)

\* R reads sets of facts, one per statement
Reads(R) == IsFiniteSet(DOMAIN R) /\ \A i \in DOMAIN R : R[i] \in SUBSET Facts

\* The tokens of the facts that each statement reads, and of those with a key in D
Whole(R)      == [i \in DOMAIN R |-> Tokens(R[i])]
Part(R, g, D) == [i \in DOMAIN R |-> Tokens({f \in R[i] : g[f] \in D})]
Share(R, g, k) == [i \in DOMAIN R |-> Tokens({f \in R[i] : g[f] = k})]

\* The facts of S by their key
Keyed(S, g) == [k \in {g[f] : f \in S} |-> {f \in S : g[f] = k}]

\* A shares out the facts of R by the key g.
IsSplit(A, R, g) ==
    /\ DOMAIN A = UNION {{g[f] : f \in R[i]} : i \in DOMAIN R}
    /\ \A k \in DOMAIN A : A[k] = Total(Share(R, g, k), DOMAIN R)

\* Finitely many facts have finitely many keys.
LEMMA FiniteKeys ==
    ASSUME NEW S, IsFiniteSet(S), NEW g
    PROVE  IsFiniteSet({g[x] : x \in S})
<1> DEFINE K(V) == {g[x] : x \in V}
           C == {V \in SUBSET S : IsFiniteSet(K(V))}
<1>1. {} \in C
  <2>1. K({}) = {}
    OBVIOUS
  <2> QED
    BY <2>1, FS_EmptySet
<1>2. ASSUME NEW V \in SUBSET S, NEW z \in S \ V, V \in C PROVE V \cup {z} \in C
  <2>1. K(V \cup {z}) = K(V) \cup {g[z]}
    OBVIOUS
  <2>2. IsFiniteSet(K(V))
    BY <1>2
  <2> HIDE DEF K
  <2>3. IsFiniteSet(K(V) \cup {g[z]})
    BY <2>2, FS_AddElement
  <2> QED
    BY <2>1, <2>3
<1> HIDE DEF C
<1>3. S \in C
  BY <1>1, <1>2, FiniteInduction
<1> QED
  BY <1>3 DEF C

\* What a statement reads with one key
LEMMA ShareTypes ==
    ASSUME NEW R, Reads(R), NEW g
    PROVE  /\ \A k : Total(Share(R, g, k), DOMAIN R) \in Nat
           /\ \A k : \A i \in DOMAIN R : Share(R, g, k)[i] \in Nat
           /\ IsFiniteSet(UNION {{g[f] : f \in R[i]} : i \in DOMAIN R})
<1> DEFINE I == DOMAIN R
<1>1. ASSUME NEW k, NEW i \in I PROVE Share(R, g, k)[i] \in Nat
  <2>1. {f \in R[i] : g[f] = k} \in SUBSET Facts
    BY DEF Reads
  <2> QED
    BY <2>1, TokensType DEF Share
<1>2. ASSUME NEW k PROVE Total(Share(R, g, k), I) \in Nat
  <2> DEFINE w == Share(R, g, k)
  <2>1. \A i \in I : w[i] \in Nat
    BY <1>1
  <2> HIDE DEF w
  <2>2. IsFiniteSet(I)
    BY DEF Reads
  <2> QED
    BY <2>1, <2>2, TotalAdds DEF w
<1>3. IsFiniteSet(UNION {{g[f] : f \in R[i]} : i \in I})
  <2> DEFINE K == {g[f] : f \in Facts}
             U == UNION {{g[f] : f \in R[i]} : i \in I}
  <2>1. IsFiniteSet(K)
    BY EffectiveSourceAssumption, FiniteKeys
  <2>2. U \subseteq K
    BY DEF Reads
  <2> QED
    BY <2>1, <2>2, FS_Subset
<1> QED
    BY <1>1, <1>2, <1>3

\* The keys in D hold what the statements read with a key in D.
LEMMA SplitPart ==
    ASSUME NEW R, Reads(R), NEW g, NEW A, IsSplit(A, R, g), NEW D
    PROVE  /\ Total(A, D \cap DOMAIN A) = Total(Part(R, g, D), DOMAIN R)
           /\ IsFiniteSet(DOMAIN A) /\ \A k \in DOMAIN A : A[k] \in Nat
<1> DEFINE I == DOMAIN R
           K == D \cap DOMAIN A
           m == [k \in K |-> Share(R, g, k)]
           c == Part(R, g, D)
<1>1. IsFiniteSet(I) /\ \A i \in I : R[i] \in SUBSET Facts
    BY DEF Reads
<1>2. /\ DOMAIN A = UNION {{g[f] : f \in R[i]} : i \in I}
      /\ \A k \in DOMAIN A : A[k] = Total(Share(R, g, k), I)
    BY DEF IsSplit
<1>3. IsFiniteSet(DOMAIN A) /\ IsFiniteSet(K) /\ \A k \in DOMAIN A : A[k] \in Nat
  <2>1. /\ \A k : Total(Share(R, g, k), I) \in Nat
        /\ IsFiniteSet(UNION {{g[f] : f \in R[i]} : i \in I})
    BY ShareTypes
  <2>2. IsFiniteSet(DOMAIN A) /\ \A k \in DOMAIN A : A[k] \in Nat
    <3> HIDE DEF I
    <3> QED
      BY <1>2, <2>1
  <2> QED
    BY <2>2, FS_Subset
<1>4. \A k \in K : m[k] = Share(R, g, k) /\ A[k] = Total(m[k], I) /\ \A i \in I : m[k][i] \in Nat
  <2>1. \A k \in K : m[k] = Share(R, g, k) /\ A[k] = Total(Share(R, g, k), I)
    BY <1>2
  <2>2. \A k \in K : \A i \in I : Share(R, g, k)[i] \in Nat
    BY ShareTypes
  <2> QED
    BY <2>1, <2>2
<1>5. ASSUME NEW i \in I PROVE c[i] = Total(Column(m, K, i), K)
  <2> DEFINE S == {f \in R[i] : g[f] \in D}
             h == [f \in S |-> g[f]]
             fib == Column(m, K, i)
  <2>1. S \in SUBSET Facts /\ S \subseteq R[i]
    BY <1>1
  <2>2. c[i] = Tokens(S)
    BY DEF Part
  <2>3. h \in [S -> K]
    BY <1>2
  <2>4. ASSUME NEW k \in K PROVE fib[k] = Total(Weight, Fiber(h, S, k))
    <3> DEFINE F == {f \in R[i] : g[f] = k}
    <3>1. F \in SUBSET Facts
      BY <1>1
    <3>2. Fiber(h, S, k) = F
      BY <2>1 DEF Fiber
    <3>3. fib[k] = Tokens(F)
      BY <1>4 DEF Column, Share
    <3> HIDE DEF F, fib, h, S, K
    <3>4. Tokens(F) = Total(Weight, F)
      BY <3>1, TokensIsTotal
    <3> QED
      BY <3>2, <3>3, <3>4
  <2>5. AreFibers(fib, h, Weight, S, K)
    <3> HIDE DEF fib, h, S, K
    <3> QED
      BY <2>3, <2>4 DEF AreFibers
  <2> HIDE DEF fib, h, S, K
  <2>6. Tokens(S) = Total(Weight, S) /\ IsFiniteSet(S) /\ \A f \in S : Weight[f] \in Nat
    BY <2>1, TokensIsTotal
  <2>7. Total(Weight, S) = Total(fib, K)
    BY <1>3, <2>5, <2>6, TotalFibers
  <2> QED
    BY <2>2, <2>6, <2>7 DEF fib
<1>6. IsTable(m, K, I, A, c)
  <2> HIDE DEF m, K, I, c
  <2> QED
    BY <1>4, <1>5 DEF IsTable
<1> HIDE DEF m, c, K, I
<1>7. Total(A, K) = Total(c, I)
    BY <1>1, <1>3, <1>6, TotalTable
<1> QED
    BY <1>3, <1>7 DEF K, c, I

\* All keys together hold what the statements read.
LEMMA SplitWhole ==
    ASSUME NEW R, Reads(R), NEW g, NEW A, IsSplit(A, R, g)
    PROVE  SumFunction(A) = Total(Whole(R), DOMAIN R)
<1> DEFINE D == DOMAIN A
<1>1. D \cap DOMAIN A = D
    OBVIOUS
<1>2. Part(R, g, D) = Whole(R)
  <2>1. \A i \in DOMAIN R : {f \in R[i] : g[f] \in D} = R[i]
    BY DEF IsSplit
  <2> HIDE DEF D
  <2> QED
    BY <2>1 DEF Part, Whole
<1> HIDE DEF D
<1>3. Total(A, D \cap DOMAIN A) = Total(Part(R, g, D), DOMAIN R)
    BY SplitPart
<1>4. SumFunction(A) = Total(A, DOMAIN A)
    BY SumIsTotal
<1> QED
    BY <1>1, <1>2, <1>3, <1>4 DEF D

\* Buckets under new keys share out the same facts.
LEMMA SplitRekeyed ==
    ASSUME NEW R, Reads(R), NEW g, NEW B, IsSplit(B, R, g), NEW h, NEW A, NEW e,
           A = [c \in {h[k] : k \in DOMAIN B} |-> SumFunctionOnSet(B, {k \in DOMAIN B : h[k] = c})],
           \A f \in Facts : g[f] \in DOMAIN B => e[f] = h[g[f]]
    PROVE  IsSplit(A, R, e)
<1>1. \A i \in DOMAIN R : \A f \in R[i] : g[f] \in DOMAIN B /\ e[f] = h[g[f]]
    BY DEF IsSplit, Reads
<1>2. DOMAIN A = UNION {{e[f] : f \in R[i]} : i \in DOMAIN R}
  <2>1. DOMAIN A = {h[k] : k \in DOMAIN B}
    OBVIOUS
  <2>2. DOMAIN B = UNION {{g[f] : f \in R[i]} : i \in DOMAIN R}
    BY DEF IsSplit
  <2>3. ASSUME NEW c \in DOMAIN A PROVE \E i \in DOMAIN R : \E f \in R[i] : c = e[f]
    <3>1. PICK k \in DOMAIN B : c = h[k]
      BY <2>1
    <3>2. PICK i \in DOMAIN R : \E f \in R[i] : k = g[f]
      BY <2>2
    <3> QED
      BY <1>1, <3>1, <3>2
  <2>4. ASSUME NEW i \in DOMAIN R, NEW f \in R[i] PROVE e[f] \in DOMAIN A
    BY <1>1, <2>1
  <2> DEFINE X == DOMAIN A
  <2>5. /\ \A c \in X : \E i \in DOMAIN R : \E f \in R[i] : c = e[f]
        /\ \A i \in DOMAIN R : \A f \in R[i] : e[f] \in X
    BY <2>3, <2>4
  <2> HIDE DEF X
  <2>6. X = UNION {{e[f] : f \in R[i]} : i \in DOMAIN R}
    BY ONLY <2>5
  <2> QED
    BY <2>6 DEF X
<1>3. ASSUME NEW c \in DOMAIN A PROVE A[c] = Total(Share(R, e, c), DOMAIN R)
  <2> DEFINE D == {k \in DOMAIN B : h[k] = c}
  <2>1. A[c] = SumFunctionOnSet(B, D)
    OBVIOUS
  <2>2. Part(R, g, D) = Share(R, e, c)
    <3>1. \A i \in DOMAIN R : {f \in R[i] : g[f] \in D} = {f \in R[i] : e[f] = c}
      BY <1>1
    <3> HIDE DEF D
    <3> QED
      BY <3>1 DEF Part, Share
  <2>3. D \cap DOMAIN B = D
    OBVIOUS
  <2> HIDE DEF D
  <2>4. Total(B, D \cap DOMAIN B) = Total(Part(R, g, D), DOMAIN R)
    BY SplitPart
  <2>5. SumFunctionOnSet(B, D) = Total(B, D)
    BY SumIsTotal
  <2> QED
    BY <2>1, <2>2, <2>3, <2>4, <2>5
<1> QED
    BY <1>2, <1>3 DEF IsSplit

\* Merged series share out the facts of all statements.
LEMMA SplitMerged ==
    ASSUME NEW R, Reads(R), NEW g, NEW series, DOMAIN series = DOMAIN R,
           \A i \in DOMAIN R : series[i] = Keyed(R[i], g)
    PROVE  IsSplit(Merged(series), R, g)
<1> DEFINE A == Merged(series)
           Row(k) == [i \in DOMAIN series |-> IF k \in DOMAIN series[i] THEN Tokens(series[i][k]) ELSE 0]
<1>1. /\ DOMAIN A = UNION {DOMAIN series[i] : i \in DOMAIN series}
      /\ \A k \in DOMAIN A : A[k] = SumFunction(Row(k))
    BY DEF Merged
<1> HIDE DEF A
<1>2. /\ \A i \in DOMAIN R : DOMAIN series[i] = {g[f] : f \in R[i]}
      /\ \A i \in DOMAIN R : \A k \in DOMAIN series[i] : series[i][k] = {f \in R[i] : g[f] = k}
    BY DEF Keyed
<1>3. DOMAIN A = UNION {{g[f] : f \in R[i]} : i \in DOMAIN R}
    BY <1>1, <1>2
<1>4. ASSUME NEW k \in DOMAIN A PROVE A[k] = Total(Share(R, g, k), DOMAIN R)
  <2>1. ASSUME NEW i \in DOMAIN R PROVE Row(k)[i] = Share(R, g, k)[i]
    <3> DEFINE F == {f \in R[i] : g[f] = k}
    <3>1. Share(R, g, k)[i] = Tokens(F)
      BY DEF Share
    <3>2. CASE k \in DOMAIN series[i]
      <4>1. series[i][k] = F
        BY <1>2, <3>2
      <4> HIDE DEF F
      <4> QED
        BY <3>1, <3>2, <4>1
    <3>3. CASE k \notin DOMAIN series[i]
      <4>1. F = {}
        BY <1>2, <3>3
      <4> HIDE DEF F
      <4> QED
        BY <3>1, <3>3, <4>1, NoTokens
    <3> QED
      BY <3>2, <3>3
  <2>2. Row(k) = Share(R, g, k)
    <3>1. DOMAIN Row(k) = DOMAIN R /\ Row(k) = [i \in DOMAIN R |-> Row(k)[i]]
      OBVIOUS
    <3>2. Share(R, g, k) = [i \in DOMAIN R |-> Share(R, g, k)[i]]
      BY DEF Share
    <3> HIDE DEF Row
    <3> QED
      BY <2>1, <3>1, <3>2
  <2>3. DOMAIN Row(k) = DOMAIN R
    OBVIOUS
  <2>4. SumFunction(Row(k)) = Total(Row(k), DOMAIN Row(k))
    BY SumIsTotal
  <2> HIDE DEF Row
  <2> QED
    BY <1>1, <2>2, <2>3, <2>4
<1> QED
    BY <1>3, <1>4 DEF IsSplit, A

\* Rows of a single statement share out its facts.
LEMMA SplitRows ==
    ASSUME NEW S \in SUBSET Facts, NEW g, NEW rows,
           rows = Keyed(S, g)
    PROVE  /\ Reads(<<S>>) /\ Total(Whole(<<S>>), DOMAIN <<S>>) = Tokens(S)
           /\ IsSplit([k \in DOMAIN rows |-> Tokens(rows[k])], <<S>>, g)
<1> DEFINE R == <<S>>
           A == [k \in DOMAIN rows |-> Tokens(rows[k])]
<1>0. rows = [k \in {g[f] : f \in S} |-> {f \in S : g[f] = k}]
    BY DEF Keyed
<1>1. DOMAIN R = {1} /\ R[1] = S /\ \A i \in {1} : i = 1
    OBVIOUS
<1> HIDE DEF R
<1>2. Reads(R)
    BY <1>1, FS_Singleton DEF Reads
<1>3. Whole(R)[1] = Tokens(S) /\ Tokens(S) \in Nat
    BY <1>1, TokensType DEF Whole
<1>4. Total(Whole(R), {1}) = Tokens(S)
    BY <1>3, TotalOfOne
<1>5. DOMAIN A = UNION {{g[f] : f \in R[i]} : i \in DOMAIN R}
  <2>1. DOMAIN A = {g[f] : f \in S}
    BY <1>0
  <2>2. UNION {{g[f] : f \in R[i]} : i \in DOMAIN R} = {g[f] : f \in S}
    BY <1>1
  <2> QED
    BY <2>1, <2>2
<1>6. ASSUME NEW k \in DOMAIN A PROVE A[k] = Total(Share(R, g, k), DOMAIN R)
  <2> DEFINE F == {f \in S : g[f] = k}
             w == Share(R, g, k)
  <2>1. A[k] = Tokens(F)
    BY <1>0
  <2>2. F \in SUBSET Facts
    OBVIOUS
  <2>3. w[1] = Tokens(F)
    BY <1>1 DEF Share
  <2> HIDE DEF F, w, A
  <2>4. w[1] \in Nat
    BY <2>2, <2>3, TokensType
  <2>5. Total(w, {1}) = w[1]
    BY <2>4, TotalOfOne
  <2> QED
    BY <1>1, <2>1, <2>3, <2>5 DEF w
<1> QED
    BY <1>1, <1>2, <1>4, <1>5, <1>6 DEF R, IsSplit

\* The keys of facts by dimension, and of series by time and dimension
DimKey(dim)        == [f \in Facts |-> DimensionKey(dim, f)]
SeriesKey(grain, dim) == [f \in Facts |-> <<TimeKey(grain, f), DimensionKey(dim, f)>>]

\* Every table holds facts.
LEMMA TablesHoldFacts ==
    ASSUME EvidenceInv, NEW filter
    PROVE  /\ BuildFilter(filter) \in SUBSET Facts /\ BuildHourlyFilter(filter) \in SUBSET Facts
           /\ BuildRollupFilter(filter) \in SUBSET Facts
<1>1. sampled \subseteq Facts /\ raw \subseteq Facts /\ rebuilt \subseteq Facts
    BY DEF EvidenceInv
<1>2. \A quality : RawTable(quality) \subseteq Facts /\ DailyTable(quality) \subseteq Facts
    BY <1>1 DEF RawTable, DailyTable, Chosen, Confirmed
<1> QED
    BY <1>2 DEF BuildFilter, BuildHourlyFilter, BuildRollupFilter, HourlyTable

LEMMA StatementHoldsFacts ==
    ASSUME EvidenceInv, NEW s \in Statements, NEW filter
    PROVE  ReadStatement(s, filter) \in SUBSET Facts
<1>1. s.table \in {"raw", "hour", "day"}
    BY DEF Statements
<1> QED
    BY <1>1, TablesHoldFacts DEF ReadStatement, AggregateUsage, AggregateHourlyUsage, AggregateRollupUsage

\* Rows of the daily rollups, by dimension
LEMMA RollupRows ==
    ASSUME EvidenceInv, NEW dim, NEW filter
    PROVE  LET rows == AggregateRollupBy(dim, filter)
               S    == BuildRollupFilter(filter)
           IN  /\ Reads(<<S>>) /\ Total(Whole(<<S>>), DOMAIN <<S>>) = Tokens(S)
               /\ IsSplit([k \in DOMAIN rows |-> Tokens(rows[k])], <<S>>, DimKey(dim))
<1> DEFINE rows == AggregateRollupBy(dim, filter)
           S == BuildRollupFilter(filter)
           g == DimKey(dim)
<1>1. S \in SUBSET Facts
    BY TablesHoldFacts
<1>2. \A f \in S : g[f] = DimensionKey(dim, f)
    BY <1>1 DEF DimKey
<1>3. rows = [k \in {DimensionKey(dim, f) : f \in S} |-> {f \in S : DimensionKey(dim, f) = k}]
    BY DEF AggregateRollupBy, GroupBy
<1> HIDE DEF rows, S, g
<1>4. rows = Keyed(S, g)
  <2>1. {DimensionKey(dim, f) : f \in S} = {g[f] : f \in S}
    BY <1>2
  <2>2. \A k : {f \in S : DimensionKey(dim, f) = k} = {f \in S : g[f] = k}
    BY <1>2
  <2> QED
    BY <1>3, <2>1, <2>2 DEF Keyed
<1>5. /\ Reads(<<S>>) /\ Total(Whole(<<S>>), DOMAIN <<S>>) = Tokens(S)
      /\ IsSplit([k \in DOMAIN rows |-> Tokens(rows[k])], <<S>>, g)
    BY <1>1, <1>4, SplitRows
<1> QED
    BY <1>5 DEF rows, S, g

\* A series of a set of facts is the set by its key.
LEMMA SeriesOfFacts ==
    ASSUME NEW S \in SUBSET Facts, NEW grain, NEW dim
    PROVE  SeriesBy(S, grain, dim) = Keyed(S, SeriesKey(grain, dim))
<1> DEFINE g == SeriesKey(grain, dim)
           Key(f) == <<TimeKey(grain, f), DimensionKey(dim, f)>>
<1>1. \A f \in S : g[f] = Key(f)
    BY DEF SeriesKey
<1>2. SeriesBy(S, grain, dim) = [k \in {Key(f) : f \in S} |-> {f \in S : Key(f) = k}]
    BY DEF SeriesBy, GroupBy
<1> HIDE DEF g, Key
<1>3. {Key(f) : f \in S} = {g[f] : f \in S} /\ \A k : {f \in S : Key(f) = k} = {f \in S : g[f] = k}
    BY <1>1
<1> QED
    BY <1>2, <1>3 DEF g, Keyed

\* A series of one statement, merged with no other
LEMMA TimeRows ==
    ASSUME EvidenceInv, NEW grain, NEW dim, NEW filter
    PROVE  LET S == TimeTable(grain, filter)
           IN  /\ Reads(<<S>>) /\ Total(Whole(<<S>>), DOMAIN <<S>>) = Tokens(S)
               /\ IsSplit(Merged(<<AggregateTimeSeries(grain, dim, filter)>>), <<S>>, SeriesKey(grain, dim))
<1> DEFINE S == TimeTable(grain, filter)
           R == <<S>>
           g == SeriesKey(grain, dim)
           series == <<AggregateTimeSeries(grain, dim, filter)>>
<1>1. S \in SUBSET Facts
    BY TablesHoldFacts DEF TimeTable
<1>2. AggregateTimeSeries(grain, dim, filter) = Keyed(S, g)
  <2>1. AggregateTimeSeries(grain, dim, filter) = SeriesBy(S, grain, dim)
    BY DEF AggregateTimeSeries
  <2> HIDE DEF S
  <2>2. SeriesBy(S, grain, dim) = Keyed(S, g)
    BY <1>1, SeriesOfFacts
  <2> QED
    BY <2>1, <2>2
<1>3. Reads(R) /\ Total(Whole(R), DOMAIN R) = Tokens(S)
  <2> HIDE DEF S, g
  <2> QED
    BY <1>1, SplitRows
<1>4. /\ DOMAIN series = DOMAIN R
      /\ \A i \in DOMAIN R : series[i] = Keyed(R[i], g)
  <2>1. series[1] = AggregateTimeSeries(grain, dim, filter) /\ R[1] = S /\ DOMAIN series = {1} /\ DOMAIN R = {1}
    OBVIOUS
  <2> HIDE DEF series, R, S, g
  <2> QED
    BY <1>2, <2>1
<1> HIDE DEF series, R, g
<1>5. IsSplit(Merged(series), R, g)
    BY <1>3, <1>4, SplitMerged
<1> QED
    BY <1>3, <1>5 DEF series, R, S, g

\* What the statements of a period read
ReadAll(filter, p) == [i \in DOMAIN StatementsOf(p) |-> ReadStatement(StatementsOf(p)[i], filter)]

LEMMA PeriodReads ==
    ASSUME EvidenceInv, NEW filter, NEW p, StatementsOf(p) \in Seq(Statements)
    PROVE  /\ Reads(ReadAll(filter, p))
           /\ AggregateSelectedPeriod(filter, p) = Total(Whole(ReadAll(filter, p)), DOMAIN ReadAll(filter, p))
<1> DEFINE R == ReadAll(filter, p)
           todo == StatementsOf(p)
           n == Len(todo)
<1>1. n \in Nat /\ DOMAIN todo = 1 .. n /\ \A i \in 1 .. n : todo[i] \in Statements
    OBVIOUS
<1>2. DOMAIN R = DOMAIN todo /\ \A i \in DOMAIN R : R[i] = ReadStatement(todo[i], filter)
    BY DEF ReadAll
<1> HIDE DEF todo, n, R
<1>3. Reads(R)
  <2>1. IsFiniteSet(1 .. n)
    BY <1>1, 1 \in Int, FS_Interval
  <2>2. \A i \in DOMAIN R : R[i] \in SUBSET Facts
    BY <1>1, <1>2, StatementHoldsFacts
  <2> QED
    BY <1>1, <1>2, <2>1, <2>2 DEF Reads
<1>4. AggregateSelectedPeriod(filter, p) = SumFunction(Whole(R)) /\ DOMAIN Whole(R) = DOMAIN R
  <2>1. Whole(R) = [i \in DOMAIN todo |-> Tokens(ReadStatement(todo[i], filter))]
    BY <1>2 DEF Whole
  <2> QED
    BY <2>1, <1>2 DEF AggregateSelectedPeriod, todo
<1> QED
    BY <1>3, <1>4, SumIsTotal DEF R

\* The rolling window is read from raw rows and from hours.
LEMMA RollingStatements ==
    ASSUME NEW t \in 0 .. MaxTime, NEW p, p = ResolvePeriod("rolling7", t)
    PROVE  /\ p.label = "rolling7" /\ StatementsOf(p) \in Seq(Statements)
           /\ Spans(StatementsOf(p), p.start, t, t)
           /\ \A i \in DOMAIN StatementsOf(p) : StatementsOf(p)[i].table \in {"raw", "hour"}
<1> USE EffectiveSourceAssumption
<1> DEFINE start == p.start
           todo == StatementsOf(p)
<1>1. /\ p.label = "rolling7" /\ p.end = t /\ start \in 0 .. t /\ start = Before(t, RollingLength)
      /\ p.grain # "hour"
    BY PeriodShape DEF PeriodLabels
<1>2. todo = ExactHourWindow(start, t)
  <2>1. StatementsOf(p) = ExactHourWindow(p.start, p.end)
    BY <1>1 DEF StatementsOf
  <2> QED
    BY <1>1, <2>1
<1>3. Before(t, RollingLength) <= start
    BY <1>1
<1> HIDE DEF start
<1>4. Spans(ExactHourWindow(start, t), start, t, t)
    BY <1>1, <1>3, WindowSpans
<1>5. \A i \in DOMAIN todo : todo[i].table \in {"raw", "hour"}
  <2> DEFINE first == Min({CeilHour(start), t})
             last  == Max({FloorHour(t), first})
             X == {Statement("raw", start, first), Statement("hour", first, last), Statement("raw", last, t)}
             a == Reading("raw", start, first)
             b == Reading("hour", first, last)
             c == Reading("raw", last, t)
  <2>1. todo = a \o b \o c
    BY <1>2 DEF ExactHourWindow
  <2>2. a \in Seq(X) /\ b \in Seq(X) /\ c \in Seq(X)
    <3> DEFINE x == Statement("raw", start, first)
               y == Statement("hour", first, last)
               z == Statement("raw", last, t)
    <3>1. X = {x, y, z}
      OBVIOUS
    <3>2. a \in {<<x>>, <<>>} /\ b \in {<<y>>, <<>>} /\ c \in {<<z>>, <<>>}
      BY DEF Reading
    <3>3. x \in X /\ y \in X /\ z \in X
      BY <3>1
    <3> HIDE DEF x, y, z, a, b, c, X
    <3>4. <<x>> \in Seq(X) /\ <<y>> \in Seq(X) /\ <<z>> \in Seq(X) /\ <<>> \in Seq(X)
      BY <3>3
    <3> QED
      BY <3>2, <3>4
  <2>3. \A s \in X : s.table \in {"raw", "hour"}
    <3> HIDE DEF first, last
    <3> QED
      BY DEF Statement
  <2> HIDE DEF X, a, b, c, todo
  <2>4. todo \in Seq(X)
    BY <2>1, <2>2
  <2>5. \A i \in DOMAIN todo : todo[i] \in X
    BY <2>4
  <2> QED
    BY <2>3, <2>5
<1> QED
    BY <1>1, <1>2, <1>4, <1>5 DEF Spans, start

\* The merged series of the rolling window shares out what its statements read.
LEMMA RollingSeries ==
    ASSUME EvidenceInv, NEW dim, NEW filter, NEW p, StatementsOf(p) \in Seq(Statements),
           \A i \in DOMAIN StatementsOf(p) : StatementsOf(p)[i].table \in {"raw", "hour"}
    PROVE  IsSplit(AggregateSelectedPeriodSeries(dim, filter, p), ReadAll(filter, p), SeriesKey("hour", dim))
<1> DEFINE todo == StatementsOf(p)
           R == ReadAll(filter, p)
           g == SeriesKey("hour", dim)
           series == [i \in DOMAIN todo |-> ReadSeries(todo[i], dim, filter)]
<1>1. Reads(R)
    BY PeriodReads
<1>2. DOMAIN R = DOMAIN todo /\ \A i \in DOMAIN todo : R[i] = ReadStatement(todo[i], filter)
    BY DEF ReadAll
<1>3. \A i \in DOMAIN todo : todo[i].table \in {"raw", "hour"}
    OBVIOUS
<1>4. AggregateSelectedPeriodSeries(dim, filter, p) = Merged(series)
    BY DEF AggregateSelectedPeriodSeries
<1>5. DOMAIN series = DOMAIN todo /\ \A i \in DOMAIN todo : series[i] = ReadSeries(todo[i], dim, filter)
    OBVIOUS
<1> HIDE DEF todo, R, g, series
<1>6. ASSUME NEW i \in DOMAIN R
      PROVE  series[i] = Keyed(R[i], g)
  <2> DEFINE s == todo[i]
             S == R[i]
             narrow == Narrowed(filter, s)
  <2>1. S \in SUBSET Facts /\ S = ReadStatement(s, filter) /\ series[i] = ReadSeries(s, dim, filter)
    BY <1>1, <1>2, <1>5 DEF Reads
  <2>2. s.table \in {"raw", "hour"}
    BY <1>2, <1>3
  <2>3. CASE s.table = "raw"
    <3>1. S = BuildFilter(narrow) /\ series[i] = SeriesBy(BuildFilter(narrow), "hour", dim)
      BY <2>1, <2>3 DEF ReadStatement, ReadSeries, AggregateUsage, AggregateExactTimeSeries
    <3> QED
      BY <2>1, <3>1, SeriesOfFacts DEF g
  <2>4. CASE s.table = "hour"
    <3>1. S = BuildHourlyFilter(narrow) /\ series[i] = SeriesBy(BuildHourlyFilter(narrow), "hour", dim)
      BY <2>1, <2>4 DEF ReadStatement, ReadSeries, AggregateHourlyUsage, AggregateTimeSeries, TimeTable
    <3> QED
      BY <2>1, <3>1, SeriesOfFacts DEF g
  <2> QED
    BY <2>2, <2>3, <2>4
<1>7. IsSplit(Merged(series), R, g)
    BY <1>1, <1>2, <1>5, <1>6, SplitMerged
<1> QED
    BY <1>4, <1>7 DEF R, g

\* The filter of a period
LEMMA PeriodFilterIs ==
    ASSUME EvidenceInv, NEW label \in PeriodLabels, NEW q, NEW quality
    PROVE  LET p == Period(label)
           IN  /\ PeriodFilter(q, quality, p) = [acct |-> q.acct, proj |-> q.proj, quality |-> quality,
                                                 from |-> TimeOr(p.start, 0), to |-> now]
               /\ p.label = label /\ p.end = now /\ TimeOr(p.start, 0) \in 0 .. now /\ now \in 0 .. MaxTime
               /\ p.grain = "hour" <=> label = "today"
               /\ label = "today" => Day(TimeOr(p.start, 0)) * DayLength = TimeOr(p.start, 0)
<1> DEFINE p == Period(label)
<1>1. now \in 0 .. MaxTime /\ now # NoTime
    BY EffectiveSourceAssumption, QueriesAssumption, DashboardAssumption DEF EvidenceInv
<1>2. p = ResolvePeriod(label, now)
    BY DEF Period
<1>3. /\ p.label = label /\ p.end = now /\ TimeOr(p.start, 0) \in 0 .. now
      /\ p.grain = "hour" <=> label = "today"
      /\ label = "today" => (TimeOr(p.start, 0) \div DayLength) * DayLength = TimeOr(p.start, 0)
    BY <1>1, <1>2, PeriodShape
<1> HIDE DEF p
<1>4. PeriodFilter(q, quality, p) = [acct |-> q.acct, proj |-> q.proj, quality |-> quality,
                                     from |-> TimeOr(p.start, 0), to |-> TimeOr(p.end, MaxTime + 1)]
    BY DEF PeriodFilter, FilterOf
<1>5. TimeOr(p.end, MaxTime + 1) = now
    BY <1>1, <1>3 DEF TimeOr
<1> QED
    BY <1>1, <1>3, <1>4, <1>5 DEF p, Day

\* For a window that begins a day and ends with the present, hours hold what days do.
LEMMA HoursAsDays ==
    ASSUME EvidenceInv, NEW filter, filter.from \in 0 .. now, filter.to = now,
           Day(filter.from) * DayLength = filter.from
    PROVE  BuildHourlyFilter(filter) = BuildRollupFilter(filter)
<1> USE EffectiveSourceAssumption
<1> DEFINE T == DailyTable(filter.quality)
           from == filter.from
<1>1. now \in Nat /\ from \in Nat /\ filter.to = now
    BY DashboardAssumption DEF EvidenceInv
<1>2. \A f \in T : f.time \in Nat /\ f.time < now
  <2>1. \A f \in sampled \cup rebuilt : f.time \in Nat /\ f.time < now
    BY DEF EvidenceInv, Fact
  <2> QED
    BY <2>1 DEF DailyTable, Chosen, Confirmed
<1>3. (from \div DayLength) * DayLength = from
    BY DEF Day
<1> HIDE DEF from
<1>4. (from \div HourLength) * HourLength = from
  <2> DEFINE k == from \div DayLength
             m == DayLength \div HourLength
  <2>1. from = k * DayLength
    BY <1>3
  <2>2. k \in Nat /\ m \in Nat
    BY <1>1, RoundsDown
  <2>3. DayLength = m * HourLength
    OBVIOUS
  <2> HIDE DEF k, m
  <2>4. k * (m * HourLength) = (k * m) * HourLength /\ k * m \in Nat
    BY <2>2
  <2>5. ((k * m) * HourLength) \div HourLength = k * m
    BY <2>4, RoundedMultiple
  <2> QED
    BY <2>1, <2>3, <2>4, <2>5
<1>5. ASSUME NEW f \in T PROVE WithinHours(f.time, filter) <=> WithinDays(f.time, filter)
  <2> DEFINE t == f.time
  <2>1. t \in Nat /\ t < now
    BY <1>2
  <2> HIDE DEF t
  <2>2. now > 0 /\ t \div HourLength \in (from \div HourLength) .. ((now - 1) \div HourLength)
           <=> (from \div HourLength) * HourLength <= t /\ t < now
    BY <1>1, <2>1, WholeUnits
  <2>3. now > 0 /\ t \div DayLength \in (from \div DayLength) .. ((now - 1) \div DayLength)
           <=> (from \div DayLength) * DayLength <= t /\ t < now
    BY <1>1, <2>1, WholeUnits
  <2> QED
    BY <1>1, <1>3, <1>4, <2>2, <2>3 DEF WithinHours, WithinDays, Hour, Day, t, from
<1> QED
    BY <1>5 DEF BuildHourlyFilter, BuildRollupFilter, HourlyTable

\* A period other than the rolling window is read by one statement, which counts what
\* the daily rollups hold.
LEMMA OneStatement ==
    ASSUME EvidenceInv, NEW label \in PeriodLabels, label # "rolling7", NEW q, NEW quality
    PROVE  LET p == Period(label)
               filter == PeriodFilter(q, quality, p)
           IN  /\ StatementsOf(p) \in Seq(Statements)
               /\ AggregateSelectedPeriod(filter, p) = Tokens(BuildRollupFilter(filter))
               /\ label = "today" => BuildHourlyFilter(filter) = BuildRollupFilter(filter)
<1> USE EffectiveSourceAssumption
<1> DEFINE p == Period(label)
           filter == PeriodFilter(q, quality, p)
           start == TimeOr(p.start, 0)
           table == IF label = "today" THEN "hour" ELSE "day"
           s == Statement(table, start, now)
<1>1. /\ filter = [acct |-> q.acct, proj |-> q.proj, quality |-> quality, from |-> start, to |-> now]
      /\ p.label = label /\ p.end = now /\ start \in 0 .. now /\ now \in 0 .. MaxTime
      /\ p.grain = "hour" <=> label = "today"
      /\ label = "today" => Day(start) * DayLength = start
    BY PeriodFilterIs
<1>2. StatementsOf(p) = <<s>>
    BY <1>1 DEF StatementsOf
<1> HIDE DEF p, filter, start
<1>3. s.table = table /\ s.from = start /\ s.to = now /\ s \in Statements
    BY <1>1 DEF Statement, Statements
<1>4. filter.from = start /\ filter.to = now
    BY <1>1
<1> DEFINE narrow == Narrowed(filter, s)
<1>5. BuildRollupFilter(narrow) = BuildRollupFilter(filter) /\ BuildHourlyFilter(narrow) = BuildHourlyFilter(filter)
  <2>1. /\ narrow.acct = filter.acct /\ narrow.proj = filter.proj /\ narrow.quality = filter.quality
        /\ narrow.from = filter.from /\ narrow.to = filter.to
    BY <1>1, <1>3 DEF Narrowed
  <2> HIDE DEF narrow
  <2> QED
    BY <2>1 DEF BuildRollupFilter, BuildHourlyFilter, Matches, WithinDays, WithinHours
<1>6. label = "today" => BuildHourlyFilter(filter) = BuildRollupFilter(filter)
    BY <1>1, <1>4, HoursAsDays
<1>7. ReadStatement(s, filter) = BuildRollupFilter(filter)
  <2> HIDE DEF s
  <2> QED
    BY <1>3, <1>5, <1>6 DEF ReadStatement, AggregateHourlyUsage, AggregateRollupUsage
<1> DEFINE todo == StatementsOf(p)
           R == ReadAll(filter, p)
<1>8. todo \in Seq(Statements) /\ DOMAIN todo = {1} /\ todo[1] = s
    BY <1>2, <1>3
<1>9. DOMAIN R = {1} /\ R[1] = BuildRollupFilter(filter)
    BY <1>7, <1>8 DEF ReadAll
<1>10. Reads(R) /\ AggregateSelectedPeriod(filter, p) = Total(Whole(R), DOMAIN R)
    BY <1>8, PeriodReads
<1> HIDE DEF R
<1>11. Whole(R)[1] = Tokens(R[1]) /\ Tokens(R[1]) \in Nat
    BY <1>9, <1>10, TokensType DEF Whole, Reads
<1>12. Total(Whole(R), {1}) = Tokens(R[1])
    BY <1>11, TotalOfOne
<1> QED
    BY <1>6, <1>8, <1>9, <1>10, <1>12 DEF p, filter, todo

\* The sets of facts that the parts of a bundle share out
PeriodSets(filter, p) ==
    IF p.label = "rolling7" THEN ReadAll(filter, p) ELSE <<BuildRollupFilter(filter)>>

LEMMA PeriodShares ==
    ASSUME EvidenceInv, NEW label \in PeriodLabels, NEW q, NEW quality
    PROVE  LET p == Period(label)
               filter == PeriodFilter(q, quality, p)
               R == PeriodSets(filter, p)
           IN  /\ p.label = label /\ Reads(R)
               /\ AggregateSelectedPeriod(filter, p) = Total(Whole(R), DOMAIN R)
               /\ label = "rolling7" =>
                     /\ \A dim : IsSplit(AggregateSelectedPeriodSeries(dim, filter, p), R, SeriesKey("hour", dim))
                     /\ R = ReadAll(filter, p)
               /\ label # "rolling7" => R = <<BuildRollupFilter(filter)>>
<1> DEFINE p == Period(label)
           filter == PeriodFilter(q, quality, p)
           R == PeriodSets(filter, p)
<1>1. p.label = label /\ now \in 0 .. MaxTime
    BY PeriodFilterIs
<1>2. CASE label = "rolling7"
  <2>1. p = ResolvePeriod("rolling7", now)
    BY <1>2 DEF Period
  <2>2. /\ StatementsOf(p) \in Seq(Statements)
        /\ \A i \in DOMAIN StatementsOf(p) : StatementsOf(p)[i].table \in {"raw", "hour"}
    BY <1>1, <2>1, RollingStatements
  <2>3. R = ReadAll(filter, p)
    BY <1>1, <1>2 DEF PeriodSets
  <2> HIDE DEF p, filter, R
  <2>4. /\ Reads(ReadAll(filter, p))
        /\ AggregateSelectedPeriod(filter, p) = Total(Whole(ReadAll(filter, p)), DOMAIN ReadAll(filter, p))
    BY <2>2, PeriodReads
  <2>5. \A dim : IsSplit(AggregateSelectedPeriodSeries(dim, filter, p), ReadAll(filter, p), SeriesKey("hour", dim))
    BY <2>2, RollingSeries
  <2> QED
    BY <1>1, <1>2, <2>3, <2>4, <2>5 DEF p, filter, R
<1>3. CASE label # "rolling7"
  <2> DEFINE S == BuildRollupFilter(filter)
  <2>1. S \in SUBSET Facts
    BY TablesHoldFacts
  <2>2. AggregateSelectedPeriod(filter, p) = Tokens(S)
    BY <1>3, OneStatement
  <2>3. R = <<S>>
    BY <1>1, <1>3 DEF PeriodSets
  <2> HIDE DEF S, p, filter, R
  <2>4. Reads(<<S>>) /\ Total(Whole(<<S>>), DOMAIN <<S>>) = Tokens(S)
    BY <2>1, SplitRows
  <2> QED
    BY <1>1, <1>3, <2>2, <2>3, <2>4 DEF p, filter, R, S
<1> QED
    BY <1>2, <1>3

\* Buckets under any new keys add up to what the statements read.
LEMMA RekeyedWhole ==
    ASSUME NEW R, Reads(R), NEW g, NEW B, IsSplit(B, R, g), NEW h, NEW A,
           A = [c \in {h[k] : k \in DOMAIN B} |-> SumFunctionOnSet(B, {k \in DOMAIN B : h[k] = c})]
    PROVE  SumFunction(A) = Total(Whole(R), DOMAIN R)
<1> DEFINE e == [f \in Facts |-> h[g[f]]]
<1>1. \A f \in Facts : e[f] = h[g[f]]
    OBVIOUS
<1> HIDE DEF e
<1>2. IsSplit(A, R, e)
    BY <1>1, SplitRekeyed
<1> QED
    BY <1>2, SplitWhole

\* A series without its times is shared out by the dimension alone.
LEMMA SplitSecond ==
    ASSUME NEW R, Reads(R), NEW grain, NEW dim, NEW B, IsSplit(B, R, SeriesKey(grain, dim)), NEW A,
           A = [c \in {k[2] : k \in DOMAIN B} |-> SumFunctionOnSet(B, {k \in DOMAIN B : k[2] = c})]
    PROVE  IsSplit(A, R, DimKey(dim))
<1> DEFINE h == [k \in DOMAIN B |-> k[2]]
           g == SeriesKey(grain, dim)
           e == DimKey(dim)
<1>1. \A k \in DOMAIN B : h[k] = k[2]
    OBVIOUS
<1>2. \A f \in Facts : g[f] \in DOMAIN B => e[f] = h[g[f]]
    BY DEF SeriesKey, DimKey
<1> HIDE DEF h, g, e
<1>3. {k[2] : k \in DOMAIN B} = {h[k] : k \in DOMAIN B}
    BY <1>1
<1>4. \A c : {k \in DOMAIN B : k[2] = c} = {k \in DOMAIN B : h[k] = c}
    BY <1>1
<1>5. A = [c \in {h[k] : k \in DOMAIN B} |-> SumFunctionOnSet(B, {k \in DOMAIN B : h[k] = c})]
    BY <1>3, <1>4
<1>6. IsSplit(A, R, e)
  <2>1. IsSplit(B, R, g)
    BY DEF g
  <2> QED
    BY ONLY Reads(R), <1>2, <1>5, <2>1, SplitRekeyed
<1> QED
    BY <1>6 DEF e

\* A breakdown shares out what the total counts.
LEMMA BreakdownShares ==
    ASSUME EvidenceInv, NEW label \in PeriodLabels, NEW q, NEW quality, NEW dim
    PROVE  LET p == Period(label)
               filter == PeriodFilter(q, quality, p)
           IN  IsSplit(AggregateSelectedPeriodBy(dim, filter, p), PeriodSets(filter, p), DimKey(dim))
<1> DEFINE p == Period(label)
           filter == PeriodFilter(q, quality, p)
           R == PeriodSets(filter, p)
           A == AggregateSelectedPeriodBy(dim, filter, p)
<1>1. /\ p.label = label /\ Reads(R)
      /\ label = "rolling7" => IsSplit(AggregateSelectedPeriodSeries(dim, filter, p), R, SeriesKey("hour", dim))
      /\ label # "rolling7" => R = <<BuildRollupFilter(filter)>>
    BY PeriodShares
<1> HIDE DEF p, filter, R
<1>2. CASE label = "rolling7"
  <2> DEFINE B == AggregateSelectedPeriodSeries(dim, filter, p)
  <2>1. A = [c \in {k[2] : k \in DOMAIN B} |-> SumFunctionOnSet(B, {k \in DOMAIN B : k[2] = c})]
    BY <1>1, <1>2 DEF AggregateSelectedPeriodBy, Rekeyed
  <2>2. IsSplit(B, R, SeriesKey("hour", dim))
    BY <1>1, <1>2
  <2> HIDE DEF A, B
  <2>3. IsSplit(A, R, DimKey(dim))
    BY <1>1, <2>1, <2>2, SplitSecond
  <2> QED
    BY <2>3 DEF A, p, filter, R
<1>3. CASE label # "rolling7"
  <2> DEFINE rows == AggregateRollupBy(dim, filter)
  <2>1. A = [k \in DOMAIN rows |-> Tokens(rows[k])]
    BY <1>1, <1>3 DEF AggregateSelectedPeriodBy
  <2>2. IsSplit([k \in DOMAIN rows |-> Tokens(rows[k])], <<BuildRollupFilter(filter)>>, DimKey(dim))
    BY RollupRows
  <2> HIDE DEF A, rows
  <2> QED
    BY <1>1, <1>3, <2>1, <2>2 DEF A, p, filter, R
<1> QED
    BY <1>2, <1>3

\* The points of the chart add up to what the statements of the period read.
LEMMA PointsWhole ==
    ASSUME EvidenceInv, NEW label \in PeriodLabels, NEW grain \in Grains(label), NEW q, NEW quality
    PROVE  LET p == Period(label)
               R == PeriodSets(PeriodFilter(q, quality, p), p)
           IN  SumFunction(TimeseriesPoints(q, quality, p, grain)) = Total(Whole(R), DOMAIN R)
<1> DEFINE p == Period(label)
           filter == PeriodFilter(q, quality, p)
           R == PeriodSets(filter, p)
           A == TimeseriesPoints(q, quality, p, grain)
           S == BuildRollupFilter(filter)
<1>1. /\ p.label = label /\ Reads(R)
      /\ label = "rolling7" => IsSplit(AggregateSelectedPeriodSeries("quality", filter, p), R, SeriesKey("hour", "quality"))
      /\ label # "rolling7" => R = <<S>>
    BY PeriodShares
<1>2. label = "today" => BuildHourlyFilter(filter) = S
    BY OneStatement
<1>3. label # "rolling7" /\ grain = "hour" => label = "today"
    BY DEF Grains
<1>4. CASE label = "rolling7"
  <2> DEFINE B == AggregateSelectedPeriodSeries("quality", filter, p)
             h == [k \in DOMAIN B |-> IF grain = "hour" THEN k[1]
                              ELSE AggregateDateKey((k[1] * HourLength) \div DayLength, grain)]
  <2>1. A = Rekeyed(B, LAMBDA k : IF grain = "hour" THEN k[1]
                              ELSE AggregateDateKey((k[1] * HourLength) \div DayLength, grain))
    BY <1>1, <1>4 DEF TimeseriesPoints
  <2>2. A = [c \in {h[k] : k \in DOMAIN B} |-> SumFunctionOnSet(B, {k \in DOMAIN B : h[k] = c})]
    <3> DEFINE Key(k) == IF grain = "hour" THEN k[1]
                         ELSE AggregateDateKey((k[1] * HourLength) \div DayLength, grain)
    <3>1. \A k \in DOMAIN B : h[k] = Key(k)
      OBVIOUS
    <3>2. A = Rekeyed(B, Key)
      BY <2>1
    <3> HIDE DEF A, B, h, Key
    <3>3. A = [c \in {Key(k) : k \in DOMAIN B} |-> SumFunctionOnSet(B, {k \in DOMAIN B : Key(k) = c})]
      BY ONLY <3>2 DEF Rekeyed
    <3>4. /\ {Key(k) : k \in DOMAIN B} = {h[k] : k \in DOMAIN B}
          /\ \A c : {k \in DOMAIN B : Key(k) = c} = {k \in DOMAIN B : h[k] = c}
      BY ONLY <3>1
    <3> QED
      BY ONLY <3>3, <3>4
  <2>3. IsSplit(B, R, SeriesKey("hour", "quality")) /\ Reads(R)
    BY <1>1, <1>4
  <2> HIDE DEF A, B, h, R
  <2> QED
    BY <2>2, <2>3, RekeyedWhole DEF A, R
<1>5. CASE label # "rolling7" /\ grain = "hour"
  <2> DEFINE B == Merged(<<AggregateTimeSeries("hour", "quality", filter)>>)
             h == [k \in DOMAIN B |-> k[1]]
  <2>1. A = Rekeyed(B, LAMBDA k : k[1])
    BY <1>1, <1>5 DEF TimeseriesPoints
  <2>2. A = [c \in {h[k] : k \in DOMAIN B} |-> SumFunctionOnSet(B, {k \in DOMAIN B : h[k] = c})]
    <3>1. \A k \in DOMAIN B : h[k] = k[1]
      OBVIOUS
    <3> HIDE DEF A, B, h
    <3>2. A = [c \in {k[1] : k \in DOMAIN B} |->
                  SumFunctionOnSet(B, {k \in DOMAIN B : k[1] = c})]
      BY ONLY <2>1 DEF Rekeyed
    <3>3. /\ {k[1] : k \in DOMAIN B} = {h[k] : k \in DOMAIN B}
          /\ \A c : {k \in DOMAIN B : k[1] = c} = {k \in DOMAIN B : h[k] = c}
      BY ONLY <3>1
    <3> QED
      BY ONLY <3>2, <3>3
  <2>3. TimeTable("hour", filter) = S
    BY <1>2, <1>3, <1>5 DEF TimeTable
  <2>4. LET T == TimeTable("hour", filter) IN IsSplit(B, <<T>>, SeriesKey("hour", "quality"))
    BY TimeRows
  <2>5. IsSplit(B, R, SeriesKey("hour", "quality")) /\ Reads(R)
    BY <1>1, <1>5, <2>3, <2>4
  <2> HIDE DEF A, B, h, R
  <2> QED
    BY <2>2, <2>5, RekeyedWhole DEF A, R
<1>6. CASE label # "rolling7" /\ grain # "hour"
  <2> DEFINE rows == AggregateRollupBy("day", filter)
             B == [d \in DOMAIN rows |-> Tokens(rows[d])]
             h == [k \in DOMAIN B |-> AggregateDateKey(k, grain)]
  <2>1. A = Rekeyed(B, LAMBDA d : AggregateDateKey(d, grain))
    BY <1>1, <1>6 DEF TimeseriesPoints
  <2>2. A = [c \in {h[k] : k \in DOMAIN B} |-> SumFunctionOnSet(B, {k \in DOMAIN B : h[k] = c})]
    <3>1. \A k \in DOMAIN B : h[k] = AggregateDateKey(k, grain)
      OBVIOUS
    <3> HIDE DEF A, B, h
    <3>2. A = [c \in {AggregateDateKey(k, grain) : k \in DOMAIN B} |->
                  SumFunctionOnSet(B, {k \in DOMAIN B : AggregateDateKey(k, grain) = c})]
      BY ONLY <2>1 DEF Rekeyed
    <3>3. /\ {AggregateDateKey(k, grain) : k \in DOMAIN B} = {h[k] : k \in DOMAIN B}
          /\ \A c : {k \in DOMAIN B : AggregateDateKey(k, grain) = c} = {k \in DOMAIN B : h[k] = c}
      BY ONLY <3>1
    <3> QED
      BY ONLY <3>2, <3>3
  <2>3. IsSplit(B, <<S>>, DimKey("day"))
    BY RollupRows
  <2>4. IsSplit(B, R, DimKey("day")) /\ Reads(R)
    BY <1>1, <1>6, <2>3
  <2> HIDE DEF A, B, h, R
  <2> QED
    BY <2>2, <2>4, RekeyedWhole DEF A, R
<1> QED
    BY <1>4, <1>5, <1>6

\* The series of the projects adds up to the same.
LEMMA ProjectSeriesWhole ==
    ASSUME EvidenceInv, NEW label \in PeriodLabels, NEW q
    PROVE  LET p == Period(label)
               R == PeriodSets(PeriodFilter(q, "confirmed", p), p)
           IN  SumFunction(LocalProjectSeries(q, p)) = Total(Whole(R), DOMAIN R)
<1> DEFINE p == Period(label)
           filter == PeriodFilter(q, "confirmed", p)
           R == PeriodSets(filter, p)
           A == LocalProjectSeries(q, p)
           S == BuildRollupFilter(filter)
           g == SeriesKey(IF label = "rolling7" THEN "hour" ELSE "day", "project")
           B == IF label = "rolling7" THEN AggregateSelectedPeriodSeries("project", filter, p)
                ELSE Merged(<<AggregateTimeSeries("day", "project", filter)>>)
           h == [k \in DOMAIN B |-> k[2]]
<1>1. /\ p.label = label /\ Reads(R)
      /\ label = "rolling7" => IsSplit(AggregateSelectedPeriodSeries("project", filter, p), R, SeriesKey("hour", "project"))
      /\ label # "rolling7" => R = <<S>>
    BY PeriodShares
<1>2. IsSplit(B, R, g)
  <2>1. TimeTable("day", filter) = S
    BY DEF TimeTable
  <2>2. LET T == TimeTable("day", filter)
        IN  IsSplit(Merged(<<AggregateTimeSeries("day", "project", filter)>>), <<T>>, SeriesKey("day", "project"))
    BY TimeRows
  <2> HIDE DEF S, R, p, filter
  <2> QED
    BY <1>1, <2>1, <2>2
<1>3. A = [c \in {k[2] : k \in DOMAIN B} |-> SumFunctionOnSet(B, {k \in DOMAIN B : k[2] = c})]
    BY <1>1 DEF LocalProjectSeries, Rekeyed
<1> HIDE DEF B
<1>4. A = [c \in {h[k] : k \in DOMAIN B} |-> SumFunctionOnSet(B, {k \in DOMAIN B : h[k] = c})]
    BY <1>3
<1> HIDE DEF A, h, g, R
<1>5. SumFunction(A) = Total(Whole(R), DOMAIN R)
    BY <1>1, <1>2, <1>4, RekeyedWhole
<1> QED
    BY <1>5 DEF A, R

\* The comparison of the chart adds up to the previous usage.
LEMMA ComparisonWhole ==
    ASSUME EvidenceInv, NEW p, NEW q
    PROVE  SumFunction(ComparisonPoints(q, p, "week")) = PreviousUsage(q, p)
<1> DEFINE filter == FilterOf(q, "confirmed", p.cstart, p.cend)
           rows == AggregateRollupBy("day", filter)
           S == BuildRollupFilter(filter)
           B == [d \in DOMAIN rows |-> Tokens(rows[d])]
           A == ComparisonPoints(q, p, "week")
           h == [d \in DOMAIN B |-> AggregateDateKey(d, "week")]
<1>1. CASE p.cstart = NoTime
  <2>1. A = [d \in {} |-> 0] /\ PreviousUsage(q, p) = 0
    BY <1>1 DEF ComparisonPoints, PreviousUsage
  <2>2. DOMAIN A = {}
    BY <2>1
  <2> HIDE DEF A
  <2>3. SumFunction(A) = Total(A, {})
    BY <2>2, SumIsTotal
  <2>4. Total(A, {}) = 0
    BY FS_EmptySet, TotalAdds
  <2> QED
    BY <2>1, <2>3, <2>4 DEF A
<1>2. CASE p.cstart # NoTime
  <2>1. A = Rekeyed(B, LAMBDA d : AggregateDateKey(d, "week")) /\ PreviousUsage(q, p) = Tokens(S)
    BY <1>2 DEF ComparisonPoints, PreviousUsage, AggregateRollupUsage
  <2>2. A = [c \in {h[k] : k \in DOMAIN B} |-> SumFunctionOnSet(B, {k \in DOMAIN B : h[k] = c})]
    <3>1. \A k \in DOMAIN B : h[k] = AggregateDateKey(k, "week")
      OBVIOUS
    <3>2. A = [c \in {AggregateDateKey(k, "week") : k \in DOMAIN B} |->
                  SumFunctionOnSet(B, {k \in DOMAIN B : AggregateDateKey(k, "week") = c})]
      BY <2>1 DEF Rekeyed
    <3> HIDE DEF A, B, h
    <3>3. /\ {AggregateDateKey(k, "week") : k \in DOMAIN B} = {h[k] : k \in DOMAIN B}
          /\ \A c : {k \in DOMAIN B : AggregateDateKey(k, "week") = c} = {k \in DOMAIN B : h[k] = c}
      BY <3>1
    <3> QED
      BY <3>2, <3>3
  <2>3. /\ Reads(<<S>>) /\ Total(Whole(<<S>>), DOMAIN <<S>>) = Tokens(S)
        /\ IsSplit(B, <<S>>, DimKey("day"))
    BY RollupRows
  <2> HIDE DEF A, B, h, S
  <2>4. SumFunction(A) = Total(Whole(<<S>>), DOMAIN <<S>>)
    BY <2>2, <2>3, RekeyedWhole
  <2> QED
    BY <2>1, <2>3, <2>4 DEF A
<1> QED
    BY <1>1, <1>2

\* What is shared out under one key, also if the key is missing
LEMMA SplitValue ==
    ASSUME NEW R, Reads(R), NEW g, NEW A, IsSplit(A, R, g), NEW k
    PROVE  (IF k \in DOMAIN A THEN A[k] ELSE 0) = Total(Share(R, g, k), DOMAIN R)
<1>1. CASE k \in DOMAIN A
    BY <1>1 DEF IsSplit
<1>2. CASE k \notin DOMAIN A
  <2> DEFINE w == Share(R, g, k)
             I == DOMAIN R
  <2>1. ASSUME NEW i \in I PROVE w[i] = 0
    <3> DEFINE F == {f \in R[i] : g[f] = k}
    <3>1. F = {}
      BY <1>2 DEF IsSplit
    <3>2. w[i] = Tokens(F)
      BY DEF Share
    <3> HIDE DEF F, w
    <3> QED
      BY <3>1, <3>2, NoTokens
  <2>2. IsFiniteSet(I)
    BY DEF Reads
  <2> HIDE DEF w, I
  <2>3. Total(w, I) = 0
    BY <2>1, <2>2, TotalZero
  <2> QED
    BY <1>2, <2>3 DEF w, I
<1> QED
    BY <1>1, <1>2

\* The keys of usage by project
ProjectKeys == Projects \cup {StandaloneProject, UnassignedProject}

\* The reserved project ids differ.
LEMMA ReservedDiffer ==
    /\ NoProject # StandaloneProject /\ NoProject # UnassignedProject /\ NoProject # Unfiltered
    /\ StandaloneProject # UnassignedProject /\ StandaloneProject # Unfiltered
    /\ UnassignedProject # Unfiltered
<1>1. Cardinality({NoProject, StandaloneProject, UnassignedProject, Unfiltered}) = 4
    BY EffectiveSourceAssumption
<1>2. ASSUME NEW a, NEW b, NEW c PROVE Cardinality({a, b, c}) # 4
  <2>1. IsFiniteSet({a}) /\ Cardinality({a}) = 1
    BY FS_Singleton
  <2>2. IsFiniteSet({a} \cup {b}) /\ Cardinality({a} \cup {b}) \in {1, 2}
    BY <2>1, FS_AddElement
  <2>3. Cardinality(({a} \cup {b}) \cup {c}) \in {1, 2, 3}
    BY <2>2, FS_AddElement
  <2>4. ({a} \cup {b}) \cup {c} = {a, b, c}
    OBVIOUS
  <2> QED
    BY <2>3, <2>4
<1>3. ASSUME NEW a, NEW b, NEW c, NEW d, Cardinality({a, b, c, d}) = 4
      PROVE  a # b /\ a # c /\ a # d /\ b # c /\ b # d /\ c # d
  <2>1. ASSUME a = b \/ a = c \/ a = d PROVE FALSE
    <3>1. {a, b, c, d} = {b, c, d}
      BY <2>1
    <3> QED
      BY <1>2, <1>3, <3>1
  <2>2. ASSUME b = c \/ b = d PROVE FALSE
    <3>1. {a, b, c, d} = {a, c, d}
      BY <2>2
    <3> QED
      BY <1>2, <1>3, <3>1
  <2>3. ASSUME c = d PROVE FALSE
    <3>1. {a, b, c, d} = {a, b, c}
      BY <2>3
    <3> QED
      BY <1>2, <1>3, <3>1
  <2> QED
    BY <2>1, <2>2, <2>3
<1> QED
    BY <1>1, <1>3

\* A fact has one project key, and a filter selects the facts of its key.
LEMMA KeyMatches ==
    ASSUME NEW f \in Facts
    PROVE  /\ ProjectKey(f) \in ProjectKeys
           /\ \A x \in ProjectKeys : ProjectMatches(f, x) <=> ProjectKey(f) = x
<1>1. f.proj \in Projects \cup {NoProject}
    BY EffectiveSourceAssumption DEF Fact
<1>2. {NoProject, StandaloneProject, UnassignedProject, Unfiltered} \cap Projects = {}
    BY EffectiveSourceAssumption
<1>3. ProjectKey(f) \in ProjectKeys
    BY <1>1 DEF ProjectKey, ProjectKeys
<1>4. ASSUME NEW x \in ProjectKeys PROVE ProjectMatches(f, x) <=> ProjectKey(f) = x
    BY <1>1, <1>2, ReservedDiffer DEF ProjectMatches, ProjectKey, ProjectKeys
<1> QED
    BY <1>3, <1>4

\* A statement with a project filter reads the facts of that key.
LEMMA StatementOfKey ==
    ASSUME EvidenceInv, NEW x \in ProjectKeys, NEW filter, NEW narrow,
           filter.proj = Unfiltered, narrow.proj = x, narrow.acct = filter.acct,
           narrow.quality = filter.quality, narrow.from = filter.from, narrow.to = filter.to
    PROVE  /\ BuildFilter(narrow) = {f \in BuildFilter(filter) : DimKey("project")[f] = x}
           /\ BuildHourlyFilter(narrow) = {f \in BuildHourlyFilter(filter) : DimKey("project")[f] = x}
           /\ BuildRollupFilter(narrow) = {f \in BuildRollupFilter(filter) : DimKey("project")[f] = x}
<1>1. ASSUME NEW f \in Facts PROVE Matches(f, narrow) <=> Matches(f, filter) /\ DimKey("project")[f] = x
  <2>1. DimKey("project")[f] = ProjectKey(f)
    BY DEF DimKey, DimensionKey
  <2>2. ProjectMatches(f, x) <=> ProjectKey(f) = x
    BY KeyMatches
  <2>3. ProjectMatches(f, Unfiltered)
    BY DEF ProjectMatches
  <2> QED
    BY <2>1, <2>2, <2>3 DEF Matches
<1>2. \A t : /\ WithinExactly(t, narrow) <=> WithinExactly(t, filter)
             /\ WithinHours(t, narrow) <=> WithinHours(t, filter)
             /\ WithinDays(t, narrow) <=> WithinDays(t, filter)
    BY DEF WithinExactly, WithinHours, WithinDays
<1>3. /\ RawTable(filter.quality) \subseteq Facts /\ DailyTable(filter.quality) \subseteq Facts
  <2>1. sampled \subseteq Facts /\ raw \subseteq Facts /\ rebuilt \subseteq Facts
    BY DEF EvidenceInv
  <2> QED
    BY <2>1 DEF RawTable, DailyTable, Chosen, Confirmed
<1> HIDE DEF DimKey
<1> QED
    BY <1>1, <1>2, <1>3 DEF BuildFilter, BuildHourlyFilter, BuildRollupFilter, HourlyTable

\* The period's usage of one project is what its filter selects.
LEMMA ProjectPart ==
    ASSUME EvidenceInv, NEW label \in PeriodLabels, NEW x \in ProjectKeys
    PROVE  LET p == Period(label)
               filter == PeriodFilter(AllQuery, "confirmed", p)
               R == PeriodSets(filter, p)
           IN  Total(Share(R, DimKey("project"), x), DOMAIN R)
                 = AggregateSelectedPeriod([filter EXCEPT !.proj = x], p)
<1> DEFINE p == Period(label)
           filter == PeriodFilter(AllQuery, "confirmed", p)
           query == [acct |-> Unfiltered, proj |-> x]
           narrow == PeriodFilter(query, "confirmed", p)
           R == PeriodSets(filter, p)
           Q == PeriodSets(narrow, p)
           g == DimKey("project")
           start == TimeOr(p.start, 0)
<1>1. /\ filter = [acct |-> Unfiltered, proj |-> Unfiltered, quality |-> "confirmed", from |-> start, to |-> now]
      /\ narrow = [acct |-> Unfiltered, proj |-> x, quality |-> "confirmed", from |-> start, to |-> now]
  <2>1. AllQuery.acct = Unfiltered /\ AllQuery.proj = Unfiltered /\ query.acct = Unfiltered /\ query.proj = x
    BY DEF AllQuery
  <2>2. \A q : PeriodFilter(q, "confirmed", p) = [acct |-> q.acct, proj |-> q.proj, quality |-> "confirmed",
                                                  from |-> start, to |-> now]
    BY PeriodFilterIs
  <2> HIDE DEF query, p, start
  <2> QED
    BY <2>1, <2>2
<1>2. [filter EXCEPT !.proj = x] = narrow
  <2> HIDE DEF filter, narrow, start
  <2> QED
    BY <1>1
<1>3. /\ p.label = label /\ Reads(Q) /\ AggregateSelectedPeriod(narrow, p) = Total(Whole(Q), DOMAIN Q)
      /\ label # "rolling7" => Q = <<BuildRollupFilter(narrow)>>
      /\ label = "rolling7" => Q = ReadAll(narrow, p)
    BY PeriodShares
<1>4. /\ label # "rolling7" => R = <<BuildRollupFilter(filter)>>
      /\ label = "rolling7" => R = ReadAll(filter, p)
    BY PeriodShares
<1>5. DOMAIN Q = DOMAIN R /\ \A i \in DOMAIN R : Q[i] = {f \in R[i] : g[f] = x}
  <2>1. CASE label # "rolling7"
    <3>1. BuildRollupFilter(narrow) = {f \in BuildRollupFilter(filter) : g[f] = x}
      <4>1. /\ filter.proj = Unfiltered /\ narrow.proj = x /\ narrow.acct = filter.acct
            /\ narrow.quality = filter.quality /\ narrow.from = filter.from /\ narrow.to = filter.to
        BY <1>1
      <4> HIDE DEF filter, narrow
      <4> QED
        BY <4>1, StatementOfKey DEF g
    <3> HIDE DEF Q, R, g, filter, narrow
    <3> QED
      BY <1>3, <1>4, <2>1, <3>1
  <2>2. CASE label = "rolling7"
    <3> DEFINE todo == StatementsOf(p)
    <3>1. Q = [i \in DOMAIN todo |-> ReadStatement(todo[i], narrow)]
      BY <1>3, <2>2 DEF ReadAll
    <3>2. R = [i \in DOMAIN todo |-> ReadStatement(todo[i], filter)]
      BY <1>4, <2>2 DEF ReadAll
    <3>3. \A i \in DOMAIN todo : todo[i].table \in {"raw", "hour"}
      <4>1. p = ResolvePeriod("rolling7", now) /\ now \in 0 .. MaxTime
        BY <2>2, PeriodFilterIs DEF Period
      <4> HIDE DEF p
      <4> QED
        BY <4>1, RollingStatements
    <3>4. ASSUME NEW s, s.table \in {"raw", "hour"}
          PROVE  ReadStatement(s, narrow) = {f \in ReadStatement(s, filter) : g[f] = x}
      <4> DEFINE fs == Narrowed(filter, s)
                 ns == Narrowed(narrow, s)
      <4>1. /\ fs.proj = Unfiltered /\ ns.proj = x /\ ns.acct = fs.acct
            /\ ns.quality = fs.quality /\ ns.from = fs.from /\ ns.to = fs.to
        BY <1>1 DEF Narrowed
      <4>2. /\ s.table = "raw" => ReadStatement(s, narrow) = BuildFilter(ns) /\ ReadStatement(s, filter) = BuildFilter(fs)
            /\ s.table = "hour" => /\ ReadStatement(s, narrow) = BuildHourlyFilter(ns)
                                   /\ ReadStatement(s, filter) = BuildHourlyFilter(fs)
        BY DEF ReadStatement, AggregateUsage, AggregateHourlyUsage
      <4> HIDE DEF fs, ns
      <4>3. /\ BuildFilter(ns) = {f \in BuildFilter(fs) : g[f] = x}
            /\ BuildHourlyFilter(ns) = {f \in BuildHourlyFilter(fs) : g[f] = x}
        BY <4>1, StatementOfKey DEF g
      <4> QED
        BY <3>4, <4>2, <4>3
    <3> HIDE DEF Q, R, g, filter, narrow, todo
    <3> QED
      BY <3>1, <3>2, <3>3, <3>4
  <2> QED
    BY <2>1, <2>2
<1> HIDE DEF Q, R, g, filter, narrow
<1>6. Whole(Q) = Share(R, g, x)
    BY <1>5 DEF Whole, Share
<1> QED
    BY <1>2, <1>3, <1>5, <1>6 DEF R, g, filter

\* The projects explorer shows for every project what its filter selects.
LEMMA ExplorerAgrees ==
    ASSUME EvidenceInv, NEW label \in PeriodLabels, NEW x \in DOMAIN ExplorerProjects(AllQuery, Period(label))
    PROVE  LET p == Period(label)
               filter == PeriodFilter(AllQuery, "confirmed", p)
           IN  ExplorerProjects(AllQuery, p)[x].period = AggregateSelectedPeriod([filter EXCEPT !.proj = x], p)
<1> DEFINE p == Period(label)
           filter == PeriodFilter(AllQuery, "confirmed", p)
           R == PeriodSets(filter, p)
           g == DimKey("project")
           A == AggregateSelectedPeriodBy("project", filter, p)
           life == Period("lifetime")
           lifeFilter == PeriodFilter(AllQuery, "confirmed", life)
           L == AggregateSelectedPeriodBy("project", lifeFilter, life)
<1>1. [AllQuery EXCEPT !.proj = Unfiltered] = AllQuery
    BY DEF AllQuery
<1>2. ResolvePeriod("lifetime", p.end) = life
    BY PeriodFilterIs DEF Period
<1>3. /\ DOMAIN ExplorerProjects(AllQuery, p) = Projects \cup DOMAIN L
      /\ ExplorerProjects(AllQuery, p)[x].period = IF x \in DOMAIN A THEN A[x] ELSE 0
    BY <1>1, <1>2 DEF ExplorerProjects, BreakdownRows
<1>4. IsSplit(A, R, g) /\ Reads(R)
    BY BreakdownShares, PeriodShares
<1>5. DOMAIN L \subseteq ProjectKeys
  <2> DEFINE Q == PeriodSets(lifeFilter, life)
  <2>1. "lifetime" \in PeriodLabels
    BY DEF PeriodLabels
  <2>2. IsSplit(L, Q, g) /\ Reads(Q)
    BY <2>1, BreakdownShares, PeriodShares
  <2>3. \A f \in Facts : g[f] \in ProjectKeys
    BY KeyMatches DEF DimKey, DimensionKey
  <2> HIDE DEF L, Q, g
  <2> QED
    BY <2>2, <2>3 DEF IsSplit, Reads
<1>6. x \in ProjectKeys
    BY <1>3, <1>5 DEF ProjectKeys
<1>7. (IF x \in DOMAIN A THEN A[x] ELSE 0) = Total(Share(R, g, x), DOMAIN R)
  <2> HIDE DEF A, R, g
  <2> QED
    BY <1>4, SplitValue
<1>8. Total(Share(R, g, x), DOMAIN R) = AggregateSelectedPeriod([filter EXCEPT !.proj = x], p)
    BY <1>6, ProjectPart
<1> QED
    BY <1>3, <1>7, <1>8

\* Named, standalone and unassigned usage share out the whole.
LEMMA CoverShares ==
    ASSUME EvidenceInv, NEW label \in PeriodLabels, NEW acct
    PROVE  LET cover == AttributionCoverage(acct, Period(label))
           IN  cover.named + cover.standalone + cover.unassigned = cover.local
<1> DEFINE p == Period(label)
           query == [acct |-> acct, proj |-> Unfiltered]
           filter == PeriodFilter(query, "confirmed", p)
           R == PeriodSets(filter, p)
           g == DimKey("project")
           A == AggregateSelectedPeriodBy("project", filter, p)
           cover == AttributionCoverage(acct, p)
           Of(D) == SumFunctionOnSet(A, D \cap DOMAIN A)
<1>1. /\ cover.local = AggregateSelectedPeriod(filter, p)
      /\ cover.standalone = Of({StandaloneProject}) /\ cover.unassigned = Of({UnassignedProject})
      /\ cover.named = Of(Projects)
    BY DEF AttributionCoverage
<1>2. IsSplit(A, R, g) /\ Reads(R) /\ AggregateSelectedPeriod(filter, p) = Total(Whole(R), DOMAIN R)
    BY BreakdownShares, PeriodShares
<1>3. \A f \in Facts : g[f] \in ProjectKeys
    BY KeyMatches DEF DimKey, DimensionKey
<1> HIDE DEF A, R, g, cover
<1>4. IsFiniteSet(DOMAIN A) /\ \A k \in DOMAIN A : A[k] \in Nat
    BY <1>2, SplitPart
<1>5. DOMAIN A \subseteq ProjectKeys
    BY <1>2, <1>3 DEF IsSplit, Reads
<1> DEFINE a == Projects \cap DOMAIN A
           b == {StandaloneProject} \cap DOMAIN A
           c == {UnassignedProject} \cap DOMAIN A
<1>6. a \cap b = {} /\ (a \cup b) \cap c = {} /\ (a \cup b) \cup c = DOMAIN A
    BY <1>5, ReservedDiffer, EffectiveSourceAssumption DEF ProjectKeys
<1>7. IsFiniteSet(a) /\ IsFiniteSet(b) /\ IsFiniteSet(c) /\ IsFiniteSet(a \cup b)
    BY <1>4, FS_Subset
<1>8. \A k \in (a \cup b) \cup c : A[k] \in Nat
    BY <1>4
<1>9. Of(Projects) = Total(A, a) /\ Of({StandaloneProject}) = Total(A, b) /\ Of({UnassignedProject}) = Total(A, c)
    BY SumIsTotal
<1> HIDE DEF a, b, c, Of
<1>10. Total(A, a \cup b) = Total(A, a) + Total(A, b)
    BY <1>6, <1>7, <1>8, TotalUnion
<1>11. Total(A, (a \cup b) \cup c) = Total(A, a \cup b) + Total(A, c)
    BY <1>6, <1>7, <1>8, TotalUnion
<1>12. SumFunction(A) = Total(Whole(R), DOMAIN R) /\ SumFunction(A) = Total(A, DOMAIN A)
    BY <1>2, SplitWhole, SumIsTotal
<1> QED
    BY <1>1, <1>2, <1>6, <1>9, <1>10, <1>11, <1>12 DEF cover

\* Statements that follow each other begin where the earlier ones have ended.
LEMMA StatementsApart ==
    ASSUME NEW todo, NEW a, NEW b, NEW t, Spans(todo, a, b, t)
    PROVE  \A j \in 1 .. Len(todo) :
              /\ Low(todo[j]) \in Nat /\ todo[j].to \in Nat /\ a <= Low(todo[j])
              /\ \A i \in 1 .. j - 1 : todo[i].to <= Low(todo[j])
<1> USE EffectiveSourceAssumption
<1> DEFINE n == Len(todo)
           low(j) == Low(todo[j])
           to(j) == todo[j].to
<1>1. n \in Nat /\ a \in Nat /\ b \in Nat /\ todo \in Seq(Statements) /\ (todo # <<>> => low(1) = a)
    BY DEF Spans
<1>2. \A j \in 1 .. n : low(j) \in Nat /\ to(j) \in Nat /\ low(j) <= to(j)
  <2> SUFFICES ASSUME NEW j \in 1 .. n PROVE low(j) \in Nat /\ to(j) \in Nat /\ low(j) <= to(j)
    OBVIOUS
  <2>1. todo[j] \in Statements
    BY <1>1
  <2>2. todo[j].from \in Nat /\ todo[j].to \in Nat
    BY <2>1 DEF Statements
  <2>3. Low(todo[j]) <= todo[j].to
    BY DEF Spans, Fits
  <2>4. Low(todo[j]) \in Nat
    BY <2>2, RoundsDown DEF Low, Day
  <2> QED
    BY <2>2, <2>3, <2>4
<1>3. \A j \in 1 .. n : j # n => to(j) = low(j + 1)
    BY <1>1 DEF Spans
<1>4. n # 0 => low(1) = a
    BY <1>1
<1> HIDE DEF n, low, to
<1> DEFINE S == {j \in 0 .. n : j # 0 => a <= low(j) /\ \A i \in 1 .. j - 1 : to(i) <= low(j)}
<1>5. 0 \in S
    BY <1>1
<1>6. ASSUME NEW j \in 0 .. n, j # n, j \in S PROVE j + 1 \in S
  <2> DEFINE k == j + 1
  <2>1. k \in 1 .. n /\ k - 1 = j
    BY <1>1, <1>6
  <2>2. CASE j = 0
    <3>1. k = 1 /\ n # 0
      BY <2>1, <2>2
    <3> HIDE DEF k
    <3> QED
      BY <1>1, <1>4, <2>1, <3>1
  <2>3. CASE j # 0
    <3>1. j \in 1 .. n /\ a <= low(j) /\ (\A i \in 1 .. j - 1 : to(i) <= low(j))
      BY <1>6, <2>3
    <3>2. to(j) = low(k)
      BY <1>3, <1>6, <3>1
    <3>3. low(j) \in Nat /\ to(j) \in Nat /\ low(j) <= to(j) /\ low(k) \in Nat
      BY <1>2, <2>1, <3>1
    <3> HIDE DEF k
    <3>4. a <= low(k)
      BY <1>1, <3>1, <3>2, <3>3
    <3>5. ASSUME NEW i \in 1 .. k - 1 PROVE to(i) <= low(k)
      <4>1. CASE i = j
        BY <3>2, <3>3, <4>1
      <4>2. CASE i # j
        <5>1. i \in 1 .. j - 1 /\ i \in 1 .. n
          <6>1. i \in 1 .. j /\ j \in Nat /\ j <= n
            BY <1>1, <2>1, <3>1, <3>5
          <6> QED
            BY ONLY <1>1, <4>2, <6>1
        <5>2. to(i) <= low(j) /\ to(i) \in Nat
          BY <1>2, <3>1, <5>1
        <5> QED
          BY <3>2, <3>3, <5>2
      <4> QED
        BY <4>1, <4>2
    <3> QED
      BY <2>1, <3>4, <3>5
  <2> QED
    BY <2>2, <2>3
<1>7. \A j \in 0 .. n : j \in S
  <2> HIDE DEF S
  <2> QED
    BY <1>1, <1>5, <1>6, BoundedInduction
<1>8. ASSUME NEW j \in 1 .. n
      PROVE low(j) \in Nat /\ to(j) \in Nat /\ a <= low(j) /\ \A i \in 1 .. j - 1 : to(i) <= low(j)
    BY <1>1, <1>2, <1>7
<1> QED
    BY <1>8 DEF n, low, to

\* Sets that do not overlap hold no more than what holds them all.
LEMMA ApartWithin ==
    ASSUME NEW R, Reads(R), NEW S \in SUBSET Facts, \A i \in DOMAIN R : R[i] \subseteq S,
           \A i, j \in DOMAIN R : i # j => R[i] \cap R[j] = {}
    PROVE  Total(Whole(R), DOMAIN R) <= Tokens(S)
<1> DEFINE I == DOMAIN R
           U == UNION {R[i] : i \in I}
           h == [f \in U |-> CHOOSE i \in I : f \in R[i]]
           fib == Whole(R)
<1>1. IsFiniteSet(I) /\ \A i \in I : R[i] \in SUBSET Facts
    BY DEF Reads
<1>2. U \in SUBSET S /\ U \in SUBSET Facts
    OBVIOUS
<1>3. \A f \in U : \E i \in I : f \in R[i]
    OBVIOUS
<1>4. \A f \in U : h[f] \in I /\ f \in R[h[f]]
    BY <1>3
<1>5. \A i \in I : fib[i] = Tokens(R[i]) /\ R[i] \subseteq U
    BY DEF Whole
<1>6. h \in [U -> I]
    BY <1>4
<1> HIDE DEF fib, U, h, I
<1>7. ASSUME NEW i \in I PROVE fib[i] = Total(Weight, Fiber(h, U, i))
  <2>1. Fiber(h, U, i) = R[i]
    BY <1>4, <1>5 DEF Fiber, I
  <2>2. Tokens(R[i]) = Total(Weight, R[i])
    BY <1>1, TokensIsTotal
  <2> QED
    BY <1>5, <2>1, <2>2
<1>8. AreFibers(fib, h, Weight, U, I)
    BY <1>6, <1>7 DEF AreFibers
<1>9. IsFiniteSet(U) /\ \A f \in U : Weight[f] \in Nat
    BY <1>2, TokensIsTotal
<1>10. Total(Weight, U) = Total(fib, I)
    BY <1>1, <1>8, <1>9, TotalFibers
<1>11. Tokens(S) = Total(Weight, S) /\ IsFiniteSet(S) /\ \A f \in S : Weight[f] \in Nat
    BY TokensIsTotal
<1>12. Total(Weight, U) <= Total(Weight, S)
    BY <1>2, <1>9, <1>11, TotalGrows
<1> QED
    BY <1>10, <1>11, <1>12 DEF fib, I

\* Usage of unknown quality in the exact window is part of that of its days.
LEMMA DoubtWithin ==
    ASSUME EvidenceInv, NEW q
    PROVE  LET p == Period("rolling7")
               filter == PeriodFilter(q, "unknown", p)
               R == ReadAll(filter, p)
           IN  Total(Whole(R), DOMAIN R) <= Tokens(BuildRollupFilter(filter))
<1> USE EffectiveSourceAssumption
<1> DEFINE p == Period("rolling7")
           filter == PeriodFilter(q, "unknown", p)
           R == ReadAll(filter, p)
           S == BuildRollupFilter(filter)
           todo == StatementsOf(p)
           start == TimeOr(p.start, 0)
<1>1. /\ filter = [acct |-> q.acct, proj |-> q.proj, quality |-> "unknown", from |-> start, to |-> now]
      /\ start \in 0 .. now /\ now \in 0 .. MaxTime /\ p = ResolvePeriod("rolling7", now)
    BY PeriodFilterIs DEF PeriodLabels, Period
<1>2. start = p.start
    BY <1>1, PeriodShape DEF PeriodLabels
<1> HIDE DEF p, filter
<1>3. /\ todo \in Seq(Statements) /\ Spans(todo, start, now, now)
      /\ \A i \in DOMAIN todo : todo[i].table \in {"raw", "hour"}
    BY <1>1, <1>2, RollingStatements
<1>4. DOMAIN R = DOMAIN todo /\ \A i \in DOMAIN R : R[i] = ReadStatement(todo[i], filter)
    BY DEF ReadAll
<1>5. Reads(R) /\ S \in SUBSET Facts
    BY <1>3, PeriodReads, TablesHoldFacts
<1>6. S = {f \in sampled : Matches(f, filter) /\ WithinDays(f.time, filter)}
    BY <1>1 DEF BuildRollupFilter, DailyTable
<1>7. \A f \in sampled : f.time \in Nat /\ f.time < now
    BY DEF EvidenceInv, Fact
<1>8. raw \subseteq sampled /\ DOMAIN todo = 1 .. Len(todo) /\ Len(todo) \in Nat
    BY <1>3 DEF EvidenceInv
<1>9. \A j \in 1 .. Len(todo) :
         /\ Low(todo[j]) \in Nat /\ todo[j].to \in Nat /\ start <= Low(todo[j]) /\ Fits(todo[j], now)
         /\ \A i \in 1 .. j - 1 : todo[i].to <= Low(todo[j])
   <2> HIDE DEF todo, start
  <2>1. \A j \in 1 .. Len(todo) :
           /\ Low(todo[j]) \in Nat /\ todo[j].to \in Nat /\ start <= Low(todo[j])
           /\ \A i \in 1 .. j - 1 : todo[i].to <= Low(todo[j])
    BY <1>3, StatementsApart
  <2>2. \A j \in 1 .. Len(todo) : Fits(todo[j], now)
    BY <1>3, <1>8 DEF Spans
  <2> QED
    BY <2>1, <2>2
<1>10. filter.quality = "unknown" /\ filter.from = start /\ filter.to = now
    BY <1>1
<1> HIDE DEF todo, R, S, start
<1>11. ASSUME NEW j \in DOMAIN R, NEW f \in R[j]
       PROVE  f \in sampled /\ Matches(f, filter) /\ Low(todo[j]) <= f.time /\ f.time < todo[j].to
  <2> DEFINE s == todo[j]
             narrow == Narrowed(filter, s)
             t == f.time
  <2>1. s \in Statements /\ s.table \in {"raw", "hour"} /\ Fits(s, now) /\ f \in ReadStatement(s, filter)
    BY <1>3, <1>4, <1>8, <1>9
  <2>2. /\ narrow.from = s.from /\ narrow.to = s.to /\ narrow.quality = "unknown"
        /\ narrow.acct = filter.acct /\ narrow.proj = filter.proj
    BY <1>1 DEF Narrowed
  <2> HIDE DEF narrow
  <2>3. Matches(f, narrow) <=> Matches(f, filter)
    BY <1>10, <2>2 DEF Matches
  <2>4. Low(s) = s.from /\ s.from \in Nat /\ s.to \in Nat
    BY <2>1 DEF Low, Statements
  <2>5. CASE s.table = "raw"
    <3>1. ReadStatement(s, filter) = BuildFilter(narrow)
      BY <2>5 DEF ReadStatement, AggregateUsage, narrow
    <3>2. f \in raw /\ Matches(f, narrow) /\ WithinExactly(f.time, narrow)
      BY <2>1, <2>2, <3>1 DEF BuildFilter, RawTable
    <3> QED
      BY <1>8, <2>2, <2>3, <2>4, <3>2 DEF WithinExactly
  <2>6. CASE s.table = "hour"
    <3>1. ReadStatement(s, filter) = BuildHourlyFilter(narrow)
      BY <2>6 DEF ReadStatement, AggregateHourlyUsage, narrow
    <3>2. f \in sampled /\ Matches(f, narrow) /\ WithinHours(t, narrow)
      BY <2>1, <2>2, <3>1 DEF BuildHourlyFilter, HourlyTable, DailyTable
    <3>3. /\ (s.from \div HourLength) * HourLength = s.from
          /\ s.to = now \/ (s.to \div HourLength) * HourLength = s.to
      BY <2>1, <2>6 DEF Fits, Hour
    <3>4. t \in Nat /\ (t < s.to \/ (s.to \div HourLength) * HourLength = s.to)
      BY <1>7, <3>2, <3>3
    <3>5. s.to > 0 /\ t \div HourLength \in (s.from \div HourLength) .. ((s.to - 1) \div HourLength)
      BY <2>2, <3>2 DEF WithinHours, Hour
    <3> HIDE DEF t, s
    <3>6. (s.from \div HourLength) * HourLength <= t /\ t < s.to
      BY <2>4, <3>4, <3>5, WholeUnits
    <3>7. Low(s) <= t /\ t < s.to
      BY <2>4, <3>3, <3>6
    <3> QED
      BY <2>3, <3>2, <3>7 DEF t, s
  <2> QED
    BY <2>1, <2>5, <2>6
<1>12. ASSUME NEW j \in DOMAIN R PROVE R[j] \subseteq S
  <2> SUFFICES ASSUME NEW f \in R[j] PROVE f \in S
    OBVIOUS
  <2> DEFINE t == f.time
             n == DayLength
  <2>1. f \in sampled /\ Matches(f, filter) /\ Low(todo[j]) <= t
    BY <1>11
  <2>2. t \in Nat /\ t < now /\ start <= Low(todo[j]) /\ Low(todo[j]) \in Nat
    BY <1>4, <1>7, <1>8, <1>9, <2>1
  <2>3. start \in Nat /\ now \in Nat /\ start <= t
    BY <1>1, <2>1, <2>2
  <2> HIDE DEF t
  <2>4. (start \div n) * n <= start /\ (start \div n) * n \in Nat
    BY <2>3, RoundsDown
  <2>5. (start \div n) * n <= t
    BY <2>2, <2>3, <2>4
  <2> HIDE DEF n
  <2>6. n \in Nat \ {0}
    BY DEF n
  <2>7. now > 0 /\ t \div n \in (start \div n) .. ((now - 1) \div n)
    BY <2>2, <2>3, <2>5, <2>6, WholeUnits
  <2>8. WithinDays(t, filter)
    BY <1>10, <2>7 DEF WithinDays, Day, n
  <2> QED
    BY <1>6, <2>1, <2>8 DEF t
<1>13. ASSUME NEW i \in DOMAIN R, NEW j \in DOMAIN R, i < j PROVE R[i] \cap R[j] = {}
  <2> SUFFICES ASSUME NEW f \in R[i], f \in R[j] PROVE FALSE
    OBVIOUS
  <2>1. f.time < todo[i].to /\ Low(todo[j]) <= f.time /\ f.time \in Nat
    BY <1>7, <1>11
  <2>2. i \in 1 .. Len(todo) /\ j \in 1 .. Len(todo) /\ i \in 1 .. j - 1
    BY <1>4, <1>8, <1>13
  <2>3. todo[i].to <= Low(todo[j]) /\ todo[i].to \in Nat /\ Low(todo[j]) \in Nat
    BY <1>9, <2>2
  <2> QED
    BY <2>1, <2>3
<1>14. \A i, j \in DOMAIN R : i # j => R[i] \cap R[j] = {}
  <2> SUFFICES ASSUME NEW i \in DOMAIN R, NEW j \in DOMAIN R, i # j PROVE R[i] \cap R[j] = {}
    OBVIOUS
  <2>1. i < j \/ j < i
    BY <1>4, <1>8
  <2> QED
    BY <1>13, <2>1
<1>15. Total(Whole(R), DOMAIN R) <= Tokens(S)
    BY <1>5, <1>12, <1>14, ApartWithin
<1> QED
    BY <1>15 DEF R, S, p, filter

\* The raw rows that retention keeps hold what the rollups hold of whole days.
LEMMA RawMatches ==
    ASSUME EvidenceInv
    PROVE  RawMatchesRollups
<1> USE EffectiveSourceAssumption
<1> DEFINE n == DayLength
           cut == Before(now, RollingLength)
           first == IF cut % DayLength = 0 THEN cut ELSE (Day(cut) + 1) * DayLength
           filter == FilterOf(AllQuery, "confirmed", first, MaxTime + 1)
           end == MaxTime + 1
           A == BuildFilter(filter)
           B == BuildRollupFilter(filter)
<1>1. now \in 0 .. MaxTime /\ MaxTime \in Nat /\ cut \in Nat
    BY QueriesAssumption, DashboardAssumption DEF EvidenceInv, Before
<1>2. n \in Nat \ {0}
    OBVIOUS
<1> HIDE DEF cut
<1>3. \E k \in Nat : first = k * n /\ cut <= first
  <2>1. /\ Day(cut) \in Nat /\ Day(cut) = cut \div n
        /\ (cut \div n) * n <= cut /\ cut < (cut \div n) * n + n
    BY <1>1, <1>2, RoundsDown DEF Day
  <2>2. CASE cut % DayLength = 0
    <3>1. first = cut
      BY <2>2
    <3>2. cut = (cut \div n) * n
      BY <1>1, <1>2, <2>2
    <3> QED
      BY <1>1, <2>1, <3>1, <3>2
  <2>3. CASE cut % DayLength # 0
    <3>1. first = (Day(cut) + 1) * n
      BY <2>3
    <3>2. (Day(cut) + 1) * n = Day(cut) * n + n
      BY <1>2, <2>1
    <3> HIDE DEF first, n
    <3>3. cut <= first /\ Day(cut) + 1 \in Nat
      BY <1>1, <1>2, <2>1, <3>1, <3>2
    <3> QED
      BY <3>1, <3>3
  <2> QED
    BY <2>2, <2>3
<1> HIDE DEF first
<1>4. first \in Nat /\ cut <= first /\ (first \div n) * n = first
  <2> PICK k \in Nat : first = k * n /\ cut <= first
    BY <1>3
  <2> QED
    BY <1>2, RoundedMultiple
<1>5. filter.from = first /\ filter.to = end /\ filter.quality = "confirmed" /\ end \in Nat
  <2>1. first # NoTime /\ end # NoTime
    BY <1>1, <1>4, QueriesAssumption
  <2> QED
    BY <1>1, <2>1 DEF FilterOf, TimeOr
<1> HIDE DEF end, filter
<1>6. A = B
  <2>1. ASSUME NEW f, f \in DailyTable("confirmed") \/ f \in RawTable("confirmed")
        PROVE  f.time \in Nat /\ f.time < end
    <3>1. f \in sampled \cup rebuilt
      BY <2>1 DEF DailyTable, RawTable, Chosen, Confirmed, EvidenceInv
    <3>2. f.time \in Nat /\ f.time < now
      BY <3>1 DEF EvidenceInv, Fact
    <3> QED
      BY <1>1, <3>2 DEF end
  <2>2. ASSUME NEW f, f.time \in Nat, f.time < end
        PROVE  WithinDays(f.time, filter) <=> WithinExactly(f.time, filter)
    <3> DEFINE t == f.time
    <3>1. end > 0 /\ t \div n \in (first \div n) .. ((end - 1) \div n) <=> first <= t /\ t < end
      <4> HIDE DEF n, t
      <4> QED
        BY <1>2, <1>4, <1>5, <2>2, WholeUnits DEF t
    <3> QED
      BY <1>5, <3>1 DEF WithinDays, WithinExactly, Day
  <2>3. ASSUME NEW f, WithinExactly(f.time, filter), f.time \in Nat
        PROVE  f \in RawTable("confirmed") <=> f \in DailyTable("confirmed")
    <3>1. f.time \in Int /\ Before(now, RollingLength) <= f.time
      BY <1>1, <1>4, <1>5, <2>3 DEF WithinExactly, cut
    <3> QED
      BY <3>1, RawIsEvidence
  <2>4. A = {f \in RawTable("confirmed") : Matches(f, filter) /\ WithinExactly(f.time, filter)}
    BY <1>5 DEF BuildFilter
  <2>5. B = {f \in DailyTable("confirmed") : Matches(f, filter) /\ WithinDays(f.time, filter)}
    BY <1>5 DEF BuildRollupFilter
  <2> HIDE DEF A, B
  <2> QED
    BY <2>1, <2>2, <2>3, <2>4, <2>5
<1>7. BuildFilter(filter) = BuildRollupFilter(filter)
    BY <1>6
<1>8. /\ AggregateByDay(filter) = AggregateRollupBy("day", filter)
      /\ AggregateBy("project", filter) = AggregateRollupBy("project", filter)
      /\ AggregateByThreadIds(Threads, filter) = AggregateRollupByThreadIds(Threads, filter)
      /\ AggregateUsageForThreads(standalone, filter) = AggregateRollupUsageForThreads(standalone, filter)
  <2>1. AggregateByDay(filter) = AggregateRollupBy("day", filter)
    BY <1>7 DEF AggregateByDay, AggregateRollupBy, DimensionKey
  <2>2. AggregateBy("project", filter) = AggregateRollupBy("project", filter)
    BY <1>7 DEF AggregateBy, AggregateRollupBy
  <2>3. AggregateByThreadIds(Threads, filter) = AggregateRollupByThreadIds(Threads, filter)
    BY <1>7 DEF AggregateByThreadIds, AggregateRollupByThreadIds
  <2>4. AggregateUsageForThreads(standalone, filter) = AggregateRollupUsageForThreads(standalone, filter)
    BY <1>7 DEF AggregateUsageForThreads, AggregateRollupUsageForThreads
  <2> QED
    BY <2>1, <2>2, <2>3, <2>4
<1> QED
    BY <1>8 DEF RawMatchesRollups, filter, first, cut

\* SameAnswerEveryWay: whichever way the dashboard asks for local usage, by one
\* total, by points, by a breakdown, by project or by the comparison window, the
\* answers add up to the same tokens.
THEOREM SameAnswerEveryWayHolds == Spec => []SameAnswerEveryWay
<1>1. ASSUME TypeInv PROVE SameAnswerEveryWay
  <2> SUFFICES ASSUME NEW label \in PeriodLabels, NEW q \in LocalQueries
               PROVE  LET p      == Period(label)
                          filter == PeriodFilter(q, "confirmed", p)
                          total  == AggregateSelectedPeriod(filter, p)
                          cover  == AttributionCoverage(q.acct, p)
                          shown  == ExplorerProjects(q, p)
                          doubt  == SumFunction(TimeseriesPoints(q, "unknown", p, "day"))
                      IN  /\ \A grain \in Grains(label) :
                                SumFunction(TimeseriesPoints(q, "confirmed", p, grain)) = total
                          /\ \A dim \in {"account", "project", "thread"} :
                                SumFunction(BreakdownRows(q, dim, p)) = total
                          /\ SumFunction(LocalProjectSeries(q, p)) = total
                          /\ q = AllQuery => \A x \in DOMAIN shown :
                                shown[x].period = AggregateSelectedPeriod([filter EXCEPT !.proj = x], p)
                          /\ SumFunction(ComparisonPoints(q, p, "week")) = PreviousUsage(q, p)
                          /\ doubt <= AggregateForQuality(q, "unknown", p)
                          /\ label # "rolling7" => doubt = AggregateForQuality(q, "unknown", p)
                          /\ q.proj = Unfiltered =>
                                cover.named + cover.standalone + cover.unassigned = cover.local
    BY <1>1, RawMatches DEF SameAnswerEveryWay, TypeInv
  <2>1. EvidenceInv
    BY <1>1 DEF TypeInv
  <2> DEFINE p == Period(label)
             filter == PeriodFilter(q, "confirmed", p)
             total == AggregateSelectedPeriod(filter, p)
             cover == AttributionCoverage(q.acct, p)
             shown == ExplorerProjects(q, p)
             R == PeriodSets(filter, p)
             unknown == PeriodFilter(q, "unknown", p)
             D == PeriodSets(unknown, p)
             doubt == SumFunction(TimeseriesPoints(q, "unknown", p, "day"))
             every == AggregateForQuality(q, "unknown", p)
  <2>2. total = Total(Whole(R), DOMAIN R) /\ Reads(R)
    BY <2>1, PeriodShares
  <2>3. \A grain \in Grains(label) : SumFunction(TimeseriesPoints(q, "confirmed", p, grain)) = total
    BY <2>1, <2>2, PointsWhole
  <2>4. ASSUME NEW dim PROVE SumFunction(BreakdownRows(q, dim, p)) = total
    <3>1. IsSplit(BreakdownRows(q, dim, p), R, DimKey(dim))
      BY <2>1, BreakdownShares DEF BreakdownRows
    <3> QED
      BY <2>2, <3>1, SplitWhole
  <2>5. SumFunction(LocalProjectSeries(q, p)) = total
    BY <2>1, <2>2, ProjectSeriesWhole
  <2>6. q = AllQuery => \A x \in DOMAIN shown :
           shown[x].period = AggregateSelectedPeriod([filter EXCEPT !.proj = x], p)
    BY <2>1, ExplorerAgrees
  <2>7. SumFunction(ComparisonPoints(q, p, "week")) = PreviousUsage(q, p)
    BY <2>1, ComparisonWhole
  <2>8. doubt = Total(Whole(D), DOMAIN D) /\ every = Tokens(BuildRollupFilter(unknown))
    <3>1. "day" \in Grains(label)
      BY DEF Grains
    <3> QED
      BY <2>1, <3>1, PointsWhole DEF AggregateForQuality, AggregateRollupUsage
  <2>9. label # "rolling7" => doubt = every /\ every \in Nat
    <3>1. AggregateSelectedPeriod(unknown, p) = Total(Whole(D), DOMAIN D)
      BY <2>1, PeriodShares
    <3>2. label # "rolling7" => AggregateSelectedPeriod(unknown, p) = every
      BY <2>1, <2>8, OneStatement
    <3>3. every \in Nat
      <4> DEFINE S == BuildRollupFilter(unknown)
      <4>1. S \in SUBSET Facts
        BY <2>1, TablesHoldFacts
      <4> HIDE DEF S
      <4>2. Tokens(S) \in Nat
        BY <4>1, TokensIsTotal, TotalGrows
      <4> QED
        BY <2>8, <4>2 DEF S
    <3> QED
      BY <2>8, <3>1, <3>2, <3>3
  <2>10. label = "rolling7" => doubt <= every
    BY <2>1, <2>8, DoubtWithin, PeriodShares
  <2>11. cover.named + cover.standalone + cover.unassigned = cover.local
    BY <2>1, CoverShares
  <2>12. doubt <= every
    BY <2>9, <2>10
  <2> QED
    BY <2>3, <2>4, <2>5, <2>6, <2>7, <2>9, <2>11, <2>12
<1> QED
    BY <1>1, TypeInvariance, PTL

-----------------------------------------------------------------------------
(* What accounts not yet captured have used.                               *)

\* Remainders are ordered by size, equal ones by their place.
RemainderOrder(rem, D) ==
    {p \in D \X D : rem[p[1]] > rem[p[2]] \/ (rem[p[1]] = rem[p[2]] /\ Precedes(p[1], p[2]))}

LEMMA RemaindersOrdered ==
    ASSUME NEW X \in SUBSET Nat, NEW Y \in SUBSET Nat, NEW rem, \A i \in X \X Y : rem[i] \in Nat
    PROVE  Orders(RemainderOrder(rem, X \X Y), X \X Y)
<1> DEFINE D == X \X Y
           B == RemainderOrder(rem, D)
           Ahead(i, j) == rem[i] > rem[j] \/ (rem[i] = rem[j] /\ Precedes(i, j))
<1>1. ASSUME NEW i \in D PROVE i[1] \in Nat /\ i[2] \in Nat /\ i = <<i[1], i[2]>> /\ rem[i] \in Nat
  <2>1. i \in X \X Y /\ rem[i] \in Nat
    OBVIOUS
  <2>2. i[1] \in X /\ i[2] \in Y /\ i = <<i[1], i[2]>>
    BY ONLY <2>1
  <2> QED
    BY <2>1, <2>2
<1>2. \A i, j \in D : <<i, j>> \in B <=> Ahead(i, j)
    BY DEF RemainderOrder
<1> HIDE DEF B, D
<1>3. \A i \in D : ~Ahead(i, i)
    BY <1>1 DEF Precedes
<1>4. \A i, j \in D : i # j => Ahead(i, j) \/ Ahead(j, i)
  <2> SUFFICES ASSUME NEW i \in D, NEW j \in D, i # j PROVE Ahead(i, j) \/ Ahead(j, i)
    OBVIOUS
  <2>1. i[1] # j[1] \/ i[2] # j[2]
    BY <1>1
  <2> QED
    BY <1>1, <2>1 DEF Precedes
<1>5. \A i, j, k \in D : Ahead(i, j) /\ Ahead(j, k) => Ahead(i, k)
    BY <1>1 DEF Precedes
<1>6. Orders(B, D)
    BY <1>2, <1>3, <1>4, <1>5 DEF Orders
<1> QED
    BY <1>6 DEF B, D

\* w has a number for every one of X and Y, which are finitely many.
IsGrid(w, X, Y) ==
    /\ X \in SUBSET Nat /\ IsFiniteSet(X) /\ Y \in SUBSET Nat /\ IsFiniteSet(Y)
    /\ DOMAIN w = X \X Y /\ \A i \in X \X Y : w[i] \in Nat

\* The allocation gives out the target, and no component more than it has.
LEMMA AllocationShares ==
    ASSUME NEW X, NEW Y, NEW w, IsGrid(w, X, Y), NEW target \in 0 .. SumFunction(w)
    PROVE  LET share == LargestRemainderAllocate(w, target)
           IN  /\ Total(share, X \X Y) = target
               /\ \A i \in X \X Y : share[i] \in Nat /\ share[i] <= w[i]
<1> DEFINE D == X \X Y
           whole == SumFunction(w)
           base == [i \in D |-> (w[i] * target) \div whole]
           rem == [i \in D |-> (w[i] * target) % whole]
           extra == target - SumFunction(base)
           rank == [i \in D |-> Cardinality({j \in D : rem[j] > rem[i] \/ (rem[j] = rem[i] /\ Precedes(j, i))})]
           alloc == [i \in D |-> base[i] + IF rank[i] < extra THEN 1 ELSE 0]
           share == LargestRemainderAllocate(w, target)
           B == RemainderOrder(rem, D)
<1>0. /\ X \in SUBSET Nat /\ IsFiniteSet(X) /\ Y \in SUBSET Nat /\ IsFiniteSet(Y)
      /\ DOMAIN w = D /\ \A i \in D : w[i] \in Nat
    BY DEF IsGrid
<1>1. IsFiniteSet(D) /\ whole = Total(w, D)
    BY <1>0, FS_Product, SumIsTotal
<1>2. whole \in Nat /\ target \in 0 .. whole
  <2>1. Total(w, D) \in Nat
    <3>1. \A i \in D : w[i] \in Nat
      BY <1>0
    <3> HIDE DEF D
    <3> QED
      BY ONLY <1>1, <3>1, TotalAdds
  <2> QED
    BY <1>1, <2>1
<1>3. share = IF whole = 0 THEN w ELSE alloc
    BY <1>0 DEF LargestRemainderAllocate
<1>4. CASE whole = 0
  <2>1. share = w /\ target = 0 /\ Total(w, D) = 0
    BY <1>1, <1>2, <1>3, <1>4
  <2>2. \A i \in D : w[i] \in Nat
    BY <1>0
  <2> HIDE DEF D, share
  <2>3. Total(share, D) = target /\ \A i \in D : share[i] \in Nat /\ share[i] <= w[i]
    BY <2>1, <2>2
  <2> QED
    BY <2>3 DEF D, share
<1>5. CASE whole # 0
  <2>1. SumFunction(base) = Total(base, D)
    BY SumIsTotal
  <2>2. \A i \in D : base[i] = (w[i] * target) \div whole /\ rem[i] = (w[i] * target) % whole
    OBVIOUS
  <2>3. \A i \in D : alloc[i] = base[i] + IF rank[i] < target - Total(base, D) THEN 1 ELSE 0
    BY <2>1
  <2>4. \A i \in D : rank[i] = Cardinality(Below(B, D, i))
    <3> SUFFICES ASSUME NEW i \in D PROVE rank[i] = Cardinality(Below(B, D, i))
      OBVIOUS
    <3>1. Below(B, D, i) = {j \in D : rem[j] > rem[i] \/ (rem[j] = rem[i] /\ Precedes(j, i))}
      <4> HIDE DEF rem, D
      <4> QED
        BY DEF Below, RemainderOrder
    <3> QED
      BY <3>1
  <2>5. \A i \in D : w[i] \in Nat /\ rem[i] \in Nat
    <3> SUFFICES ASSUME NEW i \in D PROVE rem[i] \in Nat
      BY <1>0
    <3>1. \A a, b \in Nat : a * b \in Nat
      OBVIOUS
    <3>2. w[i] * target \in Nat
      BY <1>0, <1>2, <3>1
    <3>3. whole \in Nat \ {0}
      BY <1>2, <1>5
    <3> HIDE DEF whole
    <3>4. (w[i] * target) % whole \in 0 .. whole - 1
      BY ONLY <3>2, <3>3, Division
    <3> QED
      BY <3>3, <3>4
  <2>6. Orders(B, D)
    <3> HIDE DEF rem
    <3> QED
      BY <1>0, <2>5, RemaindersOrdered
  <2> HIDE DEF base, rem, rank, alloc, D, whole
  <2>7. \A i, j \in D : rem[i] > rem[j] => <<i, j>> \in B
    BY DEF RemainderOrder
  <2> HIDE DEF B
  <2>8. Total(alloc, D) = target /\ \A i \in D : alloc[i] \in Nat /\ alloc[i] <= w[i]
    <3>1. Apportions(alloc, D, w, whole, target, base, rem, rank, B)
      BY ONLY <2>2, <2>3, <2>4, <2>6, <2>7 DEF Apportions
    <3>2. \A i \in D : w[i] \in Nat
      BY <2>5
    <3> QED
      BY ONLY <1>1, <1>2, <1>5, <3>1, <3>2, LargestRemainders
  <2> QED
    BY <1>3, <1>5, <2>8 DEF D
<1> QED
    BY <1>4, <1>5

\* The rows are of known projects, and add up to the facts.
LEMMA RowsWhole ==
    ASSUME EvidenceInv, NEW a, NEW d
    PROVE  LET S == ResidualFacts(a, d)
               rows == ResidualUsageRows(a, d)
           IN  /\ DOMAIN rows \subseteq ProjectKeys /\ IsFiniteSet(DOMAIN rows)
               /\ \A x \in DOMAIN rows : \A q \in Parts : rows[x][q] \in Nat
               /\ Total([x \in DOMAIN rows |-> Total(rows[x], Parts)], DOMAIN rows) = Tokens(S)
<1> DEFINE S == ResidualFacts(a, d)
           rows == ResidualUsageRows(a, d)
           h == [f \in S |-> LiveProjectKey(f)]
           K == {h[f] : f \in S}
           T(x) == {f \in S : LiveProjectKey(f) = x}
           sums == [x \in DOMAIN rows |-> Total(rows[x], Parts)]
<1>1. S \in SUBSET Facts
    BY DEF ResidualFacts, Confirmed, EvidenceInv
<1>2. DOMAIN rows = K /\ \A x \in K : rows[x] = [q \in Parts |-> SumFunction([f \in T(x) |-> f.usage[q]])]
    BY DEF ResidualUsageRows
<1>3. \A f \in S : LiveProjectKey(f) \in ProjectKeys
  <2> SUFFICES ASSUME NEW f \in S PROVE LiveProjectKey(f) \in ProjectKeys
    OBVIOUS
  <2>1. f.proj \in Projects \cup {NoProject}
    BY <1>1, EffectiveSourceAssumption DEF Fact
  <2> QED
    BY <2>1 DEF LiveProjectKey, ProjectKeys
<1>4. \A f \in S : h[f] = LiveProjectKey(f)
    OBVIOUS
<1>5. IsFiniteSet(S) /\ (\A f \in S : Weight[f] \in Nat) /\ Tokens(S) = Total(Weight, S)
    BY <1>1, TokensIsTotal
<1> HIDE DEF S, h, rows
<1>6. IsFiniteSet(K) /\ K \subseteq ProjectKeys
    BY <1>3, <1>4, <1>5, FiniteKeys
<1>7. IsFiniteSet(Parts)
    BY 1 \in Int, 5 \in Int, FS_Interval DEF Parts
<1>8. ASSUME NEW x \in K
      PROVE  /\ \A q \in Parts : rows[x][q] \in Nat
             /\ Total(rows[x], Parts) = Total(Weight, T(x))
  <2> DEFINE V == T(x)
             m == [f \in V |-> f.usage]
             c == rows[x]
  <2>1. V \in SUBSET Facts /\ V \in SUBSET S
    BY <1>1
  <2>2. IsFiniteSet(V)
    BY <1>5, <2>1, FS_Subset
  <2>3. \A f \in V : m[f] \in [Parts -> Nat] /\ m[f] = f.usage /\ Weight[f] = TotalOf(f.usage)
    BY <2>1, EffectiveSourceAssumption DEF Fact, Weight
  <2> HIDE DEF V, m
  <2>4. \A f \in V : \A q \in Parts : m[f][q] \in Nat
    BY <2>3
  <2>5. \A f \in V : Weight[f] = Total(m[f], Parts)
    <3> SUFFICES ASSUME NEW f \in V PROVE Weight[f] = Total(m[f], Parts)
      OBVIOUS
    <3>1. Weight[f] = SumFunction(m[f]) /\ DOMAIN m[f] = Parts
      BY <2>3 DEF TotalOf
    <3> QED
      BY <3>1, SumIsTotal
  <2>6. \A q \in Parts : c[q] = Total(Column(m, V, q), V)
    <3> SUFFICES ASSUME NEW q \in Parts PROVE c[q] = Total(Column(m, V, q), V)
      OBVIOUS
    <3>1. c[q] = SumFunction([f \in V |-> f.usage[q]])
      BY <1>2 DEF V
    <3>2. Column(m, V, q) = [f \in V |-> f.usage[q]]
      BY <2>3 DEF Column
    <3>3. DOMAIN Column(m, V, q) = V
      BY DEF Column
    <3> HIDE DEF c
    <3> QED
      BY <3>1, <3>2, <3>3, SumIsTotal
  <2>7. \A q \in Parts : c[q] \in Nat
    <3> SUFFICES ASSUME NEW q \in Parts PROVE c[q] \in Nat
      OBVIOUS
    <3> DEFINE u == Column(m, V, q)
    <3>1. \A f \in V : u[f] \in Nat
      BY <2>4 DEF Column
    <3>2. c[q] = Total(u, V)
      BY <2>6
    <3> HIDE DEF u, c
    <3> QED
      BY <2>2, <3>1, <3>2, TotalAdds
  <2> HIDE DEF c
  <2>8. IsTable(m, V, Parts, Weight, c)
    BY <2>4, <2>5, <2>6 DEF IsTable
  <2>9. Total(Weight, V) = Total(c, Parts)
    BY ONLY <1>7, <2>2, <2>8, TotalTable
  <2> QED
    BY <2>7, <2>9 DEF V, c
<1>9. AreFibers(sums, h, Weight, S, K)
  <2>1. h \in [S -> K]
    BY DEF h
  <2>2. ASSUME NEW x \in K PROVE sums[x] = Total(Weight, Fiber(h, S, x))
    <3>1. Fiber(h, S, x) = T(x)
      BY <1>4 DEF Fiber
    <3> QED
      BY <1>2, <1>8, <3>1
  <2> QED
    BY <2>1, <2>2 DEF AreFibers
<1> HIDE DEF sums, K
<1>10. Total(Weight, S) = Total(sums, K)
    BY <1>5, <1>6, <1>9, TotalFibers
<1> QED
    BY <1>2, <1>5, <1>6, <1>8, <1>10 DEF sums, S, rows

\* What the estimate gives to the rows of an account and day
LEMMA RowsAllocated ==
    ASSUME EvidenceInv, NEW a, NEW d, NEW residual \in Nat, residual <= LocalOn(<<a, d>>)
    PROVE  LET rows == ResidualUsageRows(a, d)
               shares == AllocateResidualComponents(rows, residual)
           IN  /\ DOMAIN shares = DOMAIN rows
               /\ \A x \in DOMAIN rows : \A q \in Parts : shares[x][q] \in Nat /\ shares[x][q] <= rows[x][q]
               /\ \A x \in DOMAIN rows : TotalOf(shares[x]) \in Nat
               /\ Total([x \in DOMAIN rows |-> TotalOf(shares[x])], DOMAIN rows) = residual
<1> DEFINE rows == ResidualUsageRows(a, d)
           X == DOMAIN rows
           Y == Parts
           w == [i \in X \X Y |-> rows[i[1]][i[2]]]
           target == Min({residual, SumFunction(w)})
           flat == LargestRemainderAllocate(w, target)
           shares == AllocateResidualComponents(rows, residual)
           sums == [x \in X |-> Total(rows[x], Y)]
           parts == [x \in X |-> TotalOf(shares[x])]
<1>1. /\ X \subseteq ProjectKeys /\ IsFiniteSet(X) /\ \A x \in X : \A q \in Y : rows[x][q] \in Nat
      /\ Total(sums, X) = LocalOn(<<a, d>>)
    BY RowsWhole DEF LocalOn
<1>2. X \in SUBSET Nat
    BY <1>1, ReconciliationAssumption DEF ProjectKeys
<1>3. IsFiniteSet(Y) /\ Y \in SUBSET Nat
  <2>1. IsFiniteSet(Parts)
    BY ONLY 1 \in Int, 5 \in Int, FS_Interval DEF Parts
  <2>2. Parts \in SUBSET Nat
    BY DEF Parts
  <2> QED
    BY <2>1, <2>2
<1>4. shares = [x \in X |-> [q \in Y |-> flat[<<x, q>>]]]
    BY DEF AllocateResidualComponents
<1> HIDE DEF shares, flat, rows
<1>5. \A x \in X : \A q \in Y : w[<<x, q>>] = rows[x][q]
    OBVIOUS
<1>6. \A i \in X \X Y : w[i] \in Nat
    BY <1>1
<1>7. \A x \in X : sums[x] = Total(rows[x], Y)
    OBVIOUS
<1>8. DOMAIN w = X \X Y
    OBVIOUS
<1> HIDE DEF X, Y, w, sums
<1>9. Total(w, X \X Y) = Total(sums, X)
  <2>1. LaysOut(w, rows, sums, X, Y)
    BY ONLY <1>1, <1>5, <1>7 DEF LaysOut
  <2> QED
    BY ONLY <1>1, <1>3, <2>1, TotalProduct
<1>10. SumFunction(w) = LocalOn(<<a, d>>)
    BY <1>1, <1>8, <1>9, SumIsTotal
<1>11. IsFiniteSet(X \X Y)
    BY <1>1, <1>3, FS_Product
<1>12. SumFunction(w) \in Nat
    BY <1>6, <1>8, <1>11, SumIsTotal, TotalAdds
<1>13. target = residual
    BY <1>10, <1>12, MinMaxOfTwo
<1>14. /\ Total(flat, X \X Y) = residual
       /\ \A i \in X \X Y : flat[i] \in Nat /\ flat[i] <= w[i]
  <2>1. residual \in 0 .. SumFunction(w)
    BY <1>10, <1>12
  <2>2. flat = LargestRemainderAllocate(w, residual)
    BY <1>13 DEF flat
  <2> QED
    <3>1. IsGrid(w, X, Y)
      BY ONLY <1>1, <1>2, <1>3, <1>6, <1>8 DEF IsGrid
    <3> DEFINE given == LargestRemainderAllocate(w, residual)
    <3>2. Total(given, X \X Y) = residual /\ \A i \in X \X Y : given[i] \in Nat /\ given[i] <= w[i]
      BY ONLY <2>1, <3>1, AllocationShares
    <3> QED
      BY <2>2, <3>2
<1>15. \A x \in X : \A q \in Y : shares[x][q] = flat[<<x, q>>] /\ shares[x][q] \in Nat /\ shares[x][q] <= rows[x][q]
    BY <1>4, <1>5, <1>14
<1>16. \A x \in X : TotalOf(shares[x]) = Total(shares[x], Y) /\ TotalOf(shares[x]) \in Nat
  <2> SUFFICES ASSUME NEW x \in X
               PROVE  TotalOf(shares[x]) = Total(shares[x], Y) /\ TotalOf(shares[x]) \in Nat
    OBVIOUS
  <2>1. shares[x] \in [Parts -> Nat] /\ DOMAIN shares[x] = Y
    BY <1>4, <1>15 DEF Y
  <2> QED
    BY <2>1, TotalOfType, SumIsTotal DEF TotalOf
<1>17. Total(parts, X) = residual
  <2>1. \A x \in X : parts[x] = Total(shares[x], Y)
    BY <1>16
  <2> HIDE DEF parts
  <2>2. Total(flat, X \X Y) = Total(parts, X)
    <3>1. LaysOut(flat, shares, parts, X, Y)
      BY ONLY <1>15, <2>1 DEF LaysOut
    <3> QED
      BY ONLY <1>1, <1>3, <3>1, TotalProduct
  <2> QED
    BY <1>14, <2>2
<1>18. DOMAIN shares = X
    BY <1>4
<1> QED
    BY <1>15, <1>16, <1>17, <1>18 DEF X, Y, rows, shares

EstimatedRows(k) == AllocateResidualComponents(ResidualUsageRows(k[1], k[2]), ResidualOn(k))

\* The account days of the estimate
LEMMA AlignedShares ==
    ASSUME EvidenceInv, OfficialOK, NEW b
    PROVE  /\ IsFiniteSet(AlignedDays(b))
           /\ IsFiniteSet(UNION {DOMAIN EstimatedRows(k) : k \in AlignedDays(b)})
           /\ \A k \in AlignedDays(b) :
                 LET rows == EstimatedRows(k)
                     full == ResidualUsageRows(k[1], k[2])
                 IN  /\ LocalOn(k) \in Nat /\ ResidualOn(k) \in Nat /\ Min({LocalOn(k), OfficialOn(k)}) \in Nat
                     /\ LocalOn(k) = ResidualOn(k) + Min({LocalOn(k), OfficialOn(k)})
                     /\ DOMAIN rows = DOMAIN full /\ IsFiniteSet(DOMAIN rows)
                     /\ \A x \in DOMAIN rows : TotalOf(rows[x]) \in Nat
                     /\ \A x \in DOMAIN rows : \A q \in Parts : rows[x][q] <= full[x][q]
                     /\ Total([x \in DOMAIN rows |-> TotalOf(rows[x])], DOMAIN rows) = ResidualOn(k)
<1> DEFINE K == AlignedDays(b)
<1>1. K \in SUBSET (OfficialAccounts \X Days) /\ \A k \in K : k[2] \in DOMAIN BucketsOf(k[1])
    BY DEF AlignedDays
<1>2. IsFiniteSet(K)
  <2>1. IsFiniteSet(OfficialAccounts)
    BY ReconciliationAssumption, FS_Subset DEF OfficialOK, OfficialAccounts
  <2>2. IsFiniteSet(Days)
    <3>1. Day(MaxTime) \in Int
      BY EffectiveSourceAssumption, RoundsDown DEF Day
    <3> QED
      BY <3>1, FS_Interval DEF Days
  <2>3. IsFiniteSet(OfficialAccounts \X Days)
    BY <2>1, <2>2, FS_Product
  <2> HIDE DEF K
  <2> QED
    BY <1>1, <2>3, FS_Subset
<1>3. ASSUME NEW k \in K
      PROVE  /\ k = <<k[1], k[2]>> /\ LocalOn(k) \in Nat /\ OfficialOn(k) \in Nat
             /\ ResidualOn(k) \in Nat /\ ResidualOn(k) <= LocalOn(k) /\ Min({LocalOn(k), OfficialOn(k)}) \in Nat
             /\ LocalOn(k) = ResidualOn(k) + Min({LocalOn(k), OfficialOn(k)})
  <2>1. k \in OfficialAccounts \X Days
    BY <1>1
  <2>2. k = <<k[1], k[2]>> /\ k[1] \in OfficialAccounts
    BY ONLY <2>1
  <2>3. OfficialOn(k) \in Nat
    BY <1>1, <2>2 DEF OfficialOn, BucketsOf, OfficialOK, OfficialAccounts
  <2>4. LocalOn(k) \in Nat
    <3> DEFINE S == ResidualFacts(k[1], k[2])
    <3>1. S \in SUBSET Facts
      BY DEF ResidualFacts, Confirmed, EvidenceInv
    <3> HIDE DEF S
    <3>2. Tokens(S) \in Nat
      BY <3>1, TokensIsTotal, TotalGrows
    <3> QED
      BY <3>2 DEF LocalOn, S
  <2>5. Min({LocalOn(k), OfficialOn(k)}) = IF LocalOn(k) <= OfficialOn(k) THEN LocalOn(k) ELSE OfficialOn(k)
    BY <2>3, <2>4, MinMaxOfTwo
  <2> QED
    BY <2>2, <2>3, <2>4, <2>5 DEF ResidualOn
<1>4. ASSUME NEW k \in K
      PROVE  LET rows == EstimatedRows(k)
                 full == ResidualUsageRows(k[1], k[2])
             IN  /\ DOMAIN rows = DOMAIN full /\ IsFiniteSet(DOMAIN rows)
                 /\ \A x \in DOMAIN rows : TotalOf(rows[x]) \in Nat
                 /\ \A x \in DOMAIN rows : \A q \in Parts : rows[x][q] <= full[x][q]
                 /\ Total([x \in DOMAIN rows |-> TotalOf(rows[x])], DOMAIN rows) = ResidualOn(k)
  <2> DEFINE a == k[1]
             d == k[2]
             r == ResidualOn(k)
             full == ResidualUsageRows(a, d)
             rows == AllocateResidualComponents(full, r)
  <2>1. r \in Nat /\ r <= LocalOn(<<a, d>>)
    BY <1>3
  <2> HIDE DEF a, d, r
  <2>2. IsFiniteSet(DOMAIN full)
    BY RowsWhole
  <2>3. /\ DOMAIN rows = DOMAIN full
        /\ \A x \in DOMAIN full : \A q \in Parts : rows[x][q] <= full[x][q]
        /\ \A x \in DOMAIN full : TotalOf(rows[x]) \in Nat
        /\ Total([x \in DOMAIN full |-> TotalOf(rows[x])], DOMAIN full) = r
    BY <2>1, RowsAllocated
  <2> QED
    BY <2>2, <2>3 DEF EstimatedRows, a, d, r
<1>5. IsFiniteSet(UNION {DOMAIN EstimatedRows(k) : k \in K})
  <2> DEFINE g == [f \in Facts |-> LiveProjectKey(f)]
             P == {g[f] : f \in Facts}
  <2>1. IsFiniteSet(P)
    <3> HIDE DEF g
    <3> QED
      BY EffectiveSourceAssumption, FiniteKeys
  <2>2. ASSUME NEW k \in K, NEW x \in DOMAIN EstimatedRows(k) PROVE x \in P
    <3>1. x \in DOMAIN ResidualUsageRows(k[1], k[2])
      BY <1>4, <2>2
    <3>2. PICK f \in ResidualFacts(k[1], k[2]) : x = LiveProjectKey(f)
      BY <3>1 DEF ResidualUsageRows
    <3>3. f \in Facts
      BY DEF ResidualFacts, Confirmed, EvidenceInv
    <3> QED
      BY <3>2, <3>3
  <2> HIDE DEF P, K
  <2>3. UNION {DOMAIN EstimatedRows(k) : k \in K} \in SUBSET P
    BY <2>2
  <2> QED
    BY <2>1, <2>3, FS_Subset
<1> QED
    BY <1>2, <1>3, <1>4, <1>5

\* The estimate by day and by project
LEMMA EstimateAddsUp ==
    ASSUME EvidenceInv, OfficialOK, NEW b
    PROVE  LET e == MissingAccountEstimate(b)
           IN  /\ e.total = e.raw /\ e.raw + e.capped = e.local
               /\ SumFunction(e.byDay) = e.total /\ SumFunction(e.byProject) = e.total
<1> DEFINE K == AlignedDays(b)
           rows(k) == EstimatedRows(k)
           P == UNION {DOMAIN rows(k) : k \in K}
           part(k) == [x \in DOMAIN rows(k) |-> TotalOf(rows(k)[x])]
           v == [k \in K |-> ResidualOn(k)]
           local == [k \in K |-> LocalOn(k)]
           capped == [k \in K |-> Min({LocalOn(k), OfficialOn(k)})]
           all(k) == [x \in DOMAIN rows(k) |-> IF TRUE THEN TotalOf(rows(k)[x]) ELSE 0]
           ofDay(d, k) == [x \in DOMAIN rows(k) |-> IF k[2] = d THEN TotalOf(rows(k)[x]) ELSE 0]
           ofProject(p, k) == [x \in DOMAIN rows(k) |-> IF x = p THEN TotalOf(rows(k)[x]) ELSE 0]
           total == [k \in K |-> SumFunction(all(k))]
           day(d) == [k \in K |-> SumFunction(ofDay(d, k))]
           project(p) == [k \in K |-> SumFunction(ofProject(p, k))]
           D == {k[2] : k \in K}
           byDay == [d \in D |-> SumFunction(day(d))]
           byProject == [p \in P |-> SumFunction(project(p))]
           e == MissingAccountEstimate(b)
<1>1. /\ e.raw = SumFunction(v) /\ e.local = SumFunction(local) /\ e.capped = SumFunction(capped)
      /\ e.total = SumFunction(total) /\ e.byDay = byDay /\ e.byProject = byProject
    BY DEF MissingAccountEstimate, EstimatedRows
<1>2. IsFiniteSet(K) /\ IsFiniteSet(P)
    BY AlignedShares
<1>3. \A k \in K : /\ local[k] \in Nat /\ v[k] \in Nat /\ capped[k] \in Nat /\ local[k] = v[k] + capped[k]
                   /\ v[k] = ResidualOn(k)
    BY AlignedShares
<1>4. \A k \in K : /\ IsFiniteSet(DOMAIN rows(k)) /\ DOMAIN rows(k) \subseteq P
                   /\ \A x \in DOMAIN rows(k) : part(k)[x] \in Nat
                   /\ Total(part(k), DOMAIN rows(k)) = v[k]
    BY AlignedShares
<1>5. \A d : \A k \in K : Total(ofDay(d, k), DOMAIN rows(k)) = IF k[2] = d THEN v[k] ELSE 0
  <2> SUFFICES ASSUME NEW d, NEW k \in K
               PROVE  Total(ofDay(d, k), DOMAIN rows(k)) = IF k[2] = d THEN v[k] ELSE 0
    OBVIOUS
  <2> DEFINE X == DOMAIN rows(k)
             u == ofDay(d, k)
             w == part(k)
  <2>1. \A x \in X : u[x] = IF k[2] = d THEN w[x] ELSE 0
    OBVIOUS
  <2>2. IsFiniteSet(X) /\ Total(w, X) = v[k]
    BY <1>4
  <2> HIDE DEF u, w, X
  <2>3. CASE k[2] = d
    <3>1. \A x \in X : u[x] = w[x]
      BY <2>1, <2>3
    <3>2. Total(u, X) = Total(w, X)
      BY ONLY <2>2, <3>1, TotalSame
    <3> QED
      BY <2>2, <2>3, <3>2 DEF u, X
  <2>4. CASE k[2] # d
    <3>1. \A x \in X : u[x] = 0
      BY <2>1, <2>4
    <3>2. Total(u, X) = 0
      BY ONLY <2>2, <3>1, TotalZero
    <3> QED
      BY <2>4, <3>2 DEF u, X
  <2> QED
    BY <2>3, <2>4
<1>6. \A k \in K : total[k] = v[k]
  <2> SUFFICES ASSUME NEW k \in K PROVE total[k] = v[k]
    OBVIOUS
  <2>1. all(k) = part(k) /\ DOMAIN part(k) = DOMAIN rows(k)
    OBVIOUS
  <2>2. total[k] = SumFunction(part(k))
    BY <2>1
  <2>3. SumFunction(part(k)) = Total(part(k), DOMAIN rows(k))
    BY ONLY <2>1, SumIsTotal
  <2> QED
    BY <1>4, <2>2, <2>3
<1>7. \A p \in P, k \in K :
         project(p)[k] = IF p \in DOMAIN rows(k) THEN part(k)[p] ELSE 0
  <2> SUFFICES ASSUME NEW p \in P, NEW k \in K
               PROVE  project(p)[k] = IF p \in DOMAIN rows(k) THEN part(k)[p] ELSE 0
    OBVIOUS
  <2> DEFINE X == DOMAIN rows(k)
             u == ofProject(p, k)
             w == part(k)
  <2>1. \A x \in X : u[x] = IF x = p THEN w[x] ELSE 0
    OBVIOUS
  <2>2. IsFiniteSet(X) /\ \A x \in X : w[x] \in Nat
    BY <1>4
  <2>3. DOMAIN u = X
    OBVIOUS
  <2>4. project(p)[k] = SumFunction(u)
    OBVIOUS
  <2>5. project(p)[k] = Total(u, X)
    <3> HIDE DEF u
    <3> QED
      BY <2>3, <2>4, SumIsTotal
  <2> HIDE DEF u, w, X
  <2>6. CASE p \in X
    <3> DEFINE R == {p}
    <3>1. R \in SUBSET X /\ (\A x \in R : w[x] \in Nat /\ u[x] = w[x]) /\ (\A x \in X \ R : u[x] = 0)
      BY <2>1, <2>2, <2>6
    <3>2. Total(u, X) = Total(w, R)
      <4> HIDE DEF R
      <4> QED
        BY ONLY <2>2, <3>1, TotalPart
    <3>3. Total(w, R) = w[p]
      BY <2>2, <2>6, TotalOfOne
    <3> QED
      BY <2>5, <2>6, <3>2, <3>3 DEF X, w
  <2>7. CASE p \notin X
    <3>1. \A x \in X : u[x] = 0
      BY <2>1, <2>7
    <3>2. Total(u, X) = 0
      BY ONLY <2>2, <3>1, TotalZero
    <3> QED
      BY <2>5, <2>7, <3>2 DEF X
  <2> QED
    BY <2>6, <2>7
<1>8. \A d : \A k \in K : day(d)[k] = IF k[2] = d THEN v[k] ELSE 0
  <2> SUFFICES ASSUME NEW k \in K, NEW d PROVE day(d)[k] = IF k[2] = d THEN v[k] ELSE 0
    OBVIOUS
  <2> DEFINE u == ofDay(d, k)
  <2>1. day(d)[k] = SumFunction(u) /\ DOMAIN u = DOMAIN rows(k)
    OBVIOUS
  <2>2. SumFunction(u) = Total(u, DOMAIN rows(k))
    <3> HIDE DEF u
    <3> QED
      BY <2>1, SumIsTotal
  <2> QED
    BY <1>5, <2>1, <2>2
<1>9. /\ SumFunction(v) = Total(v, K) /\ SumFunction(local) = Total(local, K)
      /\ SumFunction(capped) = Total(capped, K) /\ SumFunction(total) = Total(total, K)
      /\ SumFunction(byDay) = Total(byDay, D) /\ SumFunction(byProject) = Total(byProject, P)
    BY SumIsTotal
<1>10. \A d \in D : byDay[d] = Total(day(d), K)
    BY SumIsTotal
<1>11. \A p \in P : byProject[p] = Total(project(p), K)
    BY SumIsTotal
<1>12. Total(total, K) = Total(v, K)
  <2> HIDE DEF total, v, K
  <2> QED
    BY <1>2, <1>6, TotalSame
<1>13. Total(local, K) = Total(v, K) + Total(capped, K)
  <2>1. \A k \in K : v[k] \in Nat /\ capped[k] \in Nat /\ local[k] = v[k] + capped[k]
    BY <1>3
  <2> HIDE DEF v, local, capped, K
  <2> QED
    BY ONLY <1>2, <2>1, TotalPlus
<1>14. Total(v, K) = Total(byDay, D)
  <2> DEFINE h == [k \in K |-> k[2]]
  <2>1. h \in [K -> D] /\ \A k \in K : h[k] = k[2]
    OBVIOUS
  <2>2. IsFiniteSet(D)
    <3>1. D = {h[k] : k \in K}
      OBVIOUS
    <3> HIDE DEF h, K, D
    <3> QED
      BY <1>2, <3>1, FiniteKeys
  <2>3. ASSUME NEW d \in D PROVE byDay[d] = Total(v, Fiber(h, K, d))
    <3> DEFINE u == day(d)
               R == Fiber(h, K, d)
    <3>1. R \in SUBSET K /\ \A k \in K : k \in R <=> k[2] = d
      BY <2>1 DEF Fiber
    <3>2. \A k \in R : v[k] \in Nat /\ u[k] = v[k]
      BY <1>3, <1>8, <3>1
    <3>3. \A k \in K \ R : u[k] = 0
      BY <1>8, <3>1
    <3>4. byDay[d] = Total(u, K)
      BY <1>10
    <3> HIDE DEF u, R, v, K
    <3>5. Total(u, K) = Total(v, R)
      BY ONLY <1>2, <3>1, <3>2, <3>3, TotalPart
    <3> QED
      BY <3>4, <3>5 DEF R
  <2> HIDE DEF h, byDay, D
  <2>4. AreFibers(byDay, h, v, K, D)
    BY <2>1, <2>3 DEF AreFibers
  <2>5. \A k \in K : v[k] \in Nat
    BY <1>3
  <2> HIDE DEF v, K
  <2> QED
    BY ONLY <1>2, <2>2, <2>4, <2>5, TotalFibers
<1>15. Total(v, K) = Total(byProject, P)
  <2> DEFINE m == [k \in K |-> [p \in P |-> IF p \in DOMAIN rows(k) THEN part(k)[p] ELSE 0]]
  <2>1. ASSUME NEW k \in K
        PROVE  (\A p \in P : m[k][p] \in Nat) /\ v[k] = Total(m[k], P)
    <3> DEFINE X == DOMAIN rows(k)
               u == m[k]
               w == part(k)
    <3>1. \A p \in P : u[p] = IF p \in X THEN w[p] ELSE 0
      OBVIOUS
    <3>2. IsFiniteSet(X) /\ X \in SUBSET P /\ (\A x \in X : w[x] \in Nat) /\ Total(w, X) = v[k]
      BY <1>4
    <3> HIDE DEF u, w, X, P
    <3>3. \A p \in P : u[p] \in Nat
      BY <3>1, <3>2
    <3>4. (\A x \in X : w[x] \in Nat /\ u[x] = w[x]) /\ \A x \in P \ X : u[x] = 0
      BY <3>1, <3>2
    <3>5. Total(u, P) = Total(w, X)
      BY ONLY <1>2, <3>2, <3>4, TotalPart
    <3> QED
      BY <3>2, <3>3, <3>5 DEF u
  <2>2. ASSUME NEW p \in P PROVE byProject[p] = Total(Column(m, K, p), K)
    <3> DEFINE u == Column(m, K, p)
               c == project(p)
    <3>1. \A k \in K : u[k] = c[k]
      BY <1>7 DEF Column
    <3>2. byProject[p] = Total(c, K)
      BY <1>11
    <3> HIDE DEF u, c, K
    <3>3. Total(u, K) = Total(c, K)
      BY ONLY <1>2, <3>1, TotalSame
    <3> QED
      BY <3>2, <3>3 DEF u
  <2> HIDE DEF m, v, byProject, P, K
  <2>3. IsTable(m, K, P, v, byProject)
    BY ONLY <2>1, <2>2 DEF IsTable
  <2> QED
    BY ONLY <1>2, <2>3, TotalTable
<1> HIDE DEF e, v, local, capped, total, byDay, byProject, K, P, D
<1>16. Total(v, K) \in Nat /\ Total(capped, K) \in Nat
    BY <1>2, <1>3, TotalAdds
<1>17. /\ e.total = e.raw /\ e.raw + e.capped = e.local
       /\ SumFunction(e.byDay) = e.total /\ SumFunction(e.byProject) = e.total
    BY ONLY <1>1, <1>9, <1>12, <1>13, <1>14, <1>15, <1>16
<1> QED
    BY <1>17 DEF e

\* ResidualConserved: what the estimate for accounts not yet captured gives out, by
\* day and by project, is what local usage has beyond the official numbers of its
\* accounts, and no part of a project's usage is estimated above what it has.
THEOREM ResidualConservedHolds == Spec => []ResidualConserved
<1>1. ASSUME TypeInv PROVE ResidualConserved
  <2> SUFFICES ASSUME NEW label \in PeriodLabels
               PROVE  LET b == Bounds(Period(label))
                          e == MissingAccountEstimate(b)
                      IN  /\ e.total = e.raw /\ e.raw + e.capped = e.local
                          /\ SumFunction(e.byDay) = e.total /\ SumFunction(e.byProject) = e.total
                          /\ \A k \in AlignedDays(b) :
                                LET rows   == ResidualUsageRows(k[1], k[2])
                                    shares == AllocateResidualComponents(rows, ResidualOn(k))
                                IN  \A x \in DOMAIN rows, q \in Parts : shares[x][q] <= rows[x][q]
    BY DEF ResidualConserved
  <2>1. EvidenceInv /\ OfficialOK
    BY <1>1 DEF TypeInv
  <2> DEFINE b == Bounds(Period(label))
             e == MissingAccountEstimate(b)
  <2> HIDE DEF b
  <2>2. /\ e.total = e.raw /\ e.raw + e.capped = e.local
        /\ SumFunction(e.byDay) = e.total /\ SumFunction(e.byProject) = e.total
    BY <2>1, EstimateAddsUp
  <2>3. ASSUME NEW k \in AlignedDays(b), NEW x \in DOMAIN ResidualUsageRows(k[1], k[2]), NEW q \in Parts
        PROVE  EstimatedRows(k)[x][q] <= ResidualUsageRows(k[1], k[2])[x][q]
    BY <2>1, AlignedShares
  <2> HIDE DEF e
  <2> QED
    BY <2>2, <2>3 DEF EstimatedRows, b, e
<1> QED
    BY <1>1, TypeInvariance, PTL

-----------------------------------------------------------------------------
(* Session trees: the list reads the memberships, the detail walks the     *)
(* catalog.                                                                *)

\* Who descends from a set without being in it has a parent one step nearer.
LEMMA ParentDescends ==
    ASSUME NEW cat, NEW S, NEW N \in Nat, NEW t \in Descendants(cat, S, N), t \notin S
    PROVE  N # 0 /\ N - 1 \in Nat /\ t \in DOMAIN cat /\ cat[t].parent \in Descendants(cat, S, N - 1)
<1> DEFINE D == [k \in Nat |-> Descendants(cat, S, k)]
           A == {k \in Nat : \A x \in D[k + 1] : x \in S \/ (x \in DOMAIN cat /\ cat[x].parent \in D[k])}
<1>1. D[0] = S
    BY DescendantsStep, 0 \in Nat
<1>2. \A k \in Nat : D[k + 1] = D[k] \cup {x \in DOMAIN cat : cat[x].parent \in D[k]}
    BY DescendantsStep
<1>3. t \in D[N]
    OBVIOUS
<1> HIDE DEF D
<1>4. 0 \in A
  <2>1. D[0 + 1] = D[0] \cup {x \in DOMAIN cat : cat[x].parent \in D[0]}
    BY <1>2, 0 \in Nat
  <2>2. \A x \in D[0 + 1] : x \in S \/ (x \in DOMAIN cat /\ cat[x].parent \in D[0])
    BY <1>1, <2>1
  <2> QED
    BY <2>2
<1>5. ASSUME NEW k \in Nat, k \in A PROVE k + 1 \in A
  <2> DEFINE m == k + 1
  <2>1. m \in Nat /\ D[m] = D[k] \cup {x \in DOMAIN cat : cat[x].parent \in D[k]}
    BY <1>2
  <2>2. D[m + 1] = D[m] \cup {x \in DOMAIN cat : cat[x].parent \in D[m]}
    BY <1>2, <2>1
  <2>3. \A x \in D[m] : x \in S \/ (x \in DOMAIN cat /\ cat[x].parent \in D[k])
    BY <1>5
  <2> HIDE DEF m
  <2>4. \A x \in D[m + 1] : x \in S \/ (x \in DOMAIN cat /\ cat[x].parent \in D[m])
    BY <2>1, <2>2, <2>3
  <2>5. m \in A
    BY <2>1, <2>4
  <2> QED
    BY <2>5 DEF m
<1> HIDE DEF A
<1>6. N # 0
    BY <1>1, <1>3
<1> DEFINE n == N - 1
<1>7. n \in Nat /\ n + 1 = N
    BY <1>6
<1> HIDE DEF n
<1>8. n \in A
    BY <1>4, <1>5, <1>7, SetInduction
<1>9. t \in DOMAIN cat /\ cat[t].parent \in D[n]
    BY <1>3, <1>7, <1>8 DEF A
<1> QED
    BY <1>6, <1>7, <1>9 DEF D, n

\* A tree holds known threads, and its root first of all.
LEMMA TreeHoldsThreads ==
    ASSUME NEW cat, IsCatalog(cat), NEW r \in Roots(cat)
    PROVE  /\ SessionTree(cat, r) \subseteq DOMAIN cat /\ DOMAIN cat \subseteq Threads
           /\ r \in SessionTree(cat, r) /\ cat[r].parent \notin Threads
           /\ IsFiniteSet(SessionTree(cat, r))
<1>1. TreeDepth \in Nat /\ IsFiniteSet(Threads) /\ NoParent \notin Threads
    BY EffectiveSourceAssumption
<1>2. r \in DOMAIN cat /\ cat[r].parent = NoParent /\ DOMAIN cat \subseteq Threads
    BY DEF Roots, IsCatalog
<1>3. \A t \in SessionTree(cat, r) : t \in {r} \cup DOMAIN cat
    BY <1>1, DescendsFromOne DEF SessionTree
<1>4. {r} \subseteq SessionTree(cat, r)
  <2>1. Descendants(cat, {r}, 0) = {r}
    BY DescendantsStep, 0 \in Nat
  <2>2. 0 \in Nat /\ 0 <= TreeDepth
    BY <1>1
  <2>3. Descendants(cat, {r}, 0) \subseteq Descendants(cat, {r}, TreeDepth)
    BY <1>1, <2>2, DescendantsGrow
  <2> QED
    BY <2>1, <2>3 DEF SessionTree
<1>5. SessionTree(cat, r) \subseteq Threads
    BY <1>2, <1>3
<1>6. IsFiniteSet(SessionTree(cat, r))
    BY <1>1, <1>5, FS_Subset
<1> QED
    BY <1>1, <1>2, <1>3, <1>4, <1>6

\* No thread is in the trees of two roots.
LEMMA OneRoot ==
    ASSUME NEW cat, IsCatalog(cat), NEW r \in Roots(cat), NEW s \in Roots(cat),
           NEW t \in SessionTree(cat, r), t \in SessionTree(cat, s)
    PROVE  r = s
<1> DEFINE N == TreeDepth
           E == SessionTree(cat, s)
           D == [k \in Nat |-> Descendants(cat, {r}, k)]
           A == {k \in Nat : \A x \in D[k] : x \in E => r = s}
<1>1. N \in Nat
    BY EffectiveSourceAssumption
<1>2. /\ E \subseteq Threads /\ cat[s].parent \notin Threads /\ cat[r].parent \notin Threads
      /\ r \in DOMAIN cat /\ DOMAIN cat \subseteq Threads
    BY TreeHoldsThreads
<1>3. \A x \in E : x # s => cat[x].parent \in E
  <2> SUFFICES ASSUME NEW x \in E, x # s PROVE cat[x].parent \in E
    OBVIOUS
  <2>1. x \in Descendants(cat, {s}, N) /\ x \notin {s}
    BY DEF SessionTree
  <2>2. N # 0 /\ N - 1 \in Nat /\ cat[x].parent \in Descendants(cat, {s}, N - 1)
    BY <1>1, <2>1, ParentDescends
  <2>3. N - 1 <= N
    BY <1>1
  <2>4. Descendants(cat, {s}, N - 1) \subseteq Descendants(cat, {s}, N)
    BY <1>1, <2>2, <2>3, DescendantsGrow
  <2> QED
    BY <2>2, <2>4 DEF SessionTree
<1>4. D[0] = {r} /\ \A k \in Nat : D[k + 1] = D[k] \cup {x \in DOMAIN cat : cat[x].parent \in D[k]}
    BY DescendantsStep, 0 \in Nat
<1>5. \A k \in Nat : D[k] \subseteq Threads
  <2>1. \A k \in Nat : \A x \in Descendants(cat, {r}, k) : x \in {r} \cup DOMAIN cat
    BY DescendsFromOne
  <2> QED
    BY <1>2, <2>1
<1>6. t \in D[N] /\ t \in E
    BY <1>1 DEF SessionTree
<1> HIDE DEF D, E
<1>7. 0 \in A
  <2>1. r \in E => r = s
    BY <1>2, <1>3
  <2> QED
    BY <1>4, <2>1
<1>8. ASSUME NEW k \in Nat, k \in A PROVE k + 1 \in A
  <2>1. \A x \in D[k] : x \in E => r = s
    BY <1>8
  <2>2. ASSUME NEW x \in DOMAIN cat, cat[x].parent \in D[k], x \in E PROVE r = s
    <3>1. x # s
      BY <1>2, <1>5, <2>2
    <3>2. cat[x].parent \in E
      BY <1>3, <2>2, <3>1
    <3> QED
      BY <2>1, <2>2, <3>2
  <2>3. \A x \in D[k + 1] : x \in E => r = s
    BY <1>4, <2>1, <2>2
  <2> QED
    BY <2>3
<1> HIDE DEF A
<1>9. N \in A
    BY <1>1, <1>7, <1>8, SetInduction
<1> QED
    BY <1>6, <1>9 DEF A

\* With fresh memberships, the list and the detail see the same tree.
LEMMA TreesAreMembers ==
    ASSUME IsCatalog(catalog), rootOf = RootMembership(catalog)
    PROVE  /\ \A r \in Roots(catalog) : TreeOf(r) = SessionTree(catalog, r)
           /\ \A t \in DOMAIN rootOf : rootOf[t] \in Roots(catalog)
<1> DEFINE R == Roots(catalog)
           Its(t) == CHOOSE r \in R : t \in SessionTree(catalog, r)
<1>1. TreeDepth \in Nat
    BY EffectiveSourceAssumption
<1>2. DOMAIN rootOf = Descendants(catalog, R, TreeDepth) /\ \A t \in DOMAIN rootOf : rootOf[t] = Its(t)
    BY DEF RootMembership
<1>3. \A t \in DOMAIN rootOf : \E r \in R : t \in SessionTree(catalog, r)
    BY <1>1, <1>2, DescendsFromOne DEF SessionTree
<1>4. \A t \in DOMAIN rootOf : rootOf[t] \in R /\ t \in SessionTree(catalog, rootOf[t])
    BY <1>2, <1>3
<1>5. \A r \in R : SessionTree(catalog, r) \subseteq DOMAIN rootOf
  <2>1. TreeDepth <= TreeDepth
    BY <1>1
  <2> HIDE DEF R, Its
  <2>2. \A r \in R : Descendants(catalog, {r}, TreeDepth) \subseteq Descendants(catalog, R, TreeDepth)
    BY <1>1, <2>1, DescendantsGrow
  <2> QED
    BY <1>2, <2>2 DEF SessionTree
<1> HIDE DEF R, Its
<1>6. \A r \in R : \A t \in SessionTree(catalog, r) : rootOf[t] = r
    BY <1>4, <1>5, OneRoot DEF R
<1>7. \A r \in R : TreeOf(r) = SessionTree(catalog, r)
    BY <1>4, <1>5, <1>6 DEF TreeOf
<1> QED
    BY <1>4, <1>7 DEF R

\* Every thread of a tree but its root is one deeper, at least, than its parent.
LEMMA DepthsGrow ==
    ASSUME IsCatalog(catalog), NEW r \in Roots(catalog)
    PROVE  LET X == SessionTree(catalog, r)
           IN  /\ \A t \in X : RelativeDepth(r, t) \in 0 .. TreeDepth
               /\ \A t \in X : t # r => /\ catalog[t].parent \in X
                                        /\ RelativeDepth(r, catalog[t].parent) < RelativeDepth(r, t)
<1> DEFINE X == SessionTree(catalog, r)
           N == TreeDepth
           D == [k \in Nat |-> Descendants(catalog, {r}, k)]
           At(t) == {n \in 0 .. N : t \in D[n]}
<1>1. N \in Nat
    BY EffectiveSourceAssumption
<1>2. X = D[N]
    BY <1>1 DEF SessionTree
<1>3. \A t : RelativeDepth(r, t) = CHOOSE n \in At(t) : \A m \in At(t) : n <= m
  <2>1. \A t : At(t) = {n \in 0 .. N : t \in Descendants(catalog, {r}, n)}
    BY <1>1
  <2> QED
    BY <2>1 DEF RelativeDepth, Min
<1>4. \A t \in X : RelativeDepth(r, t) \in At(t) /\ \A m \in At(t) : RelativeDepth(r, t) <= m
  <2> SUFFICES ASSUME NEW t \in X PROVE RelativeDepth(r, t) \in At(t) /\ \A m \in At(t) : RelativeDepth(r, t) <= m
    OBVIOUS
  <2>1. N \in At(t) /\ At(t) \subseteq Nat
    BY <1>1, <1>2
  <2>2. RelativeDepth(r, t) = CHOOSE n \in At(t) : \A m \in At(t) : n <= m
    BY <1>3
  <2> HIDE DEF At
  <2>3. \E n \in At(t) : \A m \in At(t) : n <= m
    BY <2>1, LeastElement
  <2> QED
    BY <2>2, <2>3
<1>5. ASSUME NEW t \in X, t # r
      PROVE  catalog[t].parent \in X /\ RelativeDepth(r, catalog[t].parent) < RelativeDepth(r, t)
  <2> DEFINE n == RelativeDepth(r, t)
             u == catalog[t].parent
  <2>1. n \in 0 .. N /\ n \in Nat /\ t \in Descendants(catalog, {r}, n)
    <3>1. n \in At(t)
      BY <1>4, <1>5
    <3> HIDE DEF n
    <3>2. n \in 0 .. N /\ t \in D[n]
      BY <3>1
    <3> QED
      BY <1>1, <3>2
  <2> HIDE DEF n, u
  <2>2. n # 0 /\ n - 1 \in Nat /\ u \in Descendants(catalog, {r}, n - 1)
    <3>1. t \notin {r}
      BY <1>5
    <3> QED
      BY <2>1, <3>1, ParentDescends DEF u
  <2>3. n - 1 \in 0 .. N /\ n - 1 <= N /\ n - 1 < n
    BY <1>1, <2>1, <2>2
  <2>4. u \in D[n - 1] /\ n - 1 \in At(u)
    BY <2>2, <2>3
  <2>5. u \in X
    <3>1. Descendants(catalog, {r}, n - 1) \subseteq Descendants(catalog, {r}, N)
      BY <1>1, <2>2, <2>3, DescendantsGrow
    <3> QED
      BY <2>2, <3>1 DEF SessionTree
  <2>6. RelativeDepth(r, u) <= n - 1 /\ RelativeDepth(r, u) \in 0 .. N
    BY <1>4, <2>4, <2>5
  <2>7. RelativeDepth(r, u) < n
    BY <1>1, <2>1, <2>6
  <2> QED
    BY <2>5, <2>7 DEF n, u
<1> QED
    BY <1>4, <1>5

\* A tree: a root, and every other element less deep than its parent.
IsTree(X, r, up, dep, N) ==
    /\ IsFiniteSet(X) /\ r \in X /\ up[r] \notin X
    /\ \A t \in X : dep[t] \in 0 .. N
    /\ \A t \in X : t # r => up[t] \in X /\ dep[up[t]] < dep[t]

\* The elements that are still to be gathered after i levels, the deepest first
Remaining(X, r, dep, N, i) == {t \in X : t = r \/ dep[t] < N + 1 - i}

\* v is w after the elements of depth d have added what they have to their parents.
Gathers(v, w, X, up, dep, d) ==
    \A t \in X : v[t] = w[t] + Total(w, {c \in X : up[c] = t /\ dep[c] = d})

\* A level gathers to its parents: nothing is lost of what remains.
LEMMA LevelGathers ==
    ASSUME NEW X, NEW r, NEW up, NEW dep, NEW N \in Nat, IsTree(X, r, up, dep, N),
           NEW i \in Nat, i # 0, NEW w, \A t \in X : w[t] \in Nat, NEW v,
           Gathers(v, w, X, up, dep, N + 1 - i)
    PROVE  /\ \A t \in X : v[t] \in Nat
           /\ Total(v, Remaining(X, r, dep, N, i)) = Total(w, Remaining(X, r, dep, N, i - 1))
<1> DEFINE d == N + 1 - i
           L == {t \in X : t # r /\ dep[t] = d}
           K == Remaining(X, r, dep, N, i)
           O == Remaining(X, r, dep, N, i - 1)
           h == [c \in L |-> up[c]]
           fib == [t \in X |-> Total(w, {c \in X : up[c] = t /\ dep[c] = d})]
<1>1. /\ IsFiniteSet(X) /\ r \in X /\ up[r] \notin X
      /\ \A t \in X : dep[t] \in 0 .. N
      /\ \A t \in X : t # r => up[t] \in X /\ dep[up[t]] < dep[t]
    BY DEF IsTree
<1>2. d \in Int /\ N + 1 - (i - 1) = d + 1
    OBVIOUS
<1>3. K = {t \in X : t = r \/ dep[t] < d} /\ O = {t \in X : t = r \/ dep[t] < d + 1}
    BY <1>2 DEF Remaining
<1>4. L \subseteq X /\ K \subseteq X /\ K \cap L = {} /\ O = K \cup L
  <2>1. \A t \in X : dep[t] < d + 1 <=> dep[t] < d \/ dep[t] = d
    BY <1>1, <1>2
  <2>2. \A t \in X : ~(dep[t] < d /\ dep[t] = d)
    BY <1>1, <1>2
  <2> HIDE DEF d, K, O
  <2> QED
    BY <1>3, <2>1, <2>2
<1>5. IsFiniteSet(L) /\ IsFiniteSet(K)
    BY <1>1, <1>4, FS_Subset
<1>6. h \in [L -> K]
  <2> SUFFICES ASSUME NEW c \in L PROVE up[c] \in K
    OBVIOUS
  <2>1. up[c] \in X /\ dep[up[c]] < dep[c] /\ dep[c] = d
    BY <1>1
  <2> HIDE DEF d, K, L
  <2> QED
    BY <1>3, <2>1
<1>7. ASSUME NEW t \in X PROVE Fiber(h, L, t) = {c \in X : up[c] = t /\ dep[c] = d}
  <2>1. \A c \in X : up[c] = t => c # r
    BY <1>1
  <2> QED
    BY <2>1 DEF Fiber
<1>8. ASSUME NEW t \in X PROVE fib[t] \in Nat /\ fib[t] = Total(w, Fiber(h, L, t)) /\ v[t] = w[t] + fib[t]
  <2>1. {c \in X : up[c] = t /\ dep[c] = d} \in SUBSET X
    OBVIOUS
  <2>2. Total(w, {c \in X : up[c] = t /\ dep[c] = d}) \in Nat
    BY <1>1, <2>1, TotalAdds
  <2> QED
    BY <1>7, <2>2 DEF Gathers
<1> HIDE DEF d, L, K, O, h, fib
<1>9. \A t \in X : v[t] \in Nat
    BY <1>8
<1>10. AreFibers(fib, h, w, L, K)
    BY <1>4, <1>6, <1>8 DEF AreFibers
<1>11. Total(w, L) = Total(fib, K)
  <2>1. \A c \in L : w[c] \in Nat
    BY <1>4
  <2> QED
    BY ONLY <1>5, <1>10, <2>1, TotalFibers
<1>12. Total(v, K) = Total(w, K) + Total(fib, K)
  <2>1. \A t \in K : w[t] \in Nat /\ fib[t] \in Nat /\ v[t] = w[t] + fib[t]
    BY <1>4, <1>8
  <2> QED
    BY ONLY <1>5, <2>1, TotalPlus
<1>13. Total(w, O) = Total(w, K) + Total(w, L)
  <2>1. \A t \in K \cup L : w[t] \in Nat
    BY <1>4
  <2>2. Total(w, K \cup L) = Total(w, K) + Total(w, L)
    BY ONLY <1>4, <1>5, <2>1, TotalUnion
  <2> QED
    BY <1>4, <2>2
<1> QED
    BY <1>9, <1>11, <1>12, <1>13 DEF K, O

\* After the last level, the root has gathered the whole tree.
LEMMA RootGathers ==
    ASSUME NEW X, NEW r, NEW up, NEW dep, NEW N \in Nat, IsTree(X, r, up, dep, N),
           NEW own, \A t \in X : own[t] \in Nat, NEW use, use[0] = own,
           \A i \in 1 .. N + 1 : Gathers(use[i], use[i - 1], X, up, dep, N + 1 - i)
    PROVE  use[N + 1][r] = Total(own, X)
<1> DEFINE A == {i \in Nat : /\ \A t \in X : use[i][t] \in Nat
                             /\ Total(use[i], Remaining(X, r, dep, N, i)) = Total(own, X)}
           M == N + 1
<1>1. 0 \in A
  <2>1. \A t \in X : dep[t] < N + 1 - 0
    BY DEF IsTree
  <2>2. Remaining(X, r, dep, N, 0) = X
    BY <2>1 DEF Remaining
  <2> QED
    BY <2>2
<1>2. ASSUME NEW i \in 0 .. M, i # M, i \in A PROVE i + 1 \in A
  <2> DEFINE k == i + 1
             w == use[i]
             v == use[k]
  <2>1. k \in Nat /\ k # 0 /\ k - 1 = i /\ k \in 1 .. N + 1
    BY <1>2
  <2>2. (\A t \in X : w[t] \in Nat) /\ Total(w, Remaining(X, r, dep, N, i)) = Total(own, X)
    BY <1>2
  <2>3. Gathers(v, w, X, up, dep, N + 1 - k)
    <3> HIDE DEF k
    <3>1. Gathers(use[k], use[k - 1], X, up, dep, N + 1 - k)
      BY <2>1
    <3> QED
      BY <2>1, <3>1
  <2> HIDE DEF k, w, v
  <2>4. (\A t \in X : v[t] \in Nat)
        /\ Total(v, Remaining(X, r, dep, N, k)) = Total(w, Remaining(X, r, dep, N, k - 1))
    BY <2>1, <2>2, <2>3, LevelGathers
  <2>5. Total(v, Remaining(X, r, dep, N, k)) = Total(own, X)
    BY <2>1, <2>2, <2>4
  <2>6. k \in A
    BY <2>1, <2>4, <2>5 DEF v
  <2> QED
    BY <2>6 DEF k
<1>3. M \in Nat /\ M \in 0 .. M
    OBVIOUS
<1> HIDE DEF A
<1>4. M \in A
  <2> HIDE DEF M
  <2> QED
    BY <1>1, <1>2, <1>3, BoundedInduction
<1>5. Remaining(X, r, dep, N, M) = {r}
  <2>1. r \in X /\ \A t \in X : ~(dep[t] < N + 1 - M)
    BY DEF IsTree
  <2> QED
    BY <2>1 DEF Remaining
<1> DEFINE z == use[M]
<1>6. z[r] \in Nat /\ Total(z, {r}) = Total(own, X)
  <2>1. r \in X
    BY DEF IsTree
  <2> QED
    BY <1>4, <1>5, <2>1 DEF A
<1> HIDE DEF z
<1>7. Total(z, {r}) = z[r]
    BY <1>6, TotalOfOne
<1> QED
    BY <1>6, <1>7 DEF z

\* The usage of the threads of a tree after each level has been gathered
Gathering(g, root, own, order) ==
    g = [i \in 0 .. Len(order) |->
            IF i = 0 THEN own
            ELSE [t \in DOMAIN own |-> g[i - 1][t]
                     + SumFunctionOnSet(g[i - 1], {c \in DOMAIN own : /\ catalog[c].parent = t
                                                                      /\ RelativeDepth(root, c) = order[i]})]]

\* What the detail gathers for a root is what all threads of its tree have used.
LEMMA SubtreeIsWhole ==
    ASSUME IsCatalog(catalog), NEW r \in Roots(catalog), NEW own \in [SessionTree(catalog, r) -> Nat]
    PROVE  SubtreeUsage(r, own)[r] = Total(own, SessionTree(catalog, r))
<1> DEFINE N == TreeDepth
           M == N + 1
           X == SessionTree(catalog, r)
           W == [X -> Nat]
           up == [t \in X |-> catalog[t].parent]
           dep == [t \in X |-> RelativeDepth(r, t)]
           order == [i \in 1 .. N + 1 |-> N + 1 - i]
           Children(t, i) == {c \in DOMAIN own : catalog[c].parent = t /\ RelativeDepth(r, c) = order[i]}
           Step(w, i) == [t \in DOMAIN own |-> w[t] + SumFunctionOnSet(w, Children(t, i))]
           F == [i \in Nat |-> [w \in W |-> Step(w, i)]]
           use == CHOOSE g : Gathering(g, r, own, order)
<1>0. DOMAIN own = X
    OBVIOUS
<1>1. N \in Nat /\ M \in Nat /\ M # 0
    BY EffectiveSourceAssumption
<1>2. /\ IsFiniteSet(X) /\ r \in X /\ catalog[r].parent \notin X
      /\ \A t \in X : dep[t] \in 0 .. N
      /\ \A t \in X : t # r => up[t] \in X /\ dep[up[t]] < dep[t]
    BY TreeHoldsThreads, DepthsGrow
<1>3. IsTree(X, r, up, dep, N)
    BY <1>2 DEF IsTree
<1>4. Len(order) = M
    BY <1>1
<1>5. SubtreeUsage(r, own) = use[Len(order)]
  <2>1. SubtreeUsage(r, own) = Gathered(r, own, order)
    BY DEF SubtreeUsage
  <2> HIDE DEF order
  <2> QED
    BY <2>1 DEF Gathered, Gathering
<1>6. F \in [Nat -> [W -> W]]
  <2> SUFFICES ASSUME NEW i \in Nat, NEW w \in W PROVE Step(w, i) \in W
    OBVIOUS
  <2>1. ASSUME NEW t \in X PROVE w[t] + SumFunctionOnSet(w, Children(t, i)) \in Nat
    <3>1. Children(t, i) \in SUBSET X /\ (\A c \in X : w[c] \in Nat) /\ w[t] \in Nat
      BY <1>0
    <3> HIDE DEF X, W, Children
    <3>2. Total(w, Children(t, i)) \in Nat
      BY <1>2, <3>1, TotalAdds
    <3>3. SumFunctionOnSet(w, Children(t, i)) = Total(w, Children(t, i))
      BY SumIsTotal
    <3> QED
      BY <3>1, <3>2, <3>3
  <2> HIDE DEF Children, X
  <2> QED
    BY <1>0, <2>1
<1> HIDE DEF F
<1>7. PICK f \in [0 .. M -> W] : Recursive(f, own, F, M)
  <2> HIDE DEF M, W
  <2>1. own \in W
    BY DEF W
  <2> QED
    BY <1>1, <1>6, <2>1, RecursionExists
<1>8. ASSUME NEW i \in 0 .. M PROVE f[i] = IF i = 0 THEN own ELSE Step(f[i - 1], i)
  <2>1. f[i] = IF i = 0 THEN own ELSE F[i][f[i - 1]]
    BY <1>7 DEF Recursive
  <2>2. CASE i = 0
    BY <2>1, <2>2
  <2>3. CASE i # 0
    <3>1. i \in Nat /\ i - 1 \in 0 .. M
      BY <1>1, <2>3
    <3>2. f[i - 1] \in W
      BY <3>1
    <3> HIDE DEF Step, W
    <3>3. F[i][f[i - 1]] = Step(f[i - 1], i)
      BY <3>1, <3>2 DEF F
    <3> QED
      BY <2>1, <2>3, <3>3
  <2> QED
    BY <2>2, <2>3
<1>9. f = [i \in 0 .. Len(order) |-> IF i = 0 THEN own ELSE Step(f[i - 1], i)]
  <2> HIDE DEF Step, order
  <2> QED
    BY <1>4, <1>7, <1>8
<1>10. use = [i \in 0 .. Len(order) |-> IF i = 0 THEN own ELSE Step(use[i - 1], i)]
  <2>1. Gathering(f, r, own, order)
    <3> HIDE DEF order
    <3> QED
      BY <1>9 DEF Gathering
  <2>2. Gathering(use, r, own, order)
    BY <2>1
  <2> HIDE DEF use, order
  <2> QED
    BY <2>2 DEF Gathering
<1> HIDE DEF use
<1>11. use[0] = own
  <2>1. 0 \in 0 .. Len(order)
    BY <1>1, <1>4
  <2> HIDE DEF Step, order
  <2> QED
    BY <1>10, <2>1
<1>12. ASSUME NEW i \in 1 .. N + 1 PROVE Gathers(use[i], use[i - 1], X, up, dep, N + 1 - i)
  <2>1. i \in 0 .. Len(order) /\ i # 0 /\ order[i] = N + 1 - i
    BY <1>1, <1>4
  <2> DEFINE w == use[i - 1]
  <2>2. use[i] = Step(w, i)
    <3> HIDE DEF Step, order
    <3> QED
      BY <1>10, <2>1
  <2>3. \A t \in X : Children(t, i) = {c \in X : up[c] = t /\ dep[c] = N + 1 - i}
    <3> HIDE DEF order, X
    <3> QED
      BY <1>0, <2>1
  <2>4. \A t \in X : use[i][t] = w[t] + SumFunctionOnSet(w, Children(t, i))
    <3> HIDE DEF Children, X, w
    <3> QED
      BY <1>0, <2>2
  <2> HIDE DEF Children, up, dep, X, w
  <2>5. \A t \in X : use[i][t] = w[t] + Total(w, {c \in X : up[c] = t /\ dep[c] = N + 1 - i})
    BY <2>3, <2>4, SumIsTotal
  <2> QED
    BY <2>5 DEF Gathers, w
<1>13. \A t \in X : own[t] \in Nat
    OBVIOUS
<1> HIDE DEF N, X, up, dep
<1>14. N \in Nat
    BY <1>1
<1>15. use[N + 1][r] = Total(own, X)
    BY ONLY <1>3, <1>11, <1>12, <1>13, <1>14, RootGathers
<1> QED
    BY <1>4, <1>5, <1>15 DEF X, use

\* The facts T of the threads X, and what they add up to, by thread
ByThread(T, X, rows, own) ==
    /\ \A f \in T : f.thread \in X
    /\ rows = [t \in {f.thread : f \in T} |-> {f \in T : f.thread = t}]
    /\ own = [t \in X |-> IF t \in DOMAIN rows THEN Tokens(rows[t]) ELSE 0]

\* Facts of some threads, summed thread by thread
LEMMA ThreadsShare ==
    ASSUME NEW T \in SUBSET Facts, NEW X, IsFiniteSet(X), NEW rows, NEW own, ByThread(T, X, rows, own)
    PROVE  /\ own \in [X -> Nat] /\ Total(own, X) = Tokens(T)
           /\ \A t \in X : own[t] = Tokens({f \in T : f.thread = t})
<1> DEFINE Of(t) == {f \in T : f.thread = t}
           h == [f \in T |-> f.thread]
<1>0. /\ \A f \in T : f.thread \in X
      /\ rows = [t \in {f.thread : f \in T} |-> {f \in T : f.thread = t}]
      /\ own = [t \in X |-> IF t \in DOMAIN rows THEN Tokens(rows[t]) ELSE 0]
    BY DEF ByThread
<1>1. rows = [t \in {f.thread : f \in T} |-> Of(t)]
    BY <1>0
<1>2. ASSUME NEW t \in X PROVE own[t] = Tokens(Of(t)) /\ Tokens(Of(t)) \in Nat
  <2>1. Of(t) \in SUBSET Facts
    OBVIOUS
  <2>2. t \notin DOMAIN rows => Of(t) = {}
    BY <1>1
  <2>3. t \in DOMAIN rows => rows[t] = Of(t)
    BY <1>1
  <2> HIDE DEF Of
  <2>4. Tokens(Of(t)) \in Nat
    BY <2>1, TokensType
  <2>5. own[t] = IF t \in DOMAIN rows THEN Tokens(rows[t]) ELSE 0
    BY <1>0
  <2> QED
    BY <2>2, <2>3, <2>4, <2>5, NoTokens
<1>3. \A t \in X : Fiber(h, T, t) = Of(t)
    BY DEF Fiber
<1>4. h \in [T -> X]
    BY <1>0
<1>5. \A t \in X : Of(t) \in SUBSET Facts
    OBVIOUS
<1> HIDE DEF h, Of
<1>6. \A t \in X : own[t] = Total(Weight, Fiber(h, T, t))
    BY <1>2, <1>3, <1>5, TokensIsTotal
<1>7. AreFibers(own, h, Weight, T, X)
    BY <1>4, <1>6 DEF AreFibers
<1>8. Tokens(T) = Total(Weight, T) /\ IsFiniteSet(T) /\ \A f \in T : Weight[f] \in Nat
    BY TokensIsTotal
<1>9. Total(own, X) = Tokens(T)
  <2>1. Total(Weight, T) = Total(own, X)
    BY ONLY <1>7, <1>8, IsFiniteSet(X), TotalFibers
  <2> QED
    BY <1>8, <2>1
<1>10. own \in [X -> Nat]
    BY <1>0, <1>2
<1> QED
    BY <1>2, <1>9, <1>10 DEF Of

\* Facts of some threads, summed day by day
LEMMA TimelineShares ==
    ASSUME EvidenceInv, NEW filter, NEW ids
    PROVE  LET points == AggregateTimeSeriesForThreads("day", ids, filter)
           IN  SumFunction([k \in DOMAIN points |-> Tokens(points[k])])
                  = Tokens(OfThreads(BuildRollupFilter(filter), ids))
<1> DEFINE T == OfThreads(BuildRollupFilter(filter), ids)
           g == [f \in Facts |-> Day(f.time)]
           points == AggregateTimeSeriesForThreads("day", ids, filter)
           A == [k \in DOMAIN points |-> Tokens(points[k])]
<1>1. T \in SUBSET Facts
    BY TablesHoldFacts DEF OfThreads
<1>2. points = [k \in {Day(f.time) : f \in T} |-> {f \in T : Day(f.time) = k}]
    BY DEF AggregateTimeSeriesForThreads, GroupBy, TimeTable, TimeKey
<1>3. \A f \in T : g[f] = Day(f.time)
    BY <1>1
<1> HIDE DEF T, g, points
<1>4. points = Keyed(T, g)
  <2>1. {Day(f.time) : f \in T} = {g[f] : f \in T} /\ \A k : {f \in T : Day(f.time) = k} = {f \in T : g[f] = k}
    BY <1>3
  <2> QED
    BY <1>2, <2>1 DEF Keyed
<1>5. /\ Reads(<<T>>) /\ Total(Whole(<<T>>), DOMAIN <<T>>) = Tokens(T)
      /\ IsSplit(A, <<T>>, g)
    BY <1>1, <1>4, SplitRows
<1> HIDE DEF A
<1>6. SumFunction(A) = Tokens(T)
    BY <1>5, SplitWhole
<1> QED
    BY <1>6 DEF A, T, points

\* A listed tree and its detail show the same usage.
LEMMA ListMatchesDetail ==
    ASSUME EvidenceInv, CatalogOK, rootOf = RootMembership(catalog), NEW p, NEW query, query.proj = Unfiltered
    PROVE  LET list == ExplorerSessions(query, p)
           IN  /\ DOMAIN list = Roots(catalog)
               /\ \A r \in DOMAIN list :
                     LET detail == SessionDetail(query, r, p)
                         filter == [PeriodFilter(query, "confirmed", p) EXCEPT !.proj = Unfiltered]
                     IN  /\ list[r].own = detail.own /\ list[r].tree = detail.tree
                         /\ detail.timeline = detail.tree
                         /\ list[r].tree = Tokens(OfThreads(BuildRollupFilter(filter), TreeOf(r)))
<1> DEFINE filter == [PeriodFilter(query, "confirmed", p) EXCEPT !.proj = Unfiltered]
           roots == CatalogRoots(query.proj)
           usage == AggregateRollupByRootThreads(roots, filter)
           list == ExplorerSessions(query, p)
           S == BuildRollupFilter(filter)
<1>1. S \in SUBSET Facts /\ IsCatalog(catalog)
    BY TablesHoldFacts DEF CatalogOK
<1>2. roots = Roots(catalog)
    BY DEF CatalogRoots
<1>3. list = [r \in roots |-> IF r \in DOMAIN usage
                              THEN [own |-> Tokens(usage[r].own), tree |-> Tokens(usage[r].tree)]
                              ELSE [own |-> 0, tree |-> 0]]
    BY DEF ExplorerSessions
<1>4. usage = [r \in {x \in roots : OfThreads(S, TreeOf(x)) # {}} |->
                  [nodes |-> Cardinality(TreeOf(r)), own |-> OfThreads(OfThreads(S, TreeOf(r)), {r}),
                   tree |-> OfThreads(S, TreeOf(r))]]
    BY DEF AggregateRollupByRootThreads
<1> HIDE DEF roots, usage, list
<1>5. ASSUME NEW r \in Roots(catalog)
      PROVE  LET detail == SessionDetail(query, r, p)
             IN  /\ list[r].own = detail.own /\ list[r].tree = detail.tree
                 /\ detail.timeline = detail.tree
                 /\ list[r].tree = Tokens(OfThreads(S, TreeOf(r)))
  <2> DEFINE X == SessionTree(catalog, r)
             T == OfThreads(S, X)
             rows == AggregateRollupByThreadIds(X, filter)
             own == [t \in X |-> IF t \in DOMAIN rows THEN Tokens(rows[t]) ELSE 0]
             points == AggregateTimeSeriesForThreads("day", X, filter)
             detail == SessionDetail(query, r, p)
  <2>1. /\ detail.own = own[r] /\ detail.tree = SubtreeUsage(r, own)[r]
        /\ detail.timeline = SumFunction([k \in DOMAIN points |-> Tokens(points[k])])
    BY DEF SessionDetail
  <2>2. TreeOf(r) = X /\ IsFiniteSet(X) /\ r \in X
    BY <1>1, TreesAreMembers, TreeHoldsThreads
  <2>3. T \in SUBSET Facts /\ \A f \in T : f.thread \in X
    BY <1>1 DEF OfThreads
  <2>4. rows = [t \in {f.thread : f \in T} |-> {f \in T : f.thread = t}]
    BY DEF AggregateRollupByThreadIds, GroupBy
  <2>5. OfThreads(T, {r}) = {f \in T : f.thread = r}
    BY DEF OfThreads
  <2>6. list[r] = IF T # {} THEN [own |-> Tokens({f \in T : f.thread = r}), tree |-> Tokens(T)]
                  ELSE [own |-> 0, tree |-> 0]
    <3> HIDE DEF T, X, S
    <3>1. usage = [x \in {y \in roots : OfThreads(S, TreeOf(y)) # {}} |->
                  [nodes |-> Cardinality(TreeOf(x)), own |-> OfThreads(OfThreads(S, TreeOf(x)), {x}),
                   tree |-> OfThreads(S, TreeOf(x))]]
      BY <1>4
    <3>2. r \in roots /\ OfThreads(S, TreeOf(r)) = T
      BY <1>2, <2>2 DEF T
    <3>3. (r \in DOMAIN usage <=> T # {}) /\ (T # {} => usage[r].own = OfThreads(T, {r}) /\ usage[r].tree = T)
      BY <3>1, <3>2
    <3> QED
      BY <1>3, <2>5, <3>2, <3>3
  <2> HIDE DEF detail
  <2>7. SumFunction([k \in DOMAIN points |-> Tokens(points[k])]) = Tokens(T)
    BY TimelineShares
  <2> HIDE DEF T, rows, points, X, S, filter
  <2>8. /\ own \in [X -> Nat] /\ Total(own, X) = Tokens(T)
        /\ \A t \in X : own[t] = Tokens({f \in T : f.thread = t})
    <3>1. ByThread(T, X, rows, own)
      BY <2>3, <2>4 DEF ByThread
    <3> HIDE DEF own
    <3> QED
      BY <2>2, <2>3, <3>1, ThreadsShare
  <2> HIDE DEF own
  <2>9. SubtreeUsage(r, own)[r] = Total(own, X)
    BY <1>1, <2>8, SubtreeIsWhole DEF X
  <2>10. list[r].own = Tokens({f \in T : f.thread = r}) /\ list[r].tree = Tokens(T)
    <3>1. T = {} => {f \in T : f.thread = r} = {} /\ Tokens(T) = 0
      BY NoTokens
    <3> DEFINE O == {f \in T : f.thread = r}
    <3> HIDE DEF O
    <3> QED
      BY <2>6, <3>1, NoTokens DEF O
  <2> QED
    BY <2>1, <2>2, <2>7, <2>8, <2>9, <2>10 DEF T, detail
<1> QED
    BY <1>2, <1>3, <1>5 DEF list

\* The listed trees share out the usage of the threads that have a root.
LEMMA TreesAddUp ==
    ASSUME EvidenceInv, CatalogOK, rootOf = RootMembership(catalog), NEW filter,
           NEW tree, DOMAIN tree = Roots(catalog),
           \A r \in Roots(catalog) : tree[r] = Tokens(OfThreads(BuildRollupFilter(filter), TreeOf(r)))
    PROVE  SumFunction(tree) = Tokens(AggregateRollupUsageForThreads(DOMAIN rootOf, filter))
<1> DEFINE X == Roots(catalog)
           S == BuildRollupFilter(filter)
           T == OfThreads(S, DOMAIN rootOf)
           h == [f \in T |-> rootOf[f.thread]]
<1>1. IsFiniteSet(X)
  <2>1. IsFiniteSet(Threads) /\ X \subseteq Threads
    BY EffectiveSourceAssumption DEF CatalogOK, IsCatalog, Roots
  <2> QED
    BY <2>1, FS_Subset
<1>2. \A t \in DOMAIN rootOf : rootOf[t] \in X
    BY TreesAreMembers DEF CatalogOK
<1>3. S \in SUBSET Facts
    BY TablesHoldFacts
<1>4. T \in SUBSET Facts /\ h \in [T -> X]
    BY <1>2, <1>3 DEF OfThreads
<1>5. \A r \in X : Fiber(h, T, r) = OfThreads(S, TreeOf(r)) /\ Fiber(h, T, r) \in SUBSET Facts
    BY <1>4 DEF Fiber, OfThreads, TreeOf
<1>6. AggregateRollupUsageForThreads(DOMAIN rootOf, filter) = T
    BY DEF AggregateRollupUsageForThreads
<1> HIDE DEF X, S, T, h
<1>7. \A r \in X : tree[r] = Total(Weight, Fiber(h, T, r))
    BY <1>5, TokensIsTotal DEF X, S
<1>8. AreFibers(tree, h, Weight, T, X)
    BY <1>4, <1>7 DEF AreFibers
<1>9. Tokens(T) = Total(Weight, T) /\ IsFiniteSet(T) /\ \A f \in T : Weight[f] \in Nat
    BY <1>4, TokensIsTotal
<1>10. Total(Weight, T) = Total(tree, X)
    BY ONLY <1>1, <1>8, <1>9, TotalFibers
<1>11. SumFunction(tree) = Total(tree, X)
    BY SumIsTotal DEF X
<1> QED
    BY <1>6, <1>9, <1>10, <1>11

\* A project that has usage is offered, the standalone conversations as long as
\* they are conversations of the catalog.
LEMMA UsageIsOffered ==
    ASSUME EvidenceInv, standalone = StandaloneMembership(catalog), NEW label \in PeriodLabels
    PROVE  DOMAIN BreakdownRows(AllQuery, "project", Period(label))
              \subseteq FilterCatalogProjects \cup {UnassignedProject}
<1> DEFINE p == Period(label)
           filter == PeriodFilter(AllQuery, "confirmed", p)
           A == BreakdownRows(AllQuery, "project", p)
           R == PeriodSets(filter, p)
           g == DimKey("project")
           N == Cardinality(Threads)
           S == {r \in Roots(catalog) : catalog[r].proj = NoProject /\ catalog[r].native}
<1>1. IsSplit(A, R, g)
    BY BreakdownShares DEF BreakdownRows
<1>2. Reads(R)
    BY PeriodShares
<1> HIDE DEF A, R
<1>3. \A k \in DOMAIN A : \E f \in Facts : k = g[f]
    BY <1>1, <1>2 DEF IsSplit, Reads
<1>4. \A f \in Facts : g[f] = ProjectKey(f) /\ f.proj \in Projects \cup {NoProject}
    BY EffectiveSourceAssumption DEF DimKey, DimensionKey, Fact
<1>5. standalone # {} => \E r \in Roots(catalog) : catalog[r].native /\ catalog[r].proj = NoProject
  <2> SUFFICES ASSUME NEW t \in standalone PROVE \E r \in S : TRUE
    OBVIOUS
  <2>1. t \in Descendants(catalog, S, N) /\ N \in Nat
    BY EffectiveSourceAssumption, FS_CardinalityType DEF StandaloneMembership
  <2> HIDE DEF S, N
  <2> QED
    BY <2>1, DescendsFromOne
<1>6. StandaloneProject \in FilterCatalogProjects \/ standalone = {}
    BY <1>5 DEF FilterCatalogProjects
<1>7. Projects \subseteq FilterCatalogProjects
    BY DEF FilterCatalogProjects
<1> HIDE DEF g
<1>8. ASSUME NEW f \in Facts PROVE ProjectKey(f) \in FilterCatalogProjects \cup {UnassignedProject}
    BY <1>4, <1>6, <1>7 DEF ProjectKey
<1> QED
    BY <1>3, <1>4, <1>8 DEF A

\* TreesAgree: once the memberships are up to date, the session list and the session
\* detail show the same trees with the same usage, the trees share out the usage of
\* the threads that have a root, and every project that has usage can be chosen.
THEOREM TreesAgreeHolds == Spec => []TreesAgree
<1>1. ASSUME TypeInv PROVE TreesAgree
  <2> SUFFICES ASSUME rootOf = RootMembership(catalog), standalone = StandaloneMembership(catalog),
                      NEW label \in PeriodLabels
               PROVE  LET p     == Period(label)
                          list  == ExplorerSessions(AllQuery, p)
                          whole == PeriodFilter(AllQuery, "confirmed", p)
                      IN  /\ \A r \in DOMAIN list :
                                LET detail == SessionDetail(AllQuery, r, p)
                                IN  /\ list[r].own = detail.own /\ list[r].tree = detail.tree
                                    /\ detail.timeline = detail.tree
                          /\ SumFunction([r \in DOMAIN list |-> list[r].tree])
                               = Tokens(AggregateRollupUsageForThreads(DOMAIN rootOf, whole))
                          /\ DOMAIN BreakdownRows(AllQuery, "project", p)
                               \subseteq FilterCatalogProjects \cup {UnassignedProject}
    BY DEF TreesAgree
  <2>1. EvidenceInv /\ CatalogOK
    BY <1>1 DEF TypeInv
  <2> DEFINE p == Period(label)
             list == ExplorerSessions(AllQuery, p)
             whole == PeriodFilter(AllQuery, "confirmed", p)
             tree == [r \in DOMAIN list |-> list[r].tree]
  <2>2. [whole EXCEPT !.proj = Unfiltered] = whole /\ AllQuery.proj = Unfiltered
    BY DEF PeriodFilter, FilterOf, AllQuery
  <2> HIDE DEF p
  <2>3. /\ DOMAIN list = Roots(catalog)
        /\ \A r \in DOMAIN list :
              LET detail == SessionDetail(AllQuery, r, p)
                  filter == [PeriodFilter(AllQuery, "confirmed", p) EXCEPT !.proj = Unfiltered]
              IN  /\ list[r].own = detail.own /\ list[r].tree = detail.tree
                  /\ detail.timeline = detail.tree
                  /\ list[r].tree = Tokens(OfThreads(BuildRollupFilter(filter), TreeOf(r)))
    BY <2>1, <2>2, ListMatchesDetail
  <2>4. SumFunction(tree) = Tokens(AggregateRollupUsageForThreads(DOMAIN rootOf, whole))
    <3>1. DOMAIN tree = Roots(catalog)
      BY <2>3
    <3>2. \A r \in Roots(catalog) : tree[r] = Tokens(OfThreads(BuildRollupFilter(whole), TreeOf(r)))
      BY <2>2, <2>3
    <3> HIDE DEF tree, whole
    <3> QED
      BY <2>1, <3>1, <3>2, TreesAddUp
  <2>5. DOMAIN BreakdownRows(AllQuery, "project", p) \subseteq FilterCatalogProjects \cup {UnassignedProject}
    BY <2>1, UsageIsOffered DEF p
  <2> QED
    BY <2>3, <2>4, <2>5 DEF p
<1> QED
    BY <1>1, TypeInvariance, PTL
=============================================================================
