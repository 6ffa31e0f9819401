----------------------- MODULE SamplingCollector_proofs -----------------------
(***************************************************************************)
(* Proofs about the post-sampling import, for every set of samples and     *)
(* threads, every time stamp, every chunk size and every interleaving of   *)
(* the writer, the import and its crashes.                                 *)
(***************************************************************************)
EXTENDS SamplingCollector, Induction, SequenceTheorems, FiniteSetTheorems, TLAPS

-----------------------------------------------------------------------------
(* The inductive invariant of the import.                                  *)

\* Ids follow time stamps, and no row comes twice.
LogInOrder ==
    /\ \A i, j \in DOMAIN log : i < j =>
          log[i] # log[j] /\ ObservedAt[log[i]] <= ObservedAt[log[j]]
    /\ \A r, s \in Samples : Logged(s) /\ ObservedAt[r] < ObservedAt[s] => Logged(r)

\* So it is with the lines of each thread.
FilesInOrder ==
    /\ \A t \in Threads : \A i \in DOMAIN file[t] : ThreadOf[file[t][i]] = t
    /\ \A t \in Threads : \A i, j \in DOMAIN file[t] : i < j =>
          file[t][i] # file[t][j] /\ LineAt[file[t][i]] <= LineAt[file[t][j]]
    /\ \A r, s \in Samples :
          Written(s) /\ ThreadOf[r] = ThreadOf[s] /\ LineAt[r] < LineAt[s] => Written(r)

\* The events are the rows up to the log cursor.
ImportedAreBehind ==
    \A s \in Samples : usage[s] # Missing <=> \E id \in 1 .. cursor : log[id] = s

\* What is still to be committed are the rows that follow the log cursor.
BatchIsNext ==
    /\ Len(batch) <= Len(log) - cursor
    /\ \A i \in DOMAIN batch : batch[i].sample = log[cursor + i]

\* The lines of a thread before its durable candidate cursor.
From(t) == IF offset[t] = NoCursor THEN 0 ELSE offset[t]

Behind(l, t, n) == \E i \in 1 .. n : file[t][i] = l

RunShape ==
    /\ phase = "idle" => batch = << >> /\ DOMAIN ends = {}
    /\ phase = "committed" => cursor # 0
    /\ cursor = 0 => \A t \in Threads : offset[t] = NoCursor
    /\ \A i \in DOMAIN batch : ThreadOf[batch[i].sample] \in DOMAIN ends
    /\ \A t \in DOMAIN ends : ends[t] \in From(t) .. Len(file[t])

\* The lines of the events to be committed lie between the durable candidate
\* cursor and the one that will be committed; no two events have the same.
BatchLinesAhead ==
    /\ \A i \in DOMAIN batch : batch[i].line # Unknown =>
          \E k \in From(ThreadOf[batch[i].sample]) + 1 .. ends[ThreadOf[batch[i].sample]] :
              file[ThreadOf[batch[i].sample]][k] = batch[i].line
    /\ \A i, j \in DOMAIN batch : i < j /\ batch[i].line # Unknown =>
          batch[i].line # batch[j].line

\* The line of an event is before the durable candidate cursor, or will be when
\* the run that committed the event has moved it.
LinesHeld ==
    ~torn => \A s \in Samples : usage[s] \in Samples =>
        \/ Behind(usage[s], ThreadOf[s], From(ThreadOf[s]))
        \/ /\ phase = "committed"
           /\ ThreadOf[s] \in DOMAIN ends
           /\ Behind(usage[s], ThreadOf[s], ends[ThreadOf[s]])

EachLineOnce ==
    ~torn => /\ UsedOnce
             /\ \A i \in DOMAIN batch : batch[i].line # Unknown =>
                   \A s \in Samples : usage[s] # batch[i].line

CollectorInvariant ==
    /\ TypeOK
    /\ LogInOrder
    /\ FilesInOrder
    /\ ImportedAreBehind
    /\ BatchIsNext
    /\ RunShape
    /\ BatchLinesAhead
    /\ LinesHeld
    /\ EachLineOnce

-----------------------------------------------------------------------------
(* The inductive invariant of the matching.                                *)

\* Codex writes a row, and a line a tolerance away from it, before the watermark
\* gets there.
PromptWriter == Tolerance + WriteDelay < SafeLag

\* No thread is longer than the tail that is read of it at first.
TailHoldsThread ==
    \A t \in Threads : Cardinality({s \in Samples : ThreadOf[s] = t}) <= TailLines

OnDiskInTime ==
    \A s \in Samples :
        /\ ObservedAt[s] + WriteDelay < now => Logged(s)
        /\ LineAt[s] + WriteDelay < now => Written(s)

\* The tokens of s can only be those of its own line.
Clear(s) ==
    /\ Distance(LineAt[s], ObservedAt[s]) <= Tolerance
    /\ Isolated(s)
    /\ ~Parted(s)

\* Of the samples that are clear, those whose line was consumed are events.
LinesTakenWithRows ==
    \A s \in Samples : Clear(s) =>
        /\ Behind(s, ThreadOf[s], From(ThreadOf[s])) => usage[s] # Missing
        /\ ThreadOf[s] \in DOMAIN ends /\ Behind(s, ThreadOf[s], ends[ThreadOf[s]]) =>
              usage[s] # Missing \/ \E i \in DOMAIN batch : batch[i].sample = s

MatchInvariant ==
    /\ OnDiskInTime
    /\ ~torn => /\ LinesTakenWithRows
                /\ \A s \in Samples : usage[s] # Missing /\ Clear(s) => usage[s] = s
                /\ \A s \in Samples : Clear(s) =>
                      \A i \in DOMAIN batch : batch[i].sample = s => batch[i].line = s

-----------------------------------------------------------------------------
(* What a run reads.                                                       *)

\* The second of a later time is not an earlier one.
LEMMA SecondsInOrder ==
    ASSUME NEW a \in Nat, NEW b \in Nat, a <= b
    PROVE  Second(a) <= Second(b)
<1>1. SecondLength \in Nat \ {0}
    BY CollectorAssumption
<1> QED
    BY <1>1, SMT DEF Second

\* A later row is not eligible before an earlier one.
LEMMA EligibleInOrder ==
    ASSUME NEW safe \in Nat, NEW r \in Samples, NEW s \in Samples,
           ObservedAt[r] <= ObservedAt[s], Eligible(s, safe)
    PROVE  Eligible(r, safe)
<1>1. ObservedAt[r] \in Nat /\ ObservedAt[s] \in Nat
    BY CollectorAssumption
<1>2. /\ Second(ObservedAt[r]) <= Second(ObservedAt[s])
      /\ Second(ObservedAt[s]) <= Second(safe)
    BY <1>1, SecondsInOrder DEF Eligible
<1>3. Second(ObservedAt[r]) \in Nat /\ Second(ObservedAt[s]) \in Nat /\ Second(safe) \in Nat
    BY <1>1, CollectorAssumption, SMT DEF Second
<1> QED
    BY <1>2, <1>3 DEF Eligible

\* The eligible rows past the log cursor are the next ones, without a gap.
LEMMA ObservationsAreNext ==
    ASSUME TypeOK, LogInOrder, NEW safe \in Nat
    PROVE  LET rows == Observations(safe)
           IN  /\ rows \in Seq(Samples)
               /\ Len(rows) <= Len(log) - cursor
               /\ \A i \in 1 .. Len(rows) :
                     rows[i] = log[cursor + i] /\ Eligible(rows[i], safe)
               /\ \A id \in cursor + Len(rows) + 1 .. Len(log) : ~Eligible(log[id], safe)
<1> DEFINE N == Len(log) - cursor
           Next1(q, n) == IF Eligible(log[cursor + n], safe)
                          THEN Append(q, log[cursor + n])
                          ELSE q
           Body(g) == [n \in 0 .. N |-> IF n = 0 THEN << >> ELSE Next1(g[n - 1], n)]
           rows == CHOOSE g : g = Body(g)
<1>1. /\ log \in Seq(Samples) /\ Len(log) \in Nat /\ DOMAIN log = 1 .. Len(log)
      /\ cursor \in Nat /\ N \in Nat
    BY LenProperties DEF TypeOK
<1>2. \A n \in 1 .. N : cursor + n \in 1 .. Len(log) /\ log[cursor + n] \in Samples
    BY <1>1
<1>3. Observations(safe) = rows[N]
    BY DEF Observations, RowsAfter
<1> HIDE DEF N
<1>4. \E g : g = Body(g)
  <2> DEFINE D == Seq(Samples)
             F == [n \in Nat |-> [q \in D |-> IF n \in 1 .. N THEN Next1(q, n) ELSE q]]
  <2>1. << >> \in D
    BY EmptySeq
  <2>2. \A n \in 1 .. N, q \in D : Next1(q, n) \in D
    BY <1>2, AppendProperties
  <2> HIDE DEF Next1, D
  <2>3. F \in [Nat -> [D -> D]]
    BY <2>2
  <2>4. PICK g \in [0 .. N -> D] : Recursive(g, << >>, F, N)
    <3> HIDE DEF F
    <3> QED
      BY <1>1, <2>1, <2>3, RecursionExists
  <2>5. \A n \in 0 .. N : n # 0 => F[n][g[n - 1]] = Next1(g[n - 1], n)
    <3> SUFFICES ASSUME NEW n \in 0 .. N, n # 0
                 PROVE  F[n][g[n - 1]] = Next1(g[n - 1], n)
      OBVIOUS
    <3>1. n \in 1 .. N /\ n \in Nat /\ g[n - 1] \in D
      BY <1>1
    <3> QED
      BY <3>1
  <2>6. g = Body(g)
    BY <2>4, <2>5 DEF Recursive
  <2> QED
    BY <2>6
<1>5. rows = Body(rows)
    BY <1>4
<1> HIDE DEF rows
<1>6. rows[0] = << >> /\ \A n \in 0 .. N : n # N => rows[n + 1] = Next1(rows[n], n + 1)
  <2>1. 0 \in 0 .. N
    BY <1>1
  <2>2. \A n \in 0 .. N : rows[n] = IF n = 0 THEN << >> ELSE Next1(rows[n - 1], n)
    BY <1>5
  <2> HIDE DEF Next1
  <2>3. ASSUME NEW n \in 0 .. N, n # N PROVE rows[n + 1] = Next1(rows[n], n + 1)
    <3>1. n + 1 \in 0 .. N /\ n + 1 # 0 /\ (n + 1) - 1 = n
      BY <1>1, <2>3
    <3> QED
      BY <2>2, <3>1
  <2> QED
    BY <2>1, <2>2, <2>3
<1> DEFINE Good(n, q) ==
              /\ q \in Seq(Samples)
              /\ Len(q) <= n
              /\ \A i \in 1 .. Len(q) : q[i] = log[cursor + i] /\ Eligible(q[i], safe)
              /\ \A k \in Len(q) + 1 .. n : ~Eligible(log[cursor + k], safe)
           S == {n \in 0 .. N : Good(n, rows[n])}
<1>7. Good(0, << >>)
    BY EmptySeq
<1>8. ASSUME NEW n \in 0 .. N, n # N, NEW q, Good(n, q)
      PROVE  Good(n + 1, Next1(q, n + 1))
  <2> DEFINE s == log[cursor + (n + 1)]
  <2>1. /\ n \in Nat /\ n + 1 \in 1 .. N /\ q \in Seq(Samples) /\ Len(q) \in Nat
        /\ Len(q) <= n /\ s \in Samples
    <3>1. n \in Nat /\ n + 1 \in 1 .. N
      BY <1>1, <1>8
    <3>2. q \in Seq(Samples) /\ Len(q) <= n /\ Len(q) \in Nat
      BY <1>8, LenProperties
    <3> QED
      BY <1>2, <3>1, <3>2
  <2>2. CASE Eligible(s, safe)
    <3>1. Len(q) = n
      <4> SUFFICES ASSUME Len(q) # n PROVE FALSE
        OBVIOUS
      <4>1. n \in Len(q) + 1 .. n /\ n \in 1 .. N
        BY <1>8, <2>1
      <4>2. /\ cursor + n \in DOMAIN log /\ cursor + (n + 1) \in DOMAIN log
            /\ cursor + n < cursor + (n + 1)
            /\ log[cursor + n] \in Samples
        <5>1. cursor + n \in Nat /\ cursor + n < cursor + (n + 1)
          BY <1>1, <2>1
        <5> QED
          BY <1>2, <2>1, <4>1, <5>1
      <4>3. ObservedAt[log[cursor + n]] <= ObservedAt[s]
        BY <4>2 DEF LogInOrder
      <4>4. Eligible(log[cursor + n], safe)
        BY <2>1, <2>2, <4>2, <4>3, EligibleInOrder
      <4> QED
        BY <1>8, <4>1, <4>4
    <3>2. Next1(q, n + 1) = Append(q, s)
      BY <2>2
    <3> HIDE DEF s, Next1
    <3>3. /\ Append(q, s) \in Seq(Samples) /\ Len(Append(q, s)) = n + 1
          /\ \A i \in 1 .. n : Append(q, s)[i] = q[i]
          /\ Append(q, s)[n + 1] = s
      BY <2>1, <3>1, AppendProperties
    <3>4. \A i \in 1 .. n + 1 : i \in 1 .. n \/ i = n + 1
      BY <2>1
    <3>5. \A i \in 1 .. n + 1 : /\ Append(q, s)[i] = log[cursor + i]
                                /\ Eligible(Append(q, s)[i], safe)
      BY <1>8, <2>2, <3>1, <3>3, <3>4 DEF s
    <3> QED
      BY <2>1, <3>2, <3>3, <3>5
  <2>3. CASE ~Eligible(s, safe)
    <3>1. Next1(q, n + 1) = q
      BY <2>3
    <3>2. \A k \in Len(q) + 1 .. n + 1 : k \in Len(q) + 1 .. n \/ k = n + 1
      BY <2>1
    <3>3. \A k \in Len(q) + 1 .. n + 1 : ~Eligible(log[cursor + k], safe)
      BY <1>8, <2>3, <3>2
    <3> QED
      BY <1>8, <2>1, <3>1, <3>3
  <2> QED
    BY <2>2, <2>3
<1> HIDE DEF Good, Next1
<1>9. 0 \in S /\ \A n \in 0 .. N : n # N /\ n \in S => n + 1 \in S
  <2>1. 0 \in S
    BY <1>1, <1>6, <1>7
  <2>2. ASSUME NEW n \in 0 .. N, n # N, n \in S PROVE n + 1 \in S
    <3>1. n + 1 \in 0 .. N
      BY <1>1, <2>2
    <3> QED
      BY <1>6, <1>8, <2>2, <3>1
  <2> QED
    BY <2>1, <2>2
<1>10. Good(N, rows[N])
  <2>1. N \in 0 .. N
    BY <1>1
  <2> HIDE DEF S
  <2>2. N \in S
    BY <1>1, <1>9, <2>1, BoundedInduction
  <2> QED
    BY <2>2 DEF S
<1> DEFINE last == rows[N]
<1> HIDE DEF last
<1>11. /\ last \in Seq(Samples) /\ Len(last) \in Nat
       /\ Len(last) <= N
       /\ \A i \in 1 .. Len(last) : last[i] = log[cursor + i] /\ Eligible(last[i], safe)
       /\ \A k \in Len(last) + 1 .. N : ~Eligible(log[cursor + k], safe)
    BY <1>10, LenProperties DEF Good, last
<1>12. ASSUME NEW id \in cursor + Len(last) + 1 .. Len(log) PROVE ~Eligible(log[id], safe)
  <2>1. id - cursor \in Len(last) + 1 .. N /\ cursor + (id - cursor) = id
    BY <1>1, <1>11, <1>12 DEF N
  <2> QED
    BY <1>11, <2>1
<1> QED
    BY <1>3, <1>11, <1>12 DEF N, last

\* Reading a thread ends at the last line before the watermark.
LEMMA ReadingRange ==
    ASSUME TypeOK, NEW t \in Threads, NEW safe \in Nat
    PROVE  /\ StartOffset(t) \in 0 .. Len(file[t])
           /\ NextOffset(t, safe) \in StartOffset(t) .. Len(file[t])
           /\ \A i \in StartOffset(t) + 1 .. NextOffset(t, safe) : LineAt[file[t][i]] <= safe
           /\ NextOffset(t, safe) < Len(file[t]) =>
                 LineAt[file[t][NextOffset(t, safe) + 1]] > safe
<1> DEFINE s == file[t]
           len == Len(s)
           start == StartOffset(t)
           Ends(e) == /\ \A i \in start + 1 .. e : LineAt[s[i]] <= safe
                      /\ e < len => LineAt[s[e + 1]] > safe
           T == {e \in start .. len : \A i \in start + 1 .. e : LineAt[s[i]] <= safe}
<1>1. s \in Seq(Samples) /\ len \in Nat /\ (\A i \in 1 .. len : s[i] \in Samples)
  <2>1. s \in Seq(Samples)
    BY DEF TypeOK
  <2> QED
    BY <2>1, LenProperties
<1>2. start \in 0 .. len
  <2>1. CASE offset[t] = NoCursor
    BY <1>1, <2>1, CollectorAssumption DEF StartOffset
  <2>2. CASE offset[t] # NoCursor
    <3>1. offset[t] \in Nat /\ offset[t] <= len
      BY <2>2 DEF TypeOK
    <3> QED
      BY <1>1, <2>2, <3>1 DEF StartOffset
  <2> QED
    BY <2>1, <2>2
<1>3. NextOffset(t, safe) = CHOOSE e \in start .. len : Ends(e)
    BY DEF NextOffset
<1> HIDE DEF s, len, start
<1>4. start \in T /\ T \subseteq Nat /\ \A e \in T : e <= len
    BY <1>1, <1>2
<1> HIDE DEF T
<1>5. PICK e \in T : \A d \in T : e >= d
    BY <1>1, <1>4, GreatestElement
<1>6. e \in start .. len /\ \A i \in start + 1 .. e : LineAt[s[i]] <= safe
    BY <1>5 DEF T
<1>7. ASSUME e < len PROVE LineAt[s[e + 1]] > safe
  <2>1. e + 1 \in start .. len /\ e + 1 \in 1 .. len /\ e \in Nat
    BY <1>1, <1>2, <1>6, <1>7
  <2>2. LineAt[s[e + 1]] \in Nat
    BY <1>1, <2>1, CollectorAssumption
  <2>3. ASSUME LineAt[s[e + 1]] <= safe PROVE FALSE
    <3>1. \A i \in start + 1 .. e + 1 : i \in start + 1 .. e \/ i = e + 1
      BY <1>1, <1>2, <2>1
    <3>2. \A i \in start + 1 .. e + 1 : LineAt[s[i]] <= safe
      BY <1>6, <2>3, <3>1
    <3>3. e + 1 \in T
      BY <2>1, <3>2 DEF T
    <3> QED
      BY <1>5, <2>1, <3>3
  <2> QED
    BY <2>2, <2>3
<1>8. e \in start .. len /\ Ends(e)
    BY <1>6, <1>7
<1> HIDE DEF Ends
<1>9. NextOffset(t, safe) \in start .. len /\ Ends(NextOffset(t, safe))
    BY <1>3, <1>8
<1> QED
    BY <1>2, <1>9 DEF Ends, s, len, start

\* The distance of two times is a number.
LEMMA DistanceType ==
    ASSUME NEW a \in Nat, NEW b \in Nat
    PROVE  Distance(a, b) \in Nat /\ Distance(a, b) = Distance(b, a)
BY DEF Distance

\* There is a nearest line among some lines.
LEMMA NearestIsOne ==
    ASSUME NEW s \in Samples, NEW lines, lines \subseteq Samples, lines # {}
    PROVE  Nearest(s, lines) \in lines
<1> DEFINE D(l) == Distance(LineAt[l], ObservedAt[s])
           T == {D(l) : l \in lines}
           Best(l) == \A k \in lines \ {l} :
                         D(l) < D(k) \/ (D(l) = D(k) /\ LineAt[l] <= LineAt[k])
<1>1. \A l \in lines : D(l) \in Nat /\ LineAt[l] \in Nat
    BY CollectorAssumption, DistanceType
<1>2. Nearest(s, lines) = CHOOSE l \in lines : Best(l)
    BY DEF Nearest
<1> HIDE DEF D
<1>3. T \subseteq Nat /\ T # {}
    BY <1>1
<1> HIDE DEF T
<1>4. PICK d \in T : \A e \in T : d <= e
    BY <1>3, LeastElement
<1> DEFINE U == {LineAt[l] : l \in {k \in lines : D(k) = d}}
<1>5. U \subseteq Nat /\ U # {}
    BY <1>1, <1>4 DEF T
<1> HIDE DEF U
<1>6. PICK u \in U : \A v \in U : u <= v
    BY <1>5, LeastElement
<1>7. PICK l \in lines : D(l) = d /\ LineAt[l] = u
    BY <1>6 DEF U
<1>8. ASSUME NEW k \in lines PROVE D(l) < D(k) \/ (D(l) = D(k) /\ LineAt[l] <= LineAt[k])
  <2>1. d <= D(k) /\ D(k) \in Nat /\ d \in Nat
    BY <1>1, <1>3, <1>4 DEF T
  <2>2. D(k) = d => u <= LineAt[k]
    BY <1>6 DEF U
  <2> QED
    BY <1>7, <2>1, <2>2
<1>9. Best(l)
    BY <1>8
<1> HIDE DEF Best
<1> QED
    BY <1>2, <1>9

\* The line a row is given when the lines in used are taken.
Chosen(s, used, safe) ==
    IF Unused(s, used, safe) = {} THEN Unknown ELSE Nearest(s, Unused(s, used, safe))

\* The chosen line is one of its thread's, read in this run, not used and near.
LEMMA ChosenType ==
    ASSUME TypeOK, NEW s \in Samples, NEW used, NEW safe \in Nat
    PROVE  LET l == Chosen(s, used, safe)
               t == ThreadOf[s]
           IN  \/ l = Unknown
               \/ /\ l \in Samples
                  /\ l \in Unused(s, used, safe)
                  /\ l \notin used
                  /\ Distance(LineAt[l], ObservedAt[s]) <= Tolerance
                  /\ \E k \in StartOffset(t) + 1 .. NextOffset(t, safe) : file[t][k] = l
<1> DEFINE t == ThreadOf[s]
           lines == Unused(s, used, safe)
<1>1. t \in Threads
    BY CollectorAssumption
<1>2. /\ StartOffset(t) \in 0 .. Len(file[t])
      /\ NextOffset(t, safe) \in StartOffset(t) .. Len(file[t])
      /\ Len(file[t]) \in Nat
      /\ \A i \in 1 .. Len(file[t]) : file[t][i] \in Samples
  <2>1. file[t] \in Seq(Samples)
    BY <1>1 DEF TypeOK
  <2> QED
    BY <1>1, <2>1, ReadingRange, LenProperties
<1>3. \A k \in StartOffset(t) + 1 .. NextOffset(t, safe) : file[t][k] \in Samples
    BY <1>2
<1>4. \A l \in lines :
         /\ l \notin used
         /\ Distance(LineAt[l], ObservedAt[s]) <= Tolerance
         /\ \E k \in StartOffset(t) + 1 .. NextOffset(t, safe) : file[t][k] = l
    BY DEF Unused, Candidates
<1> HIDE DEF lines
<1>5. lines \subseteq Samples
    BY <1>3, <1>4
<1>6. lines # {} => Nearest(s, lines) \in lines
    BY <1>5, NearestIsOne
<1> QED
    BY <1>4, <1>5, <1>6 DEF Chosen, lines

\* Each row in turn is given a line that no earlier row of the run was given.
LEMMA MatchedInTurn ==
    ASSUME TypeOK, NEW safe \in Nat, NEW rows \in Seq(Samples)
    PROVE  LET m == Matched(rows, safe)
           IN  /\ m \in Seq(Event)
               /\ Len(m) = Len(rows)
               /\ \A i \in 1 .. Len(rows) :
                     /\ m[i].sample = rows[i]
                     /\ m[i].line = Chosen(rows[i], {m[j].line : j \in 1 .. i - 1}, safe)
<1> DEFINE N == Len(rows)
           Body(g) == [n \in 0 .. N |-> IF n = 0 THEN << >>
                                        ELSE MatchNext(g[n - 1], rows[n], safe)]
           f == CHOOSE g : g = Body(g)
           D == Seq(Event)
<1>1. N \in Nat /\ \A n \in 1 .. N : rows[n] \in Samples
    BY LenProperties
<1>2. Matched(rows, safe) = f[N]
    BY DEF Matched
<1> HIDE DEF N
<1>3. ASSUME NEW q \in D, NEW s \in Samples
      PROVE  /\ MatchNext(q, s, safe) \in D
             /\ Len(MatchNext(q, s, safe)) = Len(q) + 1
             /\ Len(q) \in Nat
             /\ \A i \in 1 .. Len(q) : MatchNext(q, s, safe)[i] = q[i]
             /\ MatchNext(q, s, safe)[Len(q) + 1].sample = s
             /\ MatchNext(q, s, safe)[Len(q) + 1].line
                   = Chosen(s, {q[j].line : j \in 1 .. Len(q)}, safe)
  <2> DEFINE used == {q[i].line : i \in DOMAIN q}
             e == [sample |-> s, line |-> Chosen(s, used, safe)]
  <2>1. MatchNext(q, s, safe) = Append(q, e)
    BY DEF MatchNext, Chosen
  <2>2. Chosen(s, used, safe) \in Samples \cup {Unknown}
    <3> HIDE DEF used
    <3> QED
      BY ChosenType
  <2>3. used = {q[j].line : j \in 1 .. Len(q)} /\ Len(q) \in Nat
    BY LenProperties
  <2> HIDE DEF used
  <2>4. e \in Event /\ e.sample = s /\ e.line = Chosen(s, used, safe)
    BY <2>2 DEF Event
  <2> HIDE DEF e
  <2>5. /\ Append(q, e) \in Seq(Event) /\ Len(Append(q, e)) = Len(q) + 1
        /\ \A i \in 1 .. Len(q) : Append(q, e)[i] = q[i]
        /\ Append(q, e)[Len(q) + 1] = e
    BY <2>4, AppendProperties
  <2> QED
    BY <2>1, <2>3, <2>4, <2>5
<1>4. << >> \in D /\ Len(<< >>) = 0
    BY EmptySeq
<1>5. \E g : g = Body(g)
  <2> DEFINE F == [n \in Nat |-> [q \in D |-> IF n \in 1 .. N THEN MatchNext(q, rows[n], safe) ELSE q]]
  <2>1. \A n \in 1 .. N, q \in D : MatchNext(q, rows[n], safe) \in D
    BY <1>1, <1>3
  <2> HIDE DEF D
  <2>2. F \in [Nat -> [D -> D]]
    BY <2>1
  <2>3. PICK g \in [0 .. N -> D] : Recursive(g, << >>, F, N)
    <3> HIDE DEF F
    <3> QED
      BY <1>1, <1>4, <2>2, RecursionExists
  <2>4. \A n \in 0 .. N : n # 0 => F[n][g[n - 1]] = MatchNext(g[n - 1], rows[n], safe)
    <3> SUFFICES ASSUME NEW n \in 0 .. N, n # 0
                 PROVE  F[n][g[n - 1]] = MatchNext(g[n - 1], rows[n], safe)
      OBVIOUS
    <3>1. n \in 1 .. N /\ n \in Nat /\ g[n - 1] \in D
      BY <1>1
    <3> QED
      BY <3>1
  <2>5. g = Body(g)
    BY <2>3, <2>4 DEF Recursive
  <2> QED
    BY <2>5
<1>6. f = Body(f)
    BY <1>5
<1> HIDE DEF f
<1>7. f[0] = << >> /\ \A n \in 0 .. N : n # N => f[n + 1] = MatchNext(f[n], rows[n + 1], safe)
  <2>1. 0 \in 0 .. N
    BY <1>1
  <2>2. \A n \in 0 .. N : f[n] = IF n = 0 THEN << >> ELSE MatchNext(f[n - 1], rows[n], safe)
    BY <1>6
  <2>3. ASSUME NEW n \in 0 .. N, n # N PROVE f[n + 1] = MatchNext(f[n], rows[n + 1], safe)
    <3>1. n + 1 \in 0 .. N /\ n + 1 # 0 /\ (n + 1) - 1 = n
      BY <1>1, <2>3
    <3> QED
      BY <2>2, <3>1
  <2> QED
    BY <2>1, <2>2, <2>3
<1> DEFINE Good(n, q) ==
              /\ q \in Seq(Event)
              /\ Len(q) = n
              /\ \A i \in 1 .. n :
                    /\ q[i].sample = rows[i]
                    /\ q[i].line = Chosen(rows[i], {q[j].line : j \in 1 .. i - 1}, safe)
           S == {n \in 0 .. N : Good(n, f[n])}
<1>8. Good(0, << >>)
    BY <1>4
<1>9. ASSUME NEW n \in 0 .. N, n # N, NEW q, Good(n, q)
      PROVE  Good(n + 1, MatchNext(q, rows[n + 1], safe))
  <2> DEFINE m == MatchNext(q, rows[n + 1], safe)
  <2>1. n \in Nat /\ n + 1 \in 1 .. N /\ rows[n + 1] \in Samples /\ q \in D /\ Len(q) = n
    BY <1>1, <1>9
  <2>2. /\ m \in D /\ Len(m) = n + 1
        /\ \A i \in 1 .. n : m[i] = q[i]
        /\ m[n + 1].sample = rows[n + 1]
        /\ m[n + 1].line = Chosen(rows[n + 1], {q[j].line : j \in 1 .. n}, safe)
    BY <1>3, <2>1
  <2> HIDE DEF m
  <2>3. ASSUME NEW i \in 1 .. n + 1
        PROVE  {m[j].line : j \in 1 .. i - 1} = {q[j].line : j \in 1 .. i - 1}
    <3>1. \A j \in 1 .. i - 1 : j \in 1 .. n
      BY <2>1
    <3> QED
      BY <2>2, <3>1
  <2>4. \A i \in 1 .. n + 1 : (i \in 1 .. n /\ i # n + 1) \/ (i = n + 1 /\ i - 1 = n)
    BY <2>1
  <2>5. ASSUME NEW i \in 1 .. n + 1
        PROVE  /\ m[i].sample = rows[i]
               /\ m[i].line = Chosen(rows[i], {m[j].line : j \in 1 .. i - 1}, safe)
    <3>1. CASE i \in 1 .. n
      BY <1>9, <2>2, <2>3, <3>1
    <3>2. CASE i = n + 1 /\ i - 1 = n
      BY <2>2, <2>3, <3>2
    <3> QED
      BY <2>4, <3>1, <3>2
  <2>6. Good(n + 1, m)
    BY <2>2, <2>5
  <2> QED
    BY <2>6 DEF m
<1> HIDE DEF Good
<1>10. 0 \in S /\ \A n \in 0 .. N : n # N /\ n \in S => n + 1 \in S
  <2>1. 0 \in S
    BY <1>1, <1>7, <1>8
  <2>2. ASSUME NEW n \in 0 .. N, n # N, n \in S PROVE n + 1 \in S
    <3>1. n + 1 \in 0 .. N
      BY <1>1, <2>2
    <3> QED
      BY <1>7, <1>9, <2>2, <3>1
  <2> QED
    BY <2>1, <2>2
<1>11. Good(N, f[N])
  <2>1. N \in 0 .. N
    BY <1>1
  <2> HIDE DEF S
  <2>2. N \in S
    BY <1>1, <1>10, <2>1, BoundedInduction
  <2> QED
    BY <2>2 DEF S
<1> QED
    BY <1>2, <1>11 DEF Good, N

-----------------------------------------------------------------------------
(* Every step preserves the invariant of the import.                       *)

\* At the beginning nothing is written and nothing is imported.
LEMMA CollectorInit == Init => CollectorInvariant
<1> SUFFICES ASSUME Init PROVE CollectorInvariant
    OBVIOUS
<1> USE DEF Init
<1>1. /\ log \in Seq(Samples) /\ Len(log) = 0 /\ DOMAIN log = {}
      /\ batch \in Seq(Event) /\ Len(batch) = 0 /\ DOMAIN batch = {}
      /\ DOMAIN ends = {}
      /\ \A t \in Threads : file[t] \in Seq(Samples) /\ DOMAIN file[t] = {}
    BY EmptySeq, LenProperties
<1>2. 0 \in 0 .. MaxTime /\ 0 \in 0 .. MaxCrashes
    BY CollectorAssumption
<1>3. TypeOK
  <2>1. file \in [Threads -> Seq(Samples)] /\ cursor \in 0 .. Len(log)
    BY <1>1
  <2>2. offset \in [Threads -> Nat \cup {NoCursor}] /\ \A t \in Threads : offset[t] = NoCursor
    OBVIOUS
  <2>3. /\ usage \in [Samples -> Samples \cup {Missing, Unknown}]
        /\ cuts \in [Threads -> SUBSET (0 .. MaxTime)]
    OBVIOUS
  <2> QED
    BY <1>1, <1>2, <2>1, <2>2, <2>3 DEF TypeOK
<1>4. \A s \in Samples : ~Logged(s) /\ ~Written(s)
    BY <1>1, CollectorAssumption DEF Logged, Written, ToSet
<1>5. LogInOrder /\ FilesInOrder
    BY <1>1, <1>4 DEF LogInOrder, FilesInOrder
<1>6. ImportedAreBehind /\ BatchIsNext
    BY <1>1 DEF ImportedAreBehind, BatchIsNext
<1>7. RunShape /\ BatchLinesAhead
    BY <1>1 DEF RunShape, BatchLinesAhead
<1>8. LinesHeld /\ EachLineOnce
    BY <1>1, CollectorAssumption DEF LinesHeld, EachLineOnce, UsedOnce
<1> QED
    BY <1>3, <1>5, <1>6, <1>7, <1>8 DEF CollectorInvariant

\* A new row of the log is not among those imported.
LEMMA AppendRowStep ==
    ASSUME CollectorInvariant, NEW s \in Samples, AppendRow(s)
    PROVE  CollectorInvariant'
<1> DEFINE n == Len(log)
<1>1. /\ TypeOK /\ LogInOrder /\ BatchIsNext /\ ImportedAreBehind
      /\ log \in Seq(Samples) /\ n \in Nat /\ DOMAIN log = 1 .. n
      /\ cursor \in 0 .. n
    BY LenProperties DEF CollectorInvariant, TypeOK
<1>2. /\ ~Logged(s)
      /\ \A r \in Samples : ObservedAt[r] < ObservedAt[s] => Logged(r)
      /\ log' = Append(log, s)
      /\ UNCHANGED <<now, file, cursor, offset, usage, phase, batch, ends, crashes, torn, cuts>>
    BY DEF AppendRow
<1>3. /\ log' \in Seq(Samples) /\ Len(log') = n + 1 /\ DOMAIN log' = 1 .. n + 1
      /\ \A i \in 1 .. n : log'[i] = log[i]
      /\ log'[n + 1] = s
    BY <1>1, <1>2, AppendProperties, LenProperties
<1> HIDE DEF n
<1>4. \A i \in 1 .. n : log[i] \in Samples /\ log[i] # s /\ Logged(log[i])
    BY <1>1, <1>2 DEF Logged, ToSet
<1>5. \A r \in Samples : Logged(r)' => Logged(r) \/ r = s
    BY <1>1, <1>3 DEF Logged, ToSet
<1>6. \A r \in Samples : Logged(r) \/ r = s => Logged(r)'
    BY <1>1, <1>3 DEF Logged, ToSet
<1>7. LogInOrder'
  <2>1. ASSUME NEW i \in 1 .. n + 1, NEW j \in 1 .. n + 1, i < j
        PROVE  log'[i] # log'[j] /\ ObservedAt[log'[i]] <= ObservedAt[log'[j]]
    <3>1. i \in 1 .. n /\ (j \in 1 .. n \/ j = n + 1)
      BY <1>1, <2>1
    <3>2. CASE j \in 1 .. n
      BY <1>1, <1>3, <2>1, <3>1, <3>2 DEF LogInOrder
    <3>3. CASE j = n + 1
      <4>1. ObservedAt[log[i]] \in Nat /\ ObservedAt[s] \in Nat
        BY <1>4, <3>1, CollectorAssumption
      <4>2. ~(ObservedAt[s] < ObservedAt[log[i]])
        BY <1>1, <1>2, <1>4, <3>1 DEF LogInOrder
      <4> QED
        BY <1>3, <1>4, <3>1, <3>3, <4>1, <4>2
    <3> QED
      BY <3>1, <3>2, <3>3
  <2>2. \A q, r \in Samples : Logged(r)' /\ ObservedAt[q] < ObservedAt[r] => Logged(q)'
    BY <1>1, <1>2, <1>5, <1>6 DEF LogInOrder
  <2> QED
    BY <1>3, <2>1, <2>2 DEF LogInOrder
<1>8. TypeOK'
  <2>1. cursor \in 0 .. n + 1
    BY <1>1
  <2> QED
    BY <1>1, <1>2, <1>3, <2>1 DEF TypeOK
<1>9. ImportedAreBehind'
  <2>1. \A id \in 1 .. cursor : log'[id] = log[id]
    BY <1>1, <1>3
  <2> QED
    BY <1>1, <1>2, <2>1 DEF ImportedAreBehind
<1>10. BatchIsNext'
  <2>1. batch \in Seq(Event) /\ Len(batch) \in Nat /\ DOMAIN batch = 1 .. Len(batch)
    BY <1>1, LenProperties DEF TypeOK
  <2>2. Len(batch) <= n - cursor
    BY <1>1 DEF BatchIsNext, n
  <2>3. \A i \in DOMAIN batch : cursor + i \in 1 .. n
    BY <1>1, <2>1, <2>2
  <2>4. Len(batch) <= (n + 1) - cursor
    BY <1>1, <2>1, <2>2
  <2> QED
    BY <1>1, <1>2, <1>3, <2>3, <2>4 DEF BatchIsNext
<1>11. /\ FilesInOrder' /\ RunShape' /\ BatchLinesAhead' /\ LinesHeld' /\ EachLineOnce'
    BY <1>2 DEF CollectorInvariant, FilesInOrder, Written, RunShape, BatchLinesAhead,
                LinesHeld, EachLineOnce, UsedOnce, From, Behind
<1> QED
    BY <1>7, <1>8, <1>9, <1>10, <1>11 DEF CollectorInvariant

\* Appending to a file leaves the lines that are in it in their places.
LEMMA FilesGrow ==
    ASSUME CollectorInvariant, NEW s \in Samples, AppendLine(s)
    PROVE  /\ file' \in [Threads -> Seq(Samples)]
           /\ \A t \in Threads :
                 /\ Len(file[t]) \in Nat /\ Len(file'[t]) \in Nat
                 /\ Len(file[t]) <= Len(file'[t])
                 /\ \A i \in 1 .. Len(file[t]) : file'[t][i] = file[t][i]
           /\ LET t == ThreadOf[s]
              IN  Len(file'[t]) = Len(file[t]) + 1 /\ file'[t][Len(file[t]) + 1] = s
           /\ \A t \in Threads : t # ThreadOf[s] => file'[t] = file[t]
<1>1. file \in [Threads -> Seq(Samples)] /\ ThreadOf[s] \in Threads
    BY CollectorAssumption DEF CollectorInvariant, TypeOK
<1>2. file' = [file EXCEPT ![ThreadOf[s]] = Append(@, s)]
    BY DEF AppendLine
<1>3. \A q \in Seq(Samples) :
         /\ Len(q) \in Nat /\ Append(q, s) \in Seq(Samples) /\ Len(Append(q, s)) = Len(q) + 1
         /\ \A i \in 1 .. Len(q) : Append(q, s)[i] = q[i]
         /\ Append(q, s)[Len(q) + 1] = s
    BY AppendProperties, LenProperties
<1> DEFINE t0 == ThreadOf[s]
<1>4. /\ file'[t0] = Append(file[t0], s)
      /\ \A t \in Threads : t # t0 => file'[t] = file[t]
    BY <1>1, <1>2
<1>5. file' \in [Threads -> Seq(Samples)]
    BY <1>1, <1>2, <1>3
<1> HIDE DEF t0
<1>6. file[t0] \in Seq(Samples)
    BY <1>1 DEF t0
<1>7. /\ Len(file'[t0]) = Len(file[t0]) + 1
      /\ file'[t0][Len(file[t0]) + 1] = s
      /\ Len(file[t0]) \in Nat
      /\ \A i \in 1 .. Len(file[t0]) : file'[t0][i] = file[t0][i]
    BY <1>3, <1>4, <1>6
<1>8. ASSUME NEW t \in Threads
      PROVE  /\ Len(file[t]) \in Nat /\ Len(file'[t]) \in Nat
             /\ Len(file[t]) <= Len(file'[t])
             /\ \A i \in 1 .. Len(file[t]) : file'[t][i] = file[t][i]
  <2>1. CASE t = t0
    BY <1>7, <2>1
  <2>2. CASE t # t0
    BY <1>1, <1>4, <2>2, LenProperties
  <2> QED
    BY <2>1, <2>2
<1> QED
    BY <1>4, <1>5, <1>7, <1>8 DEF t0

\* A new line of a rollout is behind every offset.
LEMMA AppendLineStep ==
    ASSUME CollectorInvariant, NEW s \in Samples, AppendLine(s)
    PROVE  CollectorInvariant'
<1> DEFINE t0 == ThreadOf[s]
           n0 == Len(file[t0])
<1>1. /\ ~Written(s)
      /\ \A r \in Samples : ThreadOf[r] = t0 /\ LineAt[r] < LineAt[s] => Written(r)
      /\ UNCHANGED <<now, log, cursor, offset, usage, phase, batch, ends, crashes, torn, cuts>>
    BY DEF AppendLine
<1>2. /\ t0 \in Threads
      /\ file \in [Threads -> Seq(Samples)]
      /\ \A r \in Samples : ThreadOf[r] \in Threads /\ LineAt[r] \in Nat
    BY CollectorAssumption DEF CollectorInvariant, TypeOK
<1>3. /\ file' \in [Threads -> Seq(Samples)]
      /\ \A t \in Threads :
            /\ Len(file[t]) \in Nat /\ Len(file'[t]) \in Nat
            /\ Len(file[t]) <= Len(file'[t])
            /\ \A i \in 1 .. Len(file[t]) : file'[t][i] = file[t][i]
      /\ Len(file'[t0]) = n0 + 1 /\ file'[t0][n0 + 1] = s
      /\ \A t \in Threads : t # t0 => file'[t] = file[t]
    BY FilesGrow
<1>4. \A t \in Threads : /\ DOMAIN file[t] = 1 .. Len(file[t])
                         /\ DOMAIN file'[t] = 1 .. Len(file'[t])
                         /\ \A i \in 1 .. Len(file[t]) : file[t][i] \in Samples
    BY <1>2, <1>3, LenProperties
<1> HIDE DEF t0, n0
<1>5. /\ n0 \in Nat /\ DOMAIN file[t0] = 1 .. n0 /\ DOMAIN file'[t0] = 1 .. n0 + 1
      /\ \A i \in 1 .. n0 : file'[t0][i] = file[t0][i]
    BY <1>2, <1>3, <1>4 DEF n0
<1>6. \A r \in Samples : Written(r)' <=> Written(r) \/ r = s
  <2> SUFFICES ASSUME NEW r \in Samples PROVE Written(r)' <=> Written(r) \/ r = s
    OBVIOUS
  <2>1. CASE ThreadOf[r] = t0
    <3>1. \A i \in 1 .. n0 + 1 : i \in 1 .. n0 \/ i = n0 + 1
      BY <1>5
    <3>2. \A i \in 1 .. n0 : i \in 1 .. n0 + 1
      BY <1>5
    <3>3. n0 + 1 \in 1 .. n0 + 1
      BY <1>5
    <3> QED
      BY <1>3, <1>5, <2>1, <3>1, <3>2, <3>3 DEF Written, ToSet
  <2>2. CASE ThreadOf[r] # t0
    <3>1. r # s
      BY <2>2 DEF t0
    <3> QED
      BY <1>2, <1>3, <2>2, <3>1 DEF Written, ToSet
  <2> QED
    BY <2>1, <2>2
<1>7. FilesInOrder /\ RunShape /\ BatchLinesAhead /\ LinesHeld /\ TypeOK
    BY DEF CollectorInvariant
<1>8. FilesInOrder'
  <2>1. ASSUME NEW t \in Threads, NEW i \in DOMAIN file'[t] PROVE ThreadOf[file'[t][i]] = t
    <3>1. CASE t = t0
      <4>1. i \in 1 .. n0 \/ i = n0 + 1
        BY <1>5, <2>1, <3>1
      <4> QED
        BY <1>3, <1>5, <1>7, <3>1, <4>1 DEF FilesInOrder, t0
    <3>2. CASE t # t0
      BY <1>3, <1>7, <2>1, <3>2 DEF FilesInOrder
    <3> QED
      BY <3>1, <3>2
  <2>2. ASSUME NEW t \in Threads, NEW i \in DOMAIN file'[t], NEW j \in DOMAIN file'[t], i < j
        PROVE  file'[t][i] # file'[t][j] /\ LineAt[file'[t][i]] <= LineAt[file'[t][j]]
    <3>1. CASE t = t0
      <4>1. i \in 1 .. n0 /\ (j \in 1 .. n0 \/ j = n0 + 1)
        BY <1>5, <2>2, <3>1
      <4>2. CASE j \in 1 .. n0
        BY <1>5, <1>7, <2>2, <3>1, <4>1, <4>2 DEF FilesInOrder
      <4>3. CASE j = n0 + 1
        <5> DEFINE l == file[t0][i]
        <5>1. l \in Samples /\ ThreadOf[l] = t0 /\ Written(l)
          BY <1>2, <1>4, <1>5, <1>7, <4>1 DEF FilesInOrder, n0, Written, ToSet
        <5>2. LineAt[l] \in Nat /\ LineAt[s] \in Nat
          BY <1>2, <5>1
        <5>3. l # s /\ ~(LineAt[s] < LineAt[l])
          BY <1>1, <1>7, <5>1 DEF FilesInOrder, t0
        <5> QED
          BY <1>3, <1>5, <3>1, <4>1, <4>3, <5>2, <5>3
      <4> QED
        BY <4>1, <4>2, <4>3
    <3>2. CASE t # t0
      BY <1>3, <1>7, <2>2, <3>2 DEF FilesInOrder
    <3> QED
      BY <3>1, <3>2
  <2>3. \A q, r \in Samples :
           Written(r)' /\ ThreadOf[q] = ThreadOf[r] /\ LineAt[q] < LineAt[r] => Written(q)'
    BY <1>1, <1>6, <1>7 DEF FilesInOrder, t0
  <2> QED
    BY <2>1, <2>2, <2>3 DEF FilesInOrder
<1>9. TypeOK'
  <2>1. \A t \in Threads : offset[t] # NoCursor => offset[t] <= Len(file'[t])
    BY <1>3, <1>7 DEF TypeOK
  <2> QED
    BY <1>1, <1>3, <1>7, <2>1 DEF TypeOK
<1>10. \A t \in Threads : From(t)' = From(t) /\ From(t) \in 0 .. Len(file[t])
    BY <1>1, <1>3, <1>7 DEF From, TypeOK
<1>11. DOMAIN ends \subseteq Threads
    BY <1>7 DEF TypeOK
<1>12. \A t \in DOMAIN ends : ends[t] \in From(t) .. Len(file[t])
    BY <1>7 DEF RunShape
<1>13. RunShape'
  <2>1. \A t \in DOMAIN ends : ends[t] \in From(t) .. Len(file'[t])
    BY <1>3, <1>10, <1>11, <1>12
  <2> QED
    BY <1>1, <1>7, <1>10, <1>11, <2>1 DEF RunShape
<1>14. BatchLinesAhead'
  <2>1. ASSUME NEW i \in DOMAIN batch, batch[i].line # Unknown
        PROVE  \E k \in From(ThreadOf[batch[i].sample]) + 1 .. ends[ThreadOf[batch[i].sample]] :
                   file'[ThreadOf[batch[i].sample]][k] = batch[i].line
    <3> DEFINE t == ThreadOf[batch[i].sample]
    <3>1. t \in DOMAIN ends /\ t \in Threads
      BY <1>7, <1>11 DEF RunShape
    <3>2. PICK k \in From(t) + 1 .. ends[t] : file[t][k] = batch[i].line
      BY <1>7, <2>1 DEF BatchLinesAhead
    <3> HIDE DEF t
    <3>3. k \in 1 .. Len(file[t])
      BY <1>3, <1>10, <1>12, <3>1, <3>2
    <3> QED
      BY <1>3, <3>1, <3>2, <3>3 DEF t
  <2>2. \A i \in DOMAIN batch : From(ThreadOf[batch[i].sample])' = From(ThreadOf[batch[i].sample])
    BY <1>1, <1>7, <1>10, <1>11 DEF RunShape
  <2> QED
    BY <1>1, <1>7, <2>1, <2>2 DEF BatchLinesAhead
<1>15. \A t \in Threads : \A l, n : n \in 0 .. Len(file[t]) => (Behind(l, t, n) => Behind(l, t, n)')
  <2> SUFFICES ASSUME NEW t \in Threads, NEW l, NEW n \in 0 .. Len(file[t]), Behind(l, t, n)
               PROVE  \E i \in 1 .. n : file'[t][i] = l
    BY DEF Behind
  <2>1. \A i \in 1 .. n : i \in 1 .. Len(file[t])
    BY <1>3
  <2> QED
    BY <1>3, <2>1 DEF Behind
<1>16. LinesHeld'
  <2> SUFFICES ASSUME ~torn, NEW r \in Samples, usage[r] \in Samples
               PROVE  \/ Behind(usage[r], ThreadOf[r], From(ThreadOf[r]))'
                      \/ /\ phase = "committed"
                         /\ ThreadOf[r] \in DOMAIN ends
                         /\ Behind(usage[r], ThreadOf[r], ends[ThreadOf[r]])'
    BY <1>1 DEF LinesHeld
  <2> DEFINE t == ThreadOf[r]
             l == usage[r]
  <2>1. \/ Behind(l, t, From(t))
        \/ phase = "committed" /\ t \in DOMAIN ends /\ Behind(l, t, ends[t])
    BY <1>7 DEF LinesHeld
  <2>2. t \in Threads
    BY <1>2
  <2>3. (l = usage'[r]) /\ (From(t)' = From(t)) /\ ends' = ends
    BY <1>1, <1>10, <2>2
  <2>4. t \in DOMAIN ends => ends[t] \in 0 .. Len(file[t])
    BY <1>3, <1>10, <1>12, <2>2
  <2> HIDE DEF t, l
  <2>5. CASE Behind(l, t, From(t))
    <3>1. PICK i \in 1 .. From(t) : file[t][i] = l
      BY <2>5 DEF Behind
    <3>2. i \in 1 .. Len(file[t])
      BY <1>3, <1>10, <2>2, <3>1
    <3>3. file'[t][i] = usage'[r] /\ i \in 1 .. From(t)'
      BY <1>3, <2>2, <2>3, <3>1, <3>2
    <3> QED
      BY <3>3 DEF Behind, t
  <2>6. CASE phase = "committed" /\ t \in DOMAIN ends /\ Behind(l, t, ends[t])
    <3>1. PICK i \in 1 .. ends[t] : file[t][i] = l
      BY <2>6 DEF Behind
    <3>2. i \in 1 .. Len(file[t])
      BY <1>3, <2>2, <2>4, <2>6, <3>1
    <3>3. file'[t][i] = usage'[r] /\ i \in 1 .. ends'[t]
      BY <1>3, <2>2, <2>3, <3>1, <3>2
    <3> QED
      BY <2>6, <3>3 DEF Behind, t
  <2> QED
    BY <2>1, <2>5, <2>6
<1>17. LogInOrder' /\ ImportedAreBehind' /\ BatchIsNext' /\ EachLineOnce'
    BY <1>1 DEF CollectorInvariant, LogInOrder, Logged, ImportedAreBehind, BatchIsNext,
                EachLineOnce, UsedOnce
<1> QED
    BY <1>8, <1>9, <1>13, <1>14, <1>16, <1>17 DEF CollectorInvariant

\* Time passes; nothing else happens.
LEMMA TickStep ==
    ASSUME CollectorInvariant, Tick
    PROVE  CollectorInvariant'
<1>1. /\ now < MaxTime /\ now' = now + 1
      /\ UNCHANGED <<log, file, cursor, offset, usage, phase, batch, ends, crashes, torn, cuts>>
    BY DEF Tick
<1>2. TypeOK'
  <2>1. now' \in 0 .. MaxTime
    BY <1>1, CollectorAssumption DEF CollectorInvariant, TypeOK
  <2> QED
    BY <1>1, <2>1 DEF CollectorInvariant, TypeOK
<1> QED
    BY <1>1, <1>2 DEF CollectorInvariant, LogInOrder, Logged, FilesInOrder, Written,
                      ImportedAreBehind, BatchIsNext, RunShape, BatchLinesAhead, LinesHeld,
                      EachLineOnce, UsedOnce, From, Behind

\* A crash loses what was read and not what is stored.
LEMMA CrashStep ==
    ASSUME CollectorInvariant, Crash
    PROVE  CollectorInvariant'
<1>1. /\ phase # "idle" /\ crashes < MaxCrashes /\ crashes' = crashes + 1
      /\ torn' = (torn \/ phase = "committed")
      /\ phase' = "idle" /\ batch' = << >> /\ ends' = << >>
      /\ UNCHANGED <<now, log, file, cursor, offset, usage, cuts>>
    BY DEF Crash
<1>2. /\ batch' \in Seq(Event) /\ Len(batch') = 0 /\ DOMAIN batch' = {} /\ DOMAIN ends' = {}
    BY <1>1, EmptySeq
<1>3. TypeOK'
  <2>1. crashes' \in 0 .. MaxCrashes
    BY <1>1, CollectorAssumption DEF CollectorInvariant, TypeOK
  <2>2. torn' \in BOOLEAN
    BY <1>1
  <2> QED
    BY <1>1, <1>2, <2>1, <2>2 DEF CollectorInvariant, TypeOK
<1>4. LogInOrder' /\ FilesInOrder' /\ ImportedAreBehind'
    BY <1>1 DEF CollectorInvariant, LogInOrder, Logged, FilesInOrder, Written, ImportedAreBehind
<1>5. BatchIsNext'
  <2>1. Len(log) \in Nat /\ cursor \in 0 .. Len(log)
    BY LenProperties DEF CollectorInvariant, TypeOK
  <2>2. 0 <= Len(log) - cursor
    BY <2>1
  <2> QED
    BY <1>1, <1>2, <2>2 DEF BatchIsNext
<1>6. RunShape' /\ BatchLinesAhead'
    BY <1>1, <1>2 DEF CollectorInvariant, RunShape, BatchLinesAhead
<1>7. ~torn' => ~torn /\ phase # "committed"
    BY <1>1
<1>8. LinesHeld'
  <2>1. \A t, l : Behind(l, t, From(t)) => \E i \in 1 .. From(t) : file[t][i] = l
    BY DEF Behind
  <2>2. \A t \in Threads : From(t)' = From(t)
    BY <1>1 DEF From
  <2>3. \A s \in Samples : ThreadOf[s] \in Threads
    BY CollectorAssumption
  <2> SUFFICES ASSUME ~torn', NEW s \in Samples, usage[s] \in Samples
               PROVE  Behind(usage[s], ThreadOf[s], From(ThreadOf[s]))'
    BY <1>1 DEF LinesHeld
  <2>4. Behind(usage[s], ThreadOf[s], From(ThreadOf[s]))
    BY <1>7 DEF CollectorInvariant, LinesHeld
  <2> QED
    BY <1>1, <2>1, <2>2, <2>3, <2>4 DEF Behind
<1>9. EachLineOnce'
    BY <1>1, <1>2, <1>7 DEF CollectorInvariant, EachLineOnce, UsedOnce
<1> QED
    BY <1>3, <1>4, <1>5, <1>6, <1>8, <1>9 DEF CollectorInvariant

\* What a run finds, in terms of the log and the files.
LEMMA SourcesRead ==
    ASSUME CollectorInvariant, ReadSources
    PROVE  LET safe == now - SafeLag
           IN  /\ safe \in Nat /\ safe \in 0 .. MaxTime
               /\ batch' \in Seq(Event)
               /\ Len(batch') <= Len(log) - cursor
               /\ \A i \in 1 .. Len(batch') :
                     LET s == log[cursor + i]
                     IN  /\ s \in Samples
                         /\ batch'[i].sample = s
                         /\ Eligible(s, safe)
                         /\ batch'[i].line
                               = Chosen(s, {batch'[j].line : j \in 1 .. i - 1}, safe)
                         /\ ThreadOf[s] \in DOMAIN ends'
               /\ \A id \in cursor + Len(batch') + 1 .. Len(log) : ~Eligible(log[id], safe)
               /\ DOMAIN ends' \subseteq Threads
               /\ \A t \in DOMAIN ends' : ends'[t] = NextOffset(t, safe) /\ safe \in cuts'[t]
<1> DEFINE safe == now - SafeLag
           rows == Observations(safe)
           m == Matched(rows, safe)
           threads == {ThreadOf[s] : s \in ToSet(rows)}
<1>1. /\ now >= SafeLag
      /\ batch' = m
      /\ ends' = [t \in threads |-> NextOffset(t, safe)]
      /\ cuts' = [t \in Threads |-> IF t \in threads THEN cuts[t] \cup {safe} ELSE cuts[t]]
    BY DEF ReadSources
<1>2. TypeOK /\ LogInOrder
    BY DEF CollectorInvariant
<1>3. safe \in Nat /\ safe \in 0 .. MaxTime
    BY <1>1, <1>2, CollectorAssumption DEF TypeOK
<1> HIDE DEF safe
<1>4. /\ rows \in Seq(Samples)
      /\ Len(rows) <= Len(log) - cursor
      /\ \A i \in 1 .. Len(rows) : rows[i] = log[cursor + i] /\ Eligible(rows[i], safe)
      /\ \A id \in cursor + Len(rows) + 1 .. Len(log) : ~Eligible(log[id], safe)
    BY <1>2, <1>3, ObservationsAreNext
<1> HIDE DEF rows
<1>5. /\ m \in Seq(Event)
      /\ Len(m) = Len(rows)
      /\ \A i \in 1 .. Len(rows) :
            /\ m[i].sample = rows[i]
            /\ m[i].line = Chosen(rows[i], {m[j].line : j \in 1 .. i - 1}, safe)
    BY <1>2, <1>3, <1>4, MatchedInTurn
<1>6. DOMAIN rows = 1 .. Len(rows) /\ \A i \in 1 .. Len(rows) : rows[i] \in Samples
    BY <1>4, LenProperties
<1>7. /\ \A i \in 1 .. Len(rows) : ThreadOf[rows[i]] \in threads
      /\ threads \subseteq Threads
    BY <1>6, CollectorAssumption DEF ToSet
<1> HIDE DEF m, threads
<1>8. DOMAIN ends' = threads /\ \A t \in threads : ends'[t] = NextOffset(t, safe)
    BY <1>1
<1>9. \A t \in threads : safe \in cuts'[t]
    BY <1>1, <1>7
<1>10. batch' \in Seq(Event) /\ Len(batch') = Len(rows)
    BY <1>1, <1>5
<1>11. ASSUME NEW i \in 1 .. Len(rows)
       PROVE  /\ log[cursor + i] \in Samples
              /\ batch'[i].sample = log[cursor + i]
              /\ Eligible(log[cursor + i], safe)
              /\ batch'[i].line
                    = Chosen(log[cursor + i], {batch'[j].line : j \in 1 .. i - 1}, safe)
              /\ ThreadOf[log[cursor + i]] \in DOMAIN ends'
  <2>1. rows[i] = log[cursor + i] /\ Eligible(rows[i], safe) /\ rows[i] \in Samples
    BY <1>4, <1>6
  <2>2. {batch'[j].line : j \in 1 .. i - 1} = {m[j].line : j \in 1 .. i - 1}
    BY <1>1
  <2>3. batch'[i].sample = rows[i]
        /\ batch'[i].line = Chosen(rows[i], {batch'[j].line : j \in 1 .. i - 1}, safe)
    BY <1>1, <1>5, <2>2
  <2> QED
    BY <1>7, <1>8, <2>1, <2>3
<1>12. \A id \in cursor + Len(batch') + 1 .. Len(log) : ~Eligible(log[id], safe)
    BY <1>4, <1>10
<1>13. /\ DOMAIN ends' \subseteq Threads
       /\ \A t \in DOMAIN ends' : ends'[t] = NextOffset(t, safe) /\ safe \in cuts'[t]
    BY <1>7, <1>8, <1>9
<1> QED
    BY <1>3, <1>4, <1>10, <1>11, <1>12, <1>13 DEF safe

\* A run starts where the durable candidate cursor is, or later.
LEMMA StartsAhead ==
    ASSUME CollectorInvariant, NEW t \in Threads
    PROVE  From(t) \in 0 .. StartOffset(t) /\ StartOffset(t) \in 0 .. Len(file[t])
<1>1. StartOffset(t) \in 0 .. Len(file[t])
    BY ReadingRange, CollectorAssumption DEF CollectorInvariant
<1>2. cursor = 0 => From(t) = 0
    BY DEF CollectorInvariant, RunShape, From
<1>3. From(t) \in Nat
    BY DEF CollectorInvariant, TypeOK, From
<1>4. From(t) <= StartOffset(t)
    BY <1>1, <1>2, <1>3 DEF From, StartOffset
<1>5. Len(file[t]) \in Nat
    BY LenProperties DEF CollectorInvariant, TypeOK
<1> QED
    BY <1>1, <1>3, <1>4, <1>5

\* Reading gathers the rows behind the cursor, none of which is imported.
LEMMA ReadStep ==
    ASSUME CollectorInvariant, ReadSources
    PROVE  CollectorInvariant'
<1> DEFINE safe == now - SafeLag
           n == Len(batch')
<1>1. /\ phase = "idle" /\ phase' = "read"
      /\ UNCHANGED <<now, log, file, cursor, offset, usage, crashes, torn>>
    BY DEF ReadSources
<1>2. /\ safe \in Nat /\ safe \in 0 .. MaxTime
      /\ batch' \in Seq(Event)
      /\ n <= Len(log) - cursor
      /\ \A i \in 1 .. n :
            /\ log[cursor + i] \in Samples
            /\ batch'[i].sample = log[cursor + i]
            /\ batch'[i].line
                  = Chosen(log[cursor + i], {batch'[j].line : j \in 1 .. i - 1}, safe)
            /\ ThreadOf[log[cursor + i]] \in DOMAIN ends'
      /\ DOMAIN ends' \subseteq Threads
      /\ \A t \in DOMAIN ends' : ends'[t] = NextOffset(t, safe)
    BY SourcesRead
<1>3. DOMAIN batch' = 1 .. n /\ n \in Nat
    BY <1>2, LenProperties
<1>4. TypeOK /\ RunShape /\ FilesInOrder /\ LinesHeld /\ EachLineOnce
    BY DEF CollectorInvariant
<1> HIDE DEF safe, n
<1>5. TypeOK'
  <2>1. cuts' \in [Threads -> SUBSET (0 .. MaxTime)]
    <3>1. cuts' = [t \in Threads |-> IF t \in {ThreadOf[s] : s \in ToSet(Observations(safe))}
                                     THEN cuts[t] \cup {safe} ELSE cuts[t]]
      BY DEF ReadSources, safe
    <3> QED
      BY <1>2, <1>4, <3>1 DEF TypeOK
  <2> QED
    BY <1>1, <1>2, <1>4, <2>1 DEF TypeOK
<1>6. BatchIsNext'
    BY <1>1, <1>2, <1>3 DEF BatchIsNext, n
<1>7. \A t \in Threads : From(t)' = From(t)
    BY <1>1 DEF From
<1>8. \A t \in DOMAIN ends' :
         /\ t \in Threads
         /\ StartOffset(t) \in Nat /\ ends'[t] \in Nat /\ Len(file[t]) \in Nat
         /\ From(t) \in 0 .. StartOffset(t)
         /\ ends'[t] \in StartOffset(t) .. Len(file[t])
         /\ ends'[t] \in From(t) .. Len(file[t])
  <2> SUFFICES ASSUME NEW t \in DOMAIN ends'
               PROVE  /\ t \in Threads
                      /\ StartOffset(t) \in Nat /\ ends'[t] \in Nat /\ Len(file[t]) \in Nat
                      /\ From(t) \in 0 .. StartOffset(t)
                      /\ ends'[t] \in StartOffset(t) .. Len(file[t])
                      /\ ends'[t] \in From(t) .. Len(file[t])
    OBVIOUS
  <2>1. t \in Threads
    BY <1>2
  <2>2. Len(file[t]) \in Nat
    BY <1>4, <2>1, LenProperties DEF TypeOK
  <2>3. ends'[t] \in StartOffset(t) .. Len(file[t])
    BY <1>2, <1>4, <2>1, ReadingRange
  <2>4. From(t) \in 0 .. StartOffset(t) /\ StartOffset(t) \in 0 .. Len(file[t])
    BY <2>1, StartsAhead
  <2> QED
    BY <2>1, <2>2, <2>3, <2>4
<1>9. RunShape'
  <2>1. \A i \in DOMAIN batch' : ThreadOf[batch'[i].sample] \in DOMAIN ends'
    BY <1>2, <1>3
  <2>2. \A t \in DOMAIN ends' : ends'[t] \in From(t)' .. Len(file'[t])
    BY <1>1, <1>7, <1>8
  <2> QED
    BY <1>1, <1>4, <2>1, <2>2 DEF RunShape
<1>10. ASSUME NEW i \in 1 .. n, batch'[i].line # Unknown
       PROVE  LET t == ThreadOf[batch'[i].sample]
                  l == batch'[i].line
              IN  /\ t \in Threads /\ t \in DOMAIN ends'
                  /\ l \notin {batch'[j].line : j \in 1 .. i - 1}
                  /\ \E k \in From(t) + 1 .. ends'[t] : k \in 1 .. Len(file[t]) /\ file[t][k] = l
  <2> DEFINE s == batch'[i].sample
             t == ThreadOf[s]
             used == {batch'[j].line : j \in 1 .. i - 1}
             l == batch'[i].line
  <2>1. s \in Samples /\ t \in Threads /\ t \in DOMAIN ends'
    BY <1>2, <1>3
  <2>2. l = Chosen(s, used, safe) /\ l # Unknown
    BY <1>2, <1>10
  <2> HIDE DEF s, used, l
  <2>3. l \notin used /\ \E k \in StartOffset(t) + 1 .. NextOffset(t, safe) : file[t][k] = l
    BY <1>2, <1>4, <2>1, <2>2, ChosenType
  <2>4. PICK k \in StartOffset(t) + 1 .. ends'[t] : file[t][k] = l
    BY <1>2, <2>1, <2>3
  <2> HIDE DEF t
  <2>5. k \in From(t) + 1 .. ends'[t] /\ k \in 1 .. Len(file[t])
    BY <1>8, <2>1, <2>4
  <2> QED
    BY <2>1, <2>3, <2>4, <2>5 DEF s, t, used, l
<1>11. BatchLinesAhead'
  <2>1. ASSUME NEW i \in 1 .. n, NEW j \in 1 .. n, i < j, batch'[i].line # Unknown
        PROVE  batch'[i].line # batch'[j].line
    <3>1. i \in 1 .. j - 1
      BY <1>3, <2>1
    <3> QED
      BY <1>10, <2>1, <3>1
  <2>2. \A i \in 1 .. n : From(ThreadOf[batch[i].sample])' = From(ThreadOf[batch'[i].sample])
    BY <1>1 DEF From
  <2>3. \A i \in 1 .. n : batch'[i].line # Unknown =>
           \E k \in From(ThreadOf[batch'[i].sample]) + 1 .. ends'[ThreadOf[batch'[i].sample]] :
               file[ThreadOf[batch'[i].sample]][k] = batch'[i].line
    BY <1>10
  <2> QED
    BY <1>1, <1>3, <2>1, <2>2, <2>3 DEF BatchLinesAhead
<1>12. LinesHeld'
  <2> SUFFICES ASSUME ~torn, NEW s \in Samples, usage[s] \in Samples
               PROVE  Behind(usage[s], ThreadOf[s], From(ThreadOf[s]))'
    BY <1>1 DEF LinesHeld
  <2>1. Behind(usage[s], ThreadOf[s], From(ThreadOf[s]))
    BY <1>1, <1>4 DEF LinesHeld
  <2> QED
    BY <1>1, <2>1 DEF Behind, From
<1>13. EachLineOnce'
  <2> SUFFICES ASSUME ~torn, NEW i \in 1 .. n, batch'[i].line # Unknown, NEW s \in Samples,
                      usage[s] = batch'[i].line
               PROVE  FALSE
    BY <1>1, <1>3, <1>4 DEF EachLineOnce, UsedOnce
  <2> DEFINE t == ThreadOf[batch'[i].sample]
             l == batch'[i].line
             u == ThreadOf[s]
  <2>1. /\ t \in Threads /\ t \in DOMAIN ends'
        /\ \E k \in From(t) + 1 .. ends'[t] : k \in 1 .. Len(file[t]) /\ file[t][k] = l
    BY <1>10
  <2> HIDE DEF t, l
  <2>2. PICK k \in From(t) + 1 .. ends'[t] : k \in 1 .. Len(file[t]) /\ file[t][k] = l
    BY <2>1
  <2>3. /\ \A v \in Threads : DOMAIN file[v] = 1 .. Len(file[v])
                              /\ \A q \in DOMAIN file[v] : file[v][q] \in Samples
    BY <1>4, LenProperties DEF TypeOK
  <2>4. l \in Samples /\ ThreadOf[l] = t
    BY <1>4, <2>1, <2>2, <2>3 DEF FilesInOrder
  <2>5. u \in Threads /\ Behind(l, u, From(u))
    BY <1>1, <1>4, <2>4, CollectorAssumption DEF LinesHeld, l
  <2> HIDE DEF u
  <2>6. PICK j \in 1 .. From(u) : file[u][j] = l
    BY <2>5 DEF Behind
  <2>7. From(u) \in 0 .. Len(file[u]) /\ Len(file[u]) \in Nat
    BY <1>4, <2>5, LenProperties DEF From, TypeOK
  <2>8. j \in DOMAIN file[u] /\ ThreadOf[l] = u
    BY <1>4, <2>3, <2>5, <2>6, <2>7 DEF FilesInOrder
  <2>9. t = u
    BY <2>4, <2>8
  <2>10. j < k /\ k \in DOMAIN file[t] /\ j \in DOMAIN file[t]
    BY <2>1, <2>2, <2>3, <2>6, <2>7, <2>8, <2>9
  <2> QED
    BY <1>4, <2>1, <2>2, <2>6, <2>9, <2>10 DEF FilesInOrder
<1>14. LogInOrder' /\ FilesInOrder' /\ ImportedAreBehind'
    BY <1>1 DEF CollectorInvariant, LogInOrder, Logged, FilesInOrder, Written, ImportedAreBehind
<1> QED
    BY <1>5, <1>6, <1>9, <1>11, <1>12, <1>13, <1>14 DEF CollectorInvariant

\* What follows the first k elements of a sequence.
LEMMA RestOfSequence ==
    ASSUME NEW S, NEW q \in Seq(S), NEW k \in 0 .. Len(q)
    PROVE  LET rest == SubSeq(q, k + 1, Len(q))
           IN  /\ rest \in Seq(S)
               /\ Len(rest) = Len(q) - k
               /\ \A i \in 1 .. Len(q) - k : rest[i] = q[k + i]
<1> DEFINE n == Len(q)
           m == k + 1
           rest == SubSeq(q, m, n)
<1>1. n \in Nat /\ k \in 0 .. n /\ \A i \in 1 .. n : q[i] \in S
    BY LenProperties
<1> HIDE DEF n
<1>2. /\ m \in Int /\ n \in Int /\ \A i \in m .. n : q[i] \in S
    BY <1>1
<1>3. n - m + 1 = n - k /\ (~(m <= n) => n - k = 0) /\ \A i \in 1 .. n - k : m + i - 1 = k + i
    BY <1>1
<1> HIDE DEF m
<1>4. /\ rest \in Seq(S)
      /\ Len(rest) = IF m <= n THEN n - m + 1 ELSE 0
      /\ \A i \in 1 .. n - m + 1 : rest[i] = q[m + i - 1]
    BY <1>2, SubSeqProperties
<1> HIDE DEF rest
<1>5. Len(rest) = n - k /\ \A i \in 1 .. n - k : rest[i] = q[k + i]
    BY <1>3, <1>4
<1> QED
    BY <1>4, <1>5 DEF n, m, rest

\* A committed chunk is the first k events of the batch, and the log cursor moves
\* over just their rows.
LEMMA ChunkCommitted ==
    ASSUME CollectorInvariant, CommitChunk
    PROVE  \E k \in 1 .. Len(batch) :
              /\ cursor' = cursor + k /\ cursor' \in 1 .. Len(log)
              /\ batch' \in Seq(Event)
              /\ Len(batch') = Len(batch) - k
              /\ \A i \in 1 .. Len(batch) - k : batch'[i] = batch[k + i]
              /\ usage' \in [Samples -> Samples \cup {Missing, Unknown}]
              /\ \A s \in Samples :
                    \/ usage'[s] = usage[s] /\ \A i \in 1 .. k : batch[i].sample # s
                    \/ \E i \in 1 .. k : batch[i].sample = s /\ usage'[s] = batch[i].line
<1> DEFINE len == Len(batch)
           k == IF len < ChunkSize THEN len ELSE ChunkSize
           q == SubSeq(batch, 1, k)
<1>1. /\ batch # << >> /\ batch \in Seq(Event) /\ len \in Nat /\ DOMAIN batch = 1 .. len
      /\ \A i \in 1 .. len : batch[i] \in Event
    BY LenProperties DEF CommitChunk, CollectorInvariant, TypeOK
<1>2. len # 0
    BY <1>1, EmptySeq
<1>3. k \in 1 .. len
    BY <1>1, <1>2, CollectorAssumption
<1>4. Chunk = q
    BY DEF Chunk
<1> HIDE DEF len, k
<1>5. 1 \in 1 .. len + 1 /\ k \in 1 - 1 .. len /\ k - 1 + 1 = k /\ \A i \in 1 .. k : i + 1 - 1 = i
    BY <1>1, <1>3
<1>6. /\ Len(q) = k /\ q \in Seq(Event) /\ DOMAIN q = 1 .. k
      /\ \A i \in 1 .. k : q[i] = batch[i] /\ i \in 1 .. len
  <2>1. \A i \in 1 .. k : i \in 1 .. len
    BY <1>1, <1>3
  <2>2. q \in Seq(Event) /\ Len(q) = k
    BY <1>1, <1>3, <2>1, SubSeqProperties DEF len
  <2>3. \A i \in 1 .. k : q[i] = batch[i]
    BY <1>1, <1>3, <2>1, <2>2, SubSeqProperties DEF len
  <2> QED
    BY <2>1, <2>2, <2>3, LenProperties
<1>7. /\ len <= Len(log) - cursor /\ \A i \in 1 .. len : batch[i].sample = log[cursor + i]
    BY <1>1 DEF CollectorInvariant, BatchIsNext, len
<1>8. /\ Len(log) \in Nat /\ DOMAIN log = 1 .. Len(log) /\ cursor \in 0 .. Len(log)
      /\ \A i, j \in DOMAIN log : i # j => log[i] # log[j]
  <2>1. Len(log) \in Nat /\ DOMAIN log = 1 .. Len(log)
    BY LenProperties DEF CollectorInvariant, TypeOK
  <2>2. \A i, j \in DOMAIN log : i < j => log[i] # log[j]
    BY DEF CollectorInvariant, LogInOrder
  <2>3. \A i, j \in 1 .. Len(log) : i # j => i < j \/ j < i
    OBVIOUS
  <2>4. cursor \in 0 .. Len(log)
    BY DEF CollectorInvariant, TypeOK
  <2> QED
    BY <2>1, <2>2, <2>3, <2>4
<1>9. \A i \in 1 .. len : cursor + i \in DOMAIN log
    BY <1>1, <1>7, <1>8
<1> HIDE DEF q
<1>10. cursor' = cursor + k /\ cursor' \in 1 .. Len(log)
  <2>1. Last(Chunk) = batch[k]
    BY <1>3, <1>4, <1>6 DEF Last
  <2>2. cursor' = IdOf(log[cursor + k])
    BY <1>3, <1>7, <2>1 DEF CommitChunk, ChunkEnd
  <2>3. cursor + k \in DOMAIN log
    BY <1>3, <1>9
  <2>4. IdOf(log[cursor + k]) = cursor + k
    BY <1>8, <2>3 DEF IdOf
  <2> QED
    BY <1>3, <1>8, <2>2, <2>3, <2>4
<1>11. /\ batch' \in Seq(Event)
       /\ Len(batch') = len - k
       /\ \A i \in 1 .. len - k : batch'[i] = batch[k + i]
  <2>1. batch' = SubSeq(batch, k + 1, len)
    BY <1>4, <1>6 DEF CommitChunk, len
  <2>2. k \in 0 .. Len(batch)
    BY <1>1, <1>3 DEF len
  <2> QED
    BY <1>1, <2>1, <2>2, RestOfSequence DEF len
<1>12. ASSUME NEW s \in Samples
       PROVE  /\ usage'[s] \in Samples \cup {Missing, Unknown}
              /\ \/ usage'[s] = usage[s] /\ \A i \in 1 .. k : batch[i].sample # s
                 \/ \E i \in 1 .. k : batch[i].sample = s /\ usage'[s] = batch[i].line
  <2>1. usage'[s] = IF \E i \in DOMAIN q : q[i].sample = s
                    THEN q[CHOOSE i \in DOMAIN q : q[i].sample = s].line
                    ELSE usage[s]
    BY <1>4 DEF CommitChunk
  <2>2. CASE \E i \in DOMAIN q : q[i].sample = s
    <3> DEFINE i == CHOOSE j \in DOMAIN q : q[j].sample = s
    <3>1. i \in DOMAIN q /\ q[i].sample = s
      BY <2>2
    <3>2. usage'[s] = q[i].line
      BY <2>1, <2>2
    <3> HIDE DEF i
    <3>3. i \in 1 .. k /\ batch[i].sample = s /\ usage'[s] = batch[i].line /\ batch[i] \in Event
      BY <1>1, <1>6, <3>1, <3>2
    <3> QED
      BY <3>3 DEF Event
  <2>3. CASE ~\E i \in DOMAIN q : q[i].sample = s
    <3>1. usage[s] \in Samples \cup {Missing, Unknown}
      BY DEF CollectorInvariant, TypeOK
    <3> QED
      BY <1>6, <2>1, <2>3, <3>1
  <2> QED
    BY <2>2, <2>3
<1>13. usage' \in [Samples -> Samples \cup {Missing, Unknown}]
  <2>1. \E u : usage' = [s \in Samples |-> u[s]]
    <3>1. usage' = [s \in Samples |-> usage'[s]]
      BY DEF CommitChunk
    <3> QED
      BY <3>1
  <2> QED
    BY <1>12, <2>1
<1> QED
    BY <1>3, <1>10, <1>11, <1>12, <1>13 DEF len

\* A chunk is stored with the cursor behind it.
LEMMA CommitChunkStep ==
    ASSUME CollectorInvariant, CommitChunk
    PROVE  CollectorInvariant'
<1> DEFINE len == Len(batch)
<1>1. /\ phase' = "committed"
      /\ UNCHANGED <<now, log, file, offset, ends, crashes, torn, cuts>>
    BY DEF CommitChunk
<1>2. PICK k \in 1 .. len :
         /\ cursor' = cursor + k /\ cursor' \in 1 .. Len(log)
         /\ batch' \in Seq(Event)
         /\ Len(batch') = len - k
         /\ \A i \in 1 .. len - k : batch'[i] = batch[k + i]
         /\ usage' \in [Samples -> Samples \cup {Missing, Unknown}]
         /\ \A s \in Samples :
               \/ usage'[s] = usage[s] /\ \A i \in 1 .. k : batch[i].sample # s
               \/ \E i \in 1 .. k : batch[i].sample = s /\ usage'[s] = batch[i].line
    BY ChunkCommitted
<1>3. /\ TypeOK /\ RunShape /\ BatchIsNext /\ ImportedAreBehind /\ LinesHeld /\ EachLineOnce
      /\ BatchLinesAhead /\ LogInOrder
    BY DEF CollectorInvariant
<1>4. /\ len \in Nat /\ DOMAIN batch = 1 .. len /\ Len(log) \in Nat /\ cursor \in 0 .. Len(log)
      /\ batch \in Seq(Event) /\ \A i \in 1 .. len : batch[i] \in Event
    BY <1>3, LenProperties DEF TypeOK
<1> HIDE DEF len
<1>5. DOMAIN batch' = 1 .. len - k
    BY <1>2, LenProperties
<1>6. \A i \in 1 .. len - k : k + i \in 1 .. len
    BY <1>2, <1>4
<1>7. \A i \in 1 .. k : i \in 1 .. len
    BY <1>2, <1>4
<1>8. TypeOK'
  <2>1. cursor' \in 0 .. Len(log)
    BY <1>2, <1>4
  <2> QED
    BY <1>1, <1>2, <1>3, <2>1 DEF TypeOK
<1>9. ImportedAreBehind'
  <2>1. \A i \in 1 .. len : batch[i].sample = log[cursor + i] /\ batch[i].line # Missing
    BY <1>3, <1>4, CollectorAssumption DEF BatchIsNext, Event
  <2>2. ASSUME NEW s \in Samples, usage'[s] # Missing PROVE \E id \in 1 .. cursor' : log[id] = s
    <3>1. CASE usage'[s] = usage[s]
      <4>1. PICK id \in 1 .. cursor : log[id] = s
        BY <1>3, <2>2, <3>1 DEF ImportedAreBehind
      <4>2. id \in 1 .. cursor'
        BY <1>2, <1>4, <4>1
      <4> QED
        BY <4>1, <4>2
    <3>2. CASE \E i \in 1 .. k : batch[i].sample = s
      <4>1. PICK i \in 1 .. k : batch[i].sample = s
        BY <3>2
      <4>2. cursor + i \in 1 .. cursor'
        BY <1>2, <1>4, <4>1
      <4>3. log[cursor + i] = s
        BY <1>7, <2>1, <4>1
      <4> QED
        BY <4>2, <4>3
    <3> QED
      BY <1>2, <3>1, <3>2
  <2>3. ASSUME NEW s \in Samples, NEW id \in 1 .. cursor', log[id] = s PROVE usage'[s] # Missing
    <3>1. CASE id \in 1 .. cursor
      <4>1. usage[s] # Missing
        BY <1>3, <2>3, <3>1 DEF ImportedAreBehind
      <4> QED
        BY <1>2, <1>7, <2>1, <4>1
    <3>2. CASE id \notin 1 .. cursor
      <4>1. id - cursor \in 1 .. k /\ cursor + (id - cursor) = id
        BY <1>2, <1>4, <2>3, <3>2
      <4>2. batch[id - cursor].sample = s
        BY <1>7, <2>1, <2>3, <4>1
      <4> QED
        BY <1>2, <1>7, <2>1, <4>1, <4>2
    <3> QED
      BY <3>1, <3>2
  <2> QED
    BY <1>1, <2>2, <2>3 DEF ImportedAreBehind
<1>10. BatchIsNext'
  <2>1. len <= Len(log) - cursor /\ \A i \in 1 .. len : batch[i].sample = log[cursor + i]
    BY <1>3, <1>4 DEF BatchIsNext, len
  <2>2. len - k <= Len(log) - cursor'
    BY <1>2, <1>4, <2>1
  <2>3. \A i \in 1 .. len - k : cursor + (k + i) = cursor' + i
    BY <1>2, <1>4
  <2>4. Len(batch') <= Len(log') - cursor'
    <3>1. log' = log /\ Len(batch') = len - k
      BY <1>1, <1>2
    <3> QED
      BY <2>2, <3>1
  <2>5. ASSUME NEW i \in 1 .. len - k PROVE batch'[i].sample = log'[cursor' + i]
    <3>1. batch'[i] = batch[k + i] /\ k + i \in 1 .. len
      BY <1>2, <1>6
    <3>2. batch[k + i].sample = log[cursor + (k + i)]
      BY <2>1, <3>1
    <3> QED
      BY <1>1, <2>3, <3>1, <3>2
  <2> QED
    BY <1>5, <1>6, <2>4, <2>5 DEF BatchIsNext
<1>11. RunShape'
  <2>1. cursor' # 0
    BY <1>2, <1>4
  <2>2. ASSUME NEW i \in 1 .. len - k PROVE ThreadOf[batch'[i].sample] \in DOMAIN ends
    <3>1. batch'[i] = batch[k + i] /\ k + i \in DOMAIN batch
      BY <1>2, <1>4, <1>6
    <3> QED
      BY <1>3, <3>1 DEF RunShape
  <2> QED
    BY <1>1, <1>3, <1>5, <2>1, <2>2 DEF RunShape, From
<1>12. BatchLinesAhead'
  <2>1. ASSUME NEW i \in 1 .. len - k, batch'[i].line # Unknown
        PROVE  \E n \in From(ThreadOf[batch'[i].sample]) + 1 .. ends[ThreadOf[batch'[i].sample]] :
                   file[ThreadOf[batch'[i].sample]][n] = batch'[i].line
    <3>1. batch'[i] = batch[k + i] /\ k + i \in DOMAIN batch
      BY <1>2, <1>4, <1>6
    <3> QED
      BY <1>3, <2>1, <3>1 DEF BatchLinesAhead
  <2>2. ASSUME NEW i \in 1 .. len - k, NEW j \in 1 .. len - k, i < j, batch'[i].line # Unknown
        PROVE  batch'[i].line # batch'[j].line
    <3>1. /\ batch'[i] = batch[k + i] /\ k + i \in DOMAIN batch
          /\ batch'[j] = batch[k + j] /\ k + j \in DOMAIN batch
          /\ k + i < k + j
      BY <1>2, <1>4, <1>6, <2>2
    <3> QED
      BY <1>3, <2>2, <3>1 DEF BatchLinesAhead
  <2> QED
    BY <1>1, <1>5, <2>1, <2>2 DEF BatchLinesAhead, From
<1>13. LinesHeld'
  <2> SUFFICES ASSUME ~torn, NEW s \in Samples, usage'[s] \in Samples
               PROVE  \/ Behind(usage'[s], ThreadOf[s], From(ThreadOf[s]))
                      \/ /\ ThreadOf[s] \in DOMAIN ends
                         /\ Behind(usage'[s], ThreadOf[s], ends[ThreadOf[s]])
    BY <1>1 DEF LinesHeld, From, Behind
  <2>1. CASE usage'[s] = usage[s]
    BY <1>3, <2>1 DEF LinesHeld
  <2>2. CASE \E i \in 1 .. k : batch[i].sample = s /\ usage'[s] = batch[i].line
    <3> DEFINE t == ThreadOf[s]
               l == usage'[s]
    <3>1. PICK i \in 1 .. k : batch[i].sample = s /\ l = batch[i].line
      BY <2>2
    <3>2. i \in DOMAIN batch /\ l # Unknown /\ t \in DOMAIN ends /\ t \in Threads
      BY <1>3, <1>4, <1>7, <3>1, CollectorAssumption DEF RunShape
    <3>3. PICK n \in From(t) + 1 .. ends[t] : file[t][n] = l
      BY <1>3, <3>1, <3>2 DEF BatchLinesAhead
    <3> HIDE DEF t, l
    <3>4. From(t) \in Nat /\ ends[t] \in From(t) .. Len(file[t]) /\ Len(file[t]) \in Nat
      BY <1>3, <3>2, LenProperties DEF RunShape, From, TypeOK
    <3>5. n \in 1 .. ends[t]
      BY <3>3, <3>4
    <3> QED
      BY <3>2, <3>3, <3>5 DEF Behind, t, l
  <2> QED
    BY <1>2, <2>1, <2>2
<1>14. ASSUME ~torn PROVE UsedOnce' /\ \A i \in 1 .. len - k : batch'[i].line # Unknown =>
                                           \A s \in Samples : usage'[s] # batch'[i].line
  <2>1. /\ UsedOnce
        /\ \A i \in 1 .. len : batch[i].line # Unknown => \A s \in Samples : usage[s] # batch[i].line
        /\ \A i, j \in 1 .. len : i < j /\ batch[i].line # Unknown => batch[i].line # batch[j].line
    BY <1>3, <1>4, <1>14 DEF EachLineOnce, BatchLinesAhead
  <2>2. UsedOnce'
    <3> SUFFICES ASSUME NEW r \in Samples, NEW s \in Samples, r # s, usage'[r] = usage'[s],
                        usage'[r] \notin {Missing, Unknown}
                 PROVE  FALSE
      BY DEF UsedOnce
    <3>1. ~(usage'[r] = usage[r] /\ usage'[s] = usage[s])
      BY <2>1 DEF UsedOnce
    <3>2. ASSUME NEW a \in Samples, NEW b \in Samples, usage'[a] = usage'[b],
                 usage'[a] # Unknown, usage'[a] = usage[a],
                 NEW i \in 1 .. k, usage'[b] = batch[i].line
          PROVE  FALSE
      BY <1>7, <2>1, <3>2
    <3>3. ASSUME NEW i \in 1 .. k, NEW j \in 1 .. k,
                 batch[i].sample = r, batch[j].sample = s,
                 usage'[r] = batch[i].line, usage'[s] = batch[j].line
          PROVE  FALSE
      <4>1. i # j /\ (i < j \/ j < i) /\ i \in 1 .. len /\ j \in 1 .. len
        BY <1>2, <1>4, <1>7, <3>3
      <4> QED
        BY <2>1, <3>3, <4>1
    <3> QED
      BY <1>2, <3>1, <3>2, <3>3
  <2>3. ASSUME NEW i \in 1 .. len - k, batch'[i].line # Unknown, NEW s \in Samples,
               usage'[s] = batch'[i].line
        PROVE  FALSE
    <3>1. batch'[i] = batch[k + i] /\ k + i \in 1 .. len
      BY <1>2, <1>6
    <3>2. CASE usage'[s] = usage[s]
      BY <2>1, <2>3, <3>1, <3>2
    <3>3. CASE \E j \in 1 .. k : batch[j].sample = s /\ usage'[s] = batch[j].line
      <4>1. PICK j \in 1 .. k : usage'[s] = batch[j].line
        BY <3>3
      <4>2. j < k + i /\ j \in 1 .. len
        BY <1>2, <1>4, <4>1
      <4> QED
        BY <2>1, <2>3, <3>1, <4>1, <4>2
    <3> QED
      BY <1>2, <3>2, <3>3
  <2> QED
    BY <2>2, <2>3
<1>15. EachLineOnce'
    BY <1>1, <1>5, <1>14 DEF EachLineOnce
<1>16. LogInOrder' /\ FilesInOrder'
    BY <1>1 DEF CollectorInvariant, LogInOrder, Logged, FilesInOrder, Written
<1> QED
    BY <1>8, <1>9, <1>10, <1>11, <1>12, <1>13, <1>15, <1>16 DEF CollectorInvariant

\* The offset of a thread moves to where its candidates ended.
LEMMA CommitCursorStep ==
    ASSUME CollectorInvariant, NEW t \in Threads, CommitCandidateCursor(t)
    PROVE  CollectorInvariant'
<1>1. /\ phase = "committed" /\ batch = << >> /\ t \in DOMAIN ends
      /\ offset' = [offset EXCEPT ![t] = ends[t]]
      /\ ends' = [u \in DOMAIN ends \ {t} |-> ends[u]]
      /\ phase' = IF DOMAIN ends = {t} THEN "idle" ELSE "committed"
      /\ UNCHANGED <<now, log, file, cursor, usage, batch, crashes, torn, cuts>>
    BY DEF CommitCandidateCursor
<1>2. /\ TypeOK /\ RunShape /\ LinesHeld
    BY DEF CollectorInvariant
<1>3. \A u \in Threads : From(u) \in Nat /\ Len(file[u]) \in Nat
    BY <1>2, LenProperties DEF TypeOK, From
<1>4. ends[t] \in From(t) .. Len(file[t]) /\ ends[t] \in Nat /\ ends[t] # NoCursor
    BY <1>1, <1>2, <1>3, CollectorAssumption DEF RunShape
<1>5. /\ offset' \in [Threads -> Nat \cup {NoCursor}]
      /\ offset'[t] = ends[t]
      /\ \A u \in Threads : u # t => offset'[u] = offset[u]
    BY <1>1, <1>2, <1>4 DEF TypeOK
<1>6. /\ From(t)' = ends[t]
      /\ \A u \in Threads : u # t => From(u)' = From(u)
    BY <1>4, <1>5 DEF From
<1>7. DOMAIN ends' = DOMAIN ends \ {t} /\ \A u \in DOMAIN ends' : ends'[u] = ends[u]
    BY <1>1
<1>8. DOMAIN batch = {}
    BY <1>1
<1>9. TypeOK'
  <2>1. ASSUME NEW u \in Threads, offset'[u] # NoCursor PROVE offset'[u] <= Len(file[u])
    <3>1. CASE u = t
      BY <1>4, <1>5, <3>1
    <3>2. CASE u # t
      <4>1. offset'[u] = offset[u] /\ offset[u] # NoCursor
        BY <1>5, <2>1, <3>2
      <4> QED
        BY <1>2, <4>1 DEF TypeOK
    <3> QED
      BY <3>1, <3>2
  <2>2. DOMAIN ends' \subseteq Threads
    BY <1>2, <1>7 DEF TypeOK
  <2>3. phase' \in {"idle", "committed"}
    BY <1>1
  <2> QED
    BY <1>1, <1>2, <1>5, <2>1, <2>2, <2>3 DEF TypeOK
<1>10. RunShape'
  <2>1. cursor # 0
    BY <1>1, <1>2 DEF RunShape
  <2>2. phase' = "idle" => DOMAIN ends' = {}
    BY <1>1, <1>7
  <2>3. \A u \in DOMAIN ends' : ends'[u] \in From(u)' .. Len(file[u])
    BY <1>2, <1>6, <1>7 DEF RunShape, TypeOK
  <2> QED
    BY <1>1, <1>8, <2>1, <2>2, <2>3 DEF RunShape
<1>11. LinesHeld'
  <2> SUFFICES ASSUME ~torn, NEW s \in Samples, usage[s] \in Samples
               PROVE  \/ Behind(usage[s], ThreadOf[s], From(ThreadOf[s])')
                      \/ /\ phase' = "committed"
                         /\ ThreadOf[s] \in DOMAIN ends'
                         /\ Behind(usage[s], ThreadOf[s], ends'[ThreadOf[s]])
    BY <1>1 DEF LinesHeld, Behind
  <2> DEFINE u == ThreadOf[s]
             l == usage[s]
  <2>1. /\ u \in Threads
        /\ \/ Behind(l, u, From(u))
           \/ u \in DOMAIN ends /\ Behind(l, u, ends[u])
    BY <1>2, CollectorAssumption DEF LinesHeld
  <2> HIDE DEF u, l
  <2>2. CASE u = t
    <3>1. CASE Behind(l, t, From(t))
      <4>1. PICK i \in 1 .. From(t) : file[t][i] = l
        BY <3>1 DEF Behind
      <4>2. i \in 1 .. ends[t]
        BY <1>3, <1>4, <4>1
      <4>3. Behind(l, t, ends[t])
        BY <4>1, <4>2 DEF Behind
      <4> QED
        BY <1>6, <2>2, <4>3 DEF u, l
    <3>2. CASE Behind(l, t, ends[t])
      BY <1>6, <2>2, <3>2 DEF u, l
    <3> QED
      BY <2>1, <2>2, <3>1, <3>2
  <2>3. CASE u # t
    <3>1. CASE Behind(l, u, From(u))
      BY <1>6, <2>1, <2>3, <3>1 DEF u, l
    <3>2. CASE u \in DOMAIN ends /\ Behind(l, u, ends[u])
      <4>1. u \in DOMAIN ends' /\ phase' = "committed" /\ ends'[u] = ends[u]
        BY <1>1, <1>7, <2>3, <3>2
      <4> QED
        BY <3>2, <4>1 DEF u, l
    <3> QED
      BY <2>1, <3>1, <3>2
  <2> QED
    BY <2>2, <2>3
<1>12. BatchIsNext' /\ BatchLinesAhead' /\ EachLineOnce'
    BY <1>1, <1>8 DEF CollectorInvariant, BatchIsNext, BatchLinesAhead, EachLineOnce, UsedOnce
<1>13. LogInOrder' /\ FilesInOrder' /\ ImportedAreBehind'
    BY <1>1 DEF CollectorInvariant, LogInOrder, Logged, FilesInOrder, Written, ImportedAreBehind
<1> QED
    BY <1>9, <1>10, <1>11, <1>12, <1>13 DEF CollectorInvariant

\* Every step preserves the invariant of the import.
LEMMA CollectorNext == CollectorInvariant /\ [Next]_vars => CollectorInvariant'
<1> SUFFICES ASSUME CollectorInvariant, [Next]_vars
             PROVE  CollectorInvariant'
    OBVIOUS
<1>1. ASSUME NEW s \in Samples, AppendRow(s) PROVE CollectorInvariant'
    BY <1>1, AppendRowStep
<1>2. ASSUME NEW s \in Samples, AppendLine(s) PROVE CollectorInvariant'
    BY <1>2, AppendLineStep
<1>3. CASE Tick
    BY <1>3, TickStep
<1>4. CASE ReadSources
    BY <1>4, ReadStep
<1>5. CASE CommitChunk
    BY <1>5, CommitChunkStep
<1>6. ASSUME NEW t \in Threads, CommitCandidateCursor(t) PROVE CollectorInvariant'
    BY <1>6, CommitCursorStep
<1>7. CASE Crash
    BY <1>7, CrashStep
<1>8. CASE UNCHANGED vars
    BY <1>8 DEF vars, CollectorInvariant, TypeOK, LogInOrder, Logged, FilesInOrder, Written,
                ImportedAreBehind, BatchIsNext, RunShape, BatchLinesAhead, LinesHeld,
                EachLineOnce, UsedOnce, From, Behind
<1> QED
    BY <1>1, <1>2, <1>3, <1>4, <1>5, <1>6, <1>7, <1>8 DEF Next, Codex, Import

-----------------------------------------------------------------------------
(* The theorems about the import.                                          *)

\* The inductive invariant of the import.
THEOREM CollectorInvariantHolds == Spec => []CollectorInvariant
BY CollectorInit, CollectorNext, PTL DEF Spec

\* Type correctness of the import.
THEOREM TypeCorrect == Spec => []TypeOK
<1>1. CollectorInvariant => TypeOK
    BY DEF CollectorInvariant
<1> QED
    BY <1>1, CollectorInvariantHolds, PTL

\* Every row the log cursor has passed is an event, for every chunk size and after
\* every crash between two chunks.
THEOREM NoSampleSkippedHolds == Spec => []NoSampleSkipped
<1>1. CollectorInvariant => NoSampleSkipped
  <2> SUFFICES ASSUME CollectorInvariant, NEW id \in 1 .. cursor
               PROVE  usage[log[id]] # Missing
    BY DEF NoSampleSkipped
  <2>1. log \in Seq(Samples) /\ cursor \in 0 .. Len(log)
    BY DEF CollectorInvariant, TypeOK
  <2>2. id \in 1 .. Len(log) /\ log[id] \in Samples
    BY <2>1, LenProperties
  <2> QED
    BY <2>2 DEF CollectorInvariant, ImportedAreBehind
<1> QED
    BY <1>1, CollectorInvariantHolds, PTL

\* Without a torn run the tokens of a line are counted once.
THEOREM OneToOneUnlessTornHolds == Spec => []OneToOneUnlessTorn
<1>1. CollectorInvariant => OneToOneUnlessTorn
    BY DEF CollectorInvariant, EachLineOnce, OneToOneUnlessTorn
<1> QED
    BY <1>1, CollectorInvariantHolds, PTL

\* An event is never changed: a committed row is not in a batch again, not even
\* after a crash.
THEOREM ImportIsFinalHolds == Spec => ImportIsFinal
<1>1. CollectorInvariant /\ [Next]_vars =>
         [\A s \in Samples : usage[s] # Missing => usage'[s] = usage[s]]_vars
  <2> SUFFICES ASSUME CollectorInvariant, Next, NEW s \in Samples, usage[s] # Missing
               PROVE  usage'[s] = usage[s]
    OBVIOUS
  <2>1. CASE CommitChunk
    <3>1. PICK k \in 1 .. Len(batch) :
             \/ usage'[s] = usage[s]
             \/ \E i \in 1 .. k : batch[i].sample = s
      BY <2>1, ChunkCommitted
    <3>2. ASSUME NEW i \in 1 .. k, batch[i].sample = s PROVE FALSE
      <4>1. /\ Len(batch) \in Nat /\ DOMAIN batch = 1 .. Len(batch)
            /\ Len(log) \in Nat /\ DOMAIN log = 1 .. Len(log)
            /\ cursor \in 0 .. Len(log)
        BY LenProperties DEF CollectorInvariant, TypeOK
      <4>2. /\ i \in DOMAIN batch /\ Len(batch) <= Len(log) - cursor
            /\ log[cursor + i] = s
        <5>1. /\ Len(batch) <= Len(log) - cursor
              /\ \A j \in DOMAIN batch : batch[j].sample = log[cursor + j]
          BY DEF CollectorInvariant, BatchIsNext
        <5>2. i \in DOMAIN batch
          BY <3>1, <3>2, <4>1
        <5> QED
          BY <3>2, <5>1, <5>2
      <4>3. PICK id \in 1 .. cursor : log[id] = s
        <5>1. ImportedAreBehind
          BY DEF CollectorInvariant
        <5> QED
          BY <5>1 DEF ImportedAreBehind
      <4>4. id < cursor + i /\ id \in DOMAIN log /\ cursor + i \in DOMAIN log
        BY <4>1, <4>2, <4>3
      <4> QED
        BY <4>2, <4>3, <4>4 DEF CollectorInvariant, LogInOrder
    <3> QED
      BY <3>1, <3>2
  <2>2. CASE ~CommitChunk
    BY <2>2 DEF Next, Codex, AppendRow, AppendLine, Tick, Import, ReadSources,
                CommitCandidateCursor, Crash
  <2> QED
    BY <2>1, <2>2
<1> QED
    BY <1>1, CollectorInvariantHolds, PTL DEF Spec, ImportIsFinal

-----------------------------------------------------------------------------
(* The matching.                                                           *)

\* A thread that fits in the tail is read from the candidate cursor, or whole.
LEMMA WholeThreadsRead ==
    ASSUME CollectorInvariant, TailHoldsThread, NEW t \in Threads
    PROVE  StartOffset(t) = From(t)
<1> DEFINE n == Len(file[t])
           T == {s \in Samples : ThreadOf[s] = t}
<1>1. /\ file[t] \in Seq(Samples) /\ n \in Nat /\ DOMAIN file[t] = 1 .. n
      /\ \A i \in 1 .. n : file[t][i] \in Samples
    BY LenProperties DEF CollectorInvariant, TypeOK
<1>2. /\ \A i \in 1 .. n : file[t][i] \in T
      /\ \A i, j \in 1 .. n : i # j => file[t][i] # file[t][j]
  <2>1. \A i \in 1 .. n : ThreadOf[file[t][i]] = t
    BY <1>1 DEF CollectorInvariant, FilesInOrder
  <2>2. \A i, j \in 1 .. n : i < j => file[t][i] # file[t][j]
    BY <1>1 DEF CollectorInvariant, FilesInOrder
  <2>3. \A i, j \in 1 .. n : i # j => i < j \/ j < i
    BY <1>1
  <2> QED
    BY <1>1, <2>1, <2>2, <2>3
<1>3. IsFiniteSet(T) /\ Cardinality(T) \in Nat /\ Cardinality(T) <= TailLines
    BY CollectorAssumption, FS_Subset, FS_CardinalityType DEF TailHoldsThread
<1>4. IsFiniteSet(1 .. n) /\ Cardinality(1 .. n) = n
    BY <1>1, FS_Interval
<1> HIDE DEF n, T
<1>5. ~(n > TailLines)
  <2> SUFFICES ASSUME n > TailLines PROVE FALSE
    OBVIOUS
  <2>1. Cardinality(T) < Cardinality(1 .. n)
    BY <1>1, <1>3, <1>4, CollectorAssumption
  <2> DEFINE f == [i \in 1 .. n |-> file[t][i]]
  <2>2. f \in [1 .. n -> T]
    BY <1>2
  <2> HIDE DEF f
  <2>3. PICK i \in 1 .. n, j \in 1 .. n : i # j /\ f[i] = f[j]
    BY <1>3, <1>4, <2>1, <2>2, FS_PigeonHole
  <2> QED
    BY <1>2, <2>3 DEF f
<1>6. cursor = 0 => From(t) = 0
    BY DEF CollectorInvariant, RunShape, From
<1> QED
    BY <1>5, <1>6 DEF StartOffset, From, n

\* What was clear with more watermarks was so with fewer.
LEMMA ClearStays ==
    ASSUME \A t \in Threads : cuts[t] \subseteq cuts'[t], NEW s \in Samples, Clear(s)'
    PROVE  Clear(s)
<1>1. ThreadOf[s] \in Threads
    BY CollectorAssumption
<1>2. ~Parted(s)' => ~Parted(s)
    BY <1>1 DEF Parted
<1> QED
    BY <1>2 DEF Clear, Isolated

\* The events to be committed.
LEMMA BatchTyped ==
    ASSUME CollectorInvariant
    PROVE  /\ Len(batch) \in Nat /\ DOMAIN batch = 1 .. Len(batch)
           /\ \A i \in DOMAIN batch : /\ batch[i].sample \in Samples
                                     /\ batch[i].line \in Samples \cup {Unknown}
                                     /\ batch[i].line # Missing
<1>1. batch \in Seq(Event)
    BY DEF CollectorInvariant, TypeOK
<1>2. /\ Len(batch) \in Nat /\ DOMAIN batch = 1 .. Len(batch)
      /\ \A i \in DOMAIN batch : batch[i] \in Event
    BY <1>1, LenProperties
<1>3. \A e \in Event : /\ e.sample \in Samples
                      /\ e.line \in Samples \cup {Unknown}
                      /\ e.line # Missing
    BY CollectorAssumption DEF Event
<1> QED
    BY <1>2, <1>3

\* At the beginning no sample waits for a match.
LEMMA MatchInit == Init => MatchInvariant
<1> SUFFICES ASSUME Init PROVE MatchInvariant
    OBVIOUS
<1>1. \A s \in Samples : ObservedAt[s] \in Nat /\ LineAt[s] \in Nat /\ WriteDelay \in Nat
    BY CollectorAssumption
<1>2. OnDiskInTime
    BY <1>1 DEF OnDiskInTime, Init
<1>3. \A t : t \notin DOMAIN ends
    BY DEF Init
<1>4. \A s \in Samples : ~Behind(s, ThreadOf[s], From(ThreadOf[s]))
    BY CollectorAssumption DEF Init, Behind, From
<1>5. LinesTakenWithRows
    BY <1>3, <1>4 DEF LinesTakenWithRows
<1>6. \A i : i \notin DOMAIN batch
    BY DEF Init
<1> QED
    BY <1>2, <1>5, <1>6 DEF MatchInvariant, Init

\* Codex and the clock.
LEMMA MatchCodex ==
    ASSUME CollectorInvariant, MatchInvariant,
           \/ \E s \in Samples : AppendRow(s) \/ AppendLine(s)
           \/ Tick
    PROVE  MatchInvariant'
<1>1. UNCHANGED <<cursor, offset, usage, phase, batch, ends, crashes, torn, cuts>>
    BY DEF AppendRow, AppendLine, Tick
<1>2. OnDiskInTime /\ (~torn => LinesTakenWithRows)
    BY DEF MatchInvariant
<1>3. OnDiskInTime'
  <2>1. ASSUME NEW s \in Samples, AppendRow(s) PROVE OnDiskInTime'
    <3>1. log' = Append(log, s) /\ log \in Seq(Samples) /\ UNCHANGED <<now, file>>
      BY <2>1 DEF AppendRow, CollectorInvariant, TypeOK
    <3>2. \A i \in DOMAIN log : i \in DOMAIN log' /\ log'[i] = log[i]
      BY <3>1, AppendProperties, LenProperties
    <3>3. \A r \in Samples : Logged(r) => Logged(r)'
      BY <3>2 DEF Logged, ToSet
    <3> QED
      BY <1>2, <3>1, <3>3 DEF OnDiskInTime, Written
  <2>2. ASSUME NEW s \in Samples, AppendLine(s) PROVE OnDiskInTime'
    <3>1. UNCHANGED <<now, log>>
      BY <2>2 DEF AppendLine
    <3>2. \A t \in Threads : \A i \in DOMAIN file[t] : i \in DOMAIN file'[t] /\ file'[t][i] = file[t][i]
      <4>1. /\ file \in [Threads -> Seq(Samples)] /\ file' \in [Threads -> Seq(Samples)]
            /\ \A t \in Threads :
                 /\ Len(file[t]) \in Nat /\ Len(file'[t]) \in Nat
                 /\ Len(file[t]) <= Len(file'[t])
                 /\ \A i \in 1 .. Len(file[t]) : file'[t][i] = file[t][i]
        BY <2>2, FilesGrow DEF CollectorInvariant, TypeOK
      <4>2. \A t \in Threads : DOMAIN file[t] = 1 .. Len(file[t]) /\ DOMAIN file'[t] = 1 .. Len(file'[t])
        BY <4>1, LenProperties
      <4> QED
        BY <4>1, <4>2
    <3>3. \A r \in Samples : Written(r) => Written(r)'
      BY <3>2, CollectorAssumption DEF Written, ToSet
    <3> QED
      BY <1>2, <3>1, <3>3 DEF OnDiskInTime, Logged
  <2>3. CASE Tick
    <3>1. /\ now' = now + 1 /\ UNCHANGED <<log, file>>
          /\ \A s \in Samples : ObservedAt[s] + WriteDelay <= now => Logged(s)
          /\ \A s \in Samples : LineAt[s] + WriteDelay <= now => Written(s)
      BY <2>3 DEF Tick
    <3>2. \A s \in Samples : ObservedAt[s] + WriteDelay \in Nat /\ LineAt[s] + WriteDelay \in Nat
      BY CollectorAssumption
    <3>3. now \in Nat
      BY DEF CollectorInvariant, TypeOK
    <3> QED
      BY <3>1, <3>2, <3>3 DEF OnDiskInTime, Logged, Written
  <2> QED
    BY <2>1, <2>2, <2>3
<1>4. \A s \in Samples : Clear(s)' => Clear(s)
    BY <1>1, ClearStays
<1>5. \A t \in Threads : From(t)' = From(t)
    BY <1>1 DEF From
<1>6. ASSUME NEW s \in Samples, NEW n \in 0 .. Len(file[ThreadOf[s]]),
             \E i \in 1 .. n : file'[ThreadOf[s]][i] = s
      PROVE  Behind(s, ThreadOf[s], n)
  <2>1. CASE UNCHANGED file
    BY <1>6, <2>1 DEF Behind
  <2>2. ASSUME NEW r \in Samples, AppendLine(r) PROVE Behind(s, ThreadOf[s], n)
    <3> DEFINE t == ThreadOf[s]
    <3>1. /\ Len(file[t]) \in Nat /\ \A i \in 1 .. Len(file[t]) : file'[t][i] = file[t][i]
      BY <2>2, FilesGrow, CollectorAssumption
    <3>2. \A i \in 1 .. n : i \in 1 .. Len(file[t])
      BY <3>1
    <3> QED
      BY <1>6, <3>1, <3>2 DEF Behind
  <2> QED
    BY <2>1, <2>2 DEF AppendRow, Tick
<1>7. ASSUME ~torn PROVE LinesTakenWithRows'
  <2> SUFFICES ASSUME NEW s \in Samples, Clear(s)
               PROVE  LET t == ThreadOf[s]
                      IN  /\ (\E i \in 1 .. From(t) : file'[t][i] = s) => usage[s] # Missing
                          /\ t \in DOMAIN ends /\ (\E i \in 1 .. ends[t] : file'[t][i] = s) =>
                                usage[s] # Missing \/ \E i \in DOMAIN batch : batch[i].sample = s
    BY <1>1, <1>4, <1>5, CollectorAssumption DEF LinesTakenWithRows, Behind
  <2> DEFINE t == ThreadOf[s]
  <2>1. t \in Threads /\ Len(file[t]) \in Nat
    BY CollectorAssumption, LenProperties DEF CollectorInvariant, TypeOK
  <2>2. From(t) \in 0 .. Len(file[t])
    BY <2>1 DEF CollectorInvariant, TypeOK, From
  <2>3. t \in DOMAIN ends => ends[t] \in 0 .. Len(file[t])
    BY <2>1, <2>2 DEF CollectorInvariant, RunShape
  <2> QED
    BY <1>2, <1>6, <1>7, <2>2, <2>3 DEF LinesTakenWithRows
<1>8. ASSUME ~torn
      PROVE  /\ \A s \in Samples : usage[s] # Missing /\ Clear(s) => usage[s] = s
             /\ \A s \in Samples : Clear(s) =>
                   \A i \in DOMAIN batch : batch[i].sample = s => batch[i].line = s
    BY <1>8 DEF MatchInvariant
<1> QED
    BY <1>1, <1>3, <1>4, <1>7, <1>8 DEF MatchInvariant

\* A crash loses the candidates that were read, which are read again.
LEMMA MatchCrash ==
    ASSUME CollectorInvariant, MatchInvariant, Crash
    PROVE  MatchInvariant'
<1>1. /\ torn' = (torn \/ phase = "committed")
      /\ batch' = << >> /\ ends' = << >>
      /\ UNCHANGED <<now, log, file, cursor, offset, usage, cuts>>
    BY DEF Crash
<1>2. ~torn' => ~torn
    BY <1>1
<1>3. \A s \in Samples : Clear(s)' => Clear(s)
    BY <1>1, ClearStays
<1>4. OnDiskInTime'
    BY <1>1 DEF MatchInvariant, OnDiskInTime, Logged, Written
<1>5. ~torn' => LinesTakenWithRows'
    BY <1>1, <1>2, <1>3 DEF MatchInvariant, LinesTakenWithRows, Behind, From
<1> QED
    BY <1>1, <1>2, <1>3, <1>4, <1>5 DEF MatchInvariant

\* A run that finds s eligible finds its line too, if nothing else competes for it
\* and no watermark fell between the two.
LEMMA ClearIsMatched ==
    ASSUME CollectorInvariant, LinesTakenWithRows, OnDiskInTime,
           PromptWriter, TailHoldsThread, now >= SafeLag,
           NEW s \in Samples, Clear(s), usage[s] = Missing,
           LineAt[s] <= now - SafeLag,
           NEW used, s \notin used
    PROVE  Chosen(s, used, now - SafeLag) = s
<1> DEFINE safe == now - SafeLag
           t == ThreadOf[s]
           n == Len(file[t])
           end == NextOffset(t, safe)
           lines == Unused(s, used, safe)
<1>1. /\ t \in Threads /\ LineAt[s] \in Nat /\ ObservedAt[s] \in Nat
      /\ now \in Nat /\ safe \in Nat /\ LineAt[s] <= safe
      /\ Tolerance \in Nat /\ WriteDelay \in Nat /\ SafeLag \in Nat
    BY CollectorAssumption DEF CollectorInvariant, TypeOK
<1>2. LineAt[s] + WriteDelay < now
    BY <1>1 DEF PromptWriter
<1>3. Written(s)
    BY <1>2 DEF OnDiskInTime
<1>4. /\ file[t] \in Seq(Samples) /\ n \in Nat /\ DOMAIN file[t] = 1 .. n
      /\ \A i \in 1 .. n : file[t][i] \in Samples
    BY <1>1, LenProperties DEF CollectorInvariant, TypeOK
<1>5. PICK k \in 1 .. n : file[t][k] = s
    BY <1>3, <1>4 DEF Written, ToSet
<1>6. /\ StartOffset(t) = From(t) /\ StartOffset(t) \in 0 .. n
      /\ end \in StartOffset(t) .. n
      /\ end < n => LineAt[file[t][end + 1]] > safe
    BY <1>1, WholeThreadsRead, ReadingRange DEF CollectorInvariant
<1>7. ~(k \in 1 .. From(t))
    BY <1>5 DEF LinesTakenWithRows, Behind
<1> HIDE DEF safe, n, end
<1>8. k <= end
  <2> SUFFICES ASSUME k > end PROVE FALSE
    BY <1>4, <1>6
  <2>1. end < n /\ end + 1 \in 1 .. n /\ (end + 1 = k \/ end + 1 < k)
    BY <1>4, <1>5, <1>6
  <2>2. LineAt[file[t][end + 1]] \in Nat /\ LineAt[file[t][end + 1]] <= LineAt[s]
    <3>1. end + 1 \in DOMAIN file[t] /\ k \in DOMAIN file[t]
      BY <1>4, <1>5, <2>1
    <3>2. /\ LineAt[file[t][end + 1]] \in Nat
          /\ end + 1 < k => LineAt[file[t][end + 1]] <= LineAt[file[t][k]]
      BY <1>1, <1>4, <3>1, CollectorAssumption DEF CollectorInvariant, FilesInOrder
    <3> QED
      BY <1>1, <1>5, <2>1, <3>2
  <2> QED
    BY <1>1, <1>6, <2>1, <2>2
<1>9. k \in StartOffset(t) + 1 .. end
    BY <1>4, <1>5, <1>6, <1>7, <1>8
<1>10. s \in Candidates(t, safe)
    BY <1>5, <1>9 DEF Candidates, end
<1>11. Distance(LineAt[s], ObservedAt[s]) <= Tolerance
    BY DEF Clear
<1>12. s \in lines
    BY <1>10, <1>11 DEF Unused
<1>13. ASSUME NEW l \in lines PROVE l = s
  <2>1. /\ \E i \in StartOffset(t) + 1 .. end : file[t][i] = l
        /\ Distance(LineAt[l], ObservedAt[s]) <= Tolerance
    BY <1>13 DEF Unused, Candidates, end
  <2>2. PICK i \in StartOffset(t) + 1 .. end : file[t][i] = l
    BY <2>1
  <2>3. i \in 1 .. n
    BY <1>4, <1>6, <2>2
  <2>4. l \in Samples /\ ThreadOf[l] = t
    BY <1>1, <1>4, <2>2, <2>3 DEF CollectorInvariant, FilesInOrder
  <2>5. Distance(LineAt[l], ObservedAt[s]) \in Nat
    BY <1>1, <2>4, DistanceType, CollectorAssumption
  <2> SUFFICES ASSUME l # s PROVE FALSE
    OBVIOUS
  <2>6. Distance(LineAt[l], ObservedAt[s]) > Tolerance
    BY <2>4 DEF Clear, Isolated
  <2> QED
    BY <1>1, <2>1, <2>5, <2>6
<1> HIDE DEF lines
<1>14. lines = {s}
    BY <1>12, <1>13
<1>15. Nearest(s, lines) \in lines
    BY <1>14, NearestIsOne
<1> QED
    BY <1>14, <1>15 DEF Chosen, lines, safe

\* Reading finds the token line of every sample that is safe by now.
LEMMA MatchRead ==
    ASSUME CollectorInvariant, MatchInvariant, PromptWriter, TailHoldsThread, ReadSources
    PROVE  MatchInvariant'
<1> DEFINE safe == now - SafeLag
           n == Len(batch')
<1>1. /\ phase = "idle" /\ now >= SafeLag
      /\ UNCHANGED <<now, log, file, cursor, offset, usage, crashes, torn>>
      /\ \A t \in Threads : cuts[t] \subseteq cuts'[t]
    BY DEF ReadSources
<1>2. /\ safe \in Nat
      /\ batch' \in Seq(Event)
      /\ n <= Len(log) - cursor
      /\ \A i \in 1 .. n :
            /\ log[cursor + i] \in Samples
            /\ batch'[i].sample = log[cursor + i]
            /\ Eligible(log[cursor + i], safe)
            /\ batch'[i].line
                  = Chosen(log[cursor + i], {batch'[j].line : j \in 1 .. i - 1}, safe)
            /\ ThreadOf[log[cursor + i]] \in DOMAIN ends'
      /\ \A id \in cursor + n + 1 .. Len(log) : ~Eligible(log[id], safe)
      /\ DOMAIN ends' \subseteq Threads
      /\ \A t \in DOMAIN ends' : ends'[t] = NextOffset(t, safe) /\ safe \in cuts'[t]
    BY SourcesRead
<1>3. /\ n \in Nat /\ DOMAIN batch' = 1 .. n
      /\ Len(log) \in Nat /\ DOMAIN log = 1 .. Len(log) /\ cursor \in 0 .. Len(log)
      /\ \A i \in 1 .. Len(log) : log[i] \in Samples
      /\ now \in Nat /\ SafeLag \in Nat /\ WriteDelay \in Nat /\ Tolerance \in Nat
      /\ \A s \in Samples : ThreadOf[s] \in Threads /\ LineAt[s] \in Nat /\ ObservedAt[s] \in Nat
    BY <1>2, LenProperties, CollectorAssumption DEF CollectorInvariant, TypeOK
<1>4. \A s \in Samples : Clear(s)' => Clear(s)
    BY <1>1, ClearStays
<1>5. \A t \in Threads : From(t)' = From(t)
    BY <1>1 DEF From
<1>6. OnDiskInTime /\ (~torn => LinesTakenWithRows)
    BY DEF MatchInvariant
<1>7. OnDiskInTime'
    BY <1>1, <1>6 DEF OnDiskInTime, Logged, Written
<1> HIDE DEF n
<1>8. ASSUME NEW s \in Samples, Clear(s)', ThreadOf[s] \in DOMAIN ends'
      PROVE  LineAt[s] <= safe <=> Eligible(s, safe)
  <2>1. safe \in cuts'[ThreadOf[s]]
    BY <1>2, <1>8
  <2> HIDE DEF safe
  <2>2. ~Parted(s)'
    BY <1>8 DEF Clear
  <2> QED
    BY <2>1, <2>2 DEF Parted
<1>9. ASSUME NEW s \in Samples, Clear(s)', LineAt[s] <= safe, ThreadOf[s] \in DOMAIN ends'
      PROVE  usage[s] # Missing \/ \E i \in 1 .. n : batch'[i].sample = s
  <2>1. Eligible(s, safe) /\ Distance(LineAt[s], ObservedAt[s]) <= Tolerance
    BY <1>8, <1>9 DEF Clear
  <2>2. ObservedAt[s] <= LineAt[s] + Tolerance
    BY <1>3, <2>1 DEF Distance
  <2>3. ObservedAt[s] + WriteDelay < now
    BY <1>2, <1>3, <1>9, <2>2 DEF PromptWriter
  <2>4. PICK id \in 1 .. Len(log) : log[id] = s
    BY <1>3, <1>6, <2>3 DEF OnDiskInTime, Logged, ToSet
  <2>5. CASE id \in 1 .. cursor
    BY <2>4, <2>5 DEF CollectorInvariant, ImportedAreBehind
  <2>6. CASE id \notin 1 .. cursor
    <3> HIDE DEF safe
    <3>1. id \notin cursor + n + 1 .. Len(log)
      BY <1>2, <2>1, <2>4
    <3>2. id - cursor \in 1 .. n /\ cursor + (id - cursor) = id
      BY <1>2, <1>3, <2>4, <2>6, <3>1
    <3>3. batch'[id - cursor].sample = s
      BY <1>2, <2>4, <3>2
    <3> QED
      BY <3>2, <3>3
  <2> QED
    BY <2>5, <2>6
<1>10. ASSUME ~torn PROVE LinesTakenWithRows'
  <2> SUFFICES ASSUME NEW s \in Samples, Clear(s)'
               PROVE  LET t == ThreadOf[s]
                      IN  /\ Behind(s, t, From(t)) => usage[s] # Missing
                          /\ t \in DOMAIN ends' /\ Behind(s, t, ends'[t]) =>
                                usage[s] # Missing \/ \E i \in 1 .. n : batch'[i].sample = s
    BY <1>1, <1>3, <1>5 DEF LinesTakenWithRows, Behind
  <2> DEFINE t == ThreadOf[s]
  <2>1. Behind(s, t, From(t)) => usage[s] # Missing
    BY <1>4, <1>6, <1>10 DEF LinesTakenWithRows
  <2>2. ASSUME t \in DOMAIN ends', Behind(s, t, ends'[t])
        PROVE  usage[s] # Missing \/ \E i \in 1 .. n : batch'[i].sample = s
    <3>1. t \in Threads /\ ends'[t] = NextOffset(t, safe)
      BY <1>2, <2>2
    <3>2. /\ StartOffset(t) = From(t) /\ StartOffset(t) \in 0 .. Len(file[t])
          /\ ends'[t] \in StartOffset(t) .. Len(file[t])
          /\ \A i \in StartOffset(t) + 1 .. ends'[t] : LineAt[file[t][i]] <= safe
          /\ Len(file[t]) \in Nat
      <4> HIDE DEF t, safe
      <4>1. StartOffset(t) = From(t)
        BY <3>1, WholeThreadsRead
      <4>2. /\ StartOffset(t) \in 0 .. Len(file[t])
            /\ NextOffset(t, safe) \in StartOffset(t) .. Len(file[t])
            /\ \A i \in StartOffset(t) + 1 .. NextOffset(t, safe) : LineAt[file[t][i]] <= safe
        BY <1>2, <3>1, ReadingRange DEF CollectorInvariant
      <4>3. Len(file[t]) \in Nat
        BY <3>1, LenProperties DEF CollectorInvariant, TypeOK
      <4> QED
        BY <3>1, <4>1, <4>2, <4>3
    <3>3. PICK i \in 1 .. ends'[t] : file[t][i] = s
      BY <2>2 DEF Behind
    <3>4. CASE i \in 1 .. From(t)
      <4>1. Behind(s, t, From(t))
        BY <3>3, <3>4 DEF Behind
      <4> QED
        BY <2>1, <4>1
    <3>5. CASE i \notin 1 .. From(t)
      <4>1. i \in StartOffset(t) + 1 .. ends'[t]
        BY <3>2, <3>3, <3>5
      <4>2. LineAt[s] <= safe
        BY <3>2, <3>3, <4>1
      <4> QED
        BY <1>9, <2>2, <4>2
    <3> QED
      BY <3>4, <3>5
  <2> QED
    BY <2>1, <2>2
<1>11. ASSUME ~torn, NEW s \in Samples, Clear(s)', NEW i \in 1 .. n, batch'[i].sample = s
       PROVE  batch'[i].line = s
  <2> DEFINE used == {batch'[j].line : j \in 1 .. i - 1}
  <2>1. /\ s = log[cursor + i] /\ Eligible(s, safe)
        /\ batch'[i].line = Chosen(s, used, safe)
        /\ ThreadOf[s] \in DOMAIN ends'
    BY <1>2, <1>11
  <2>2. \A j, k \in 1 .. n : j < k => log[cursor + j] # log[cursor + k]
    <3>1. \A j \in 1 .. n : cursor + j \in DOMAIN log
      BY <1>2, <1>3
    <3>2. \A j, k \in 1 .. n : j < k => cursor + j < cursor + k
      BY <1>3
    <3> QED
      BY <3>1, <3>2 DEF CollectorInvariant, LogInOrder
  <2>3. \A id \in 1 .. cursor : log[id] # s
    <3>1. cursor + i \in DOMAIN log /\ \A id \in 1 .. cursor : id \in DOMAIN log /\ id < cursor + i
      BY <1>2, <1>3
    <3> QED
      BY <2>1, <3>1 DEF CollectorInvariant, LogInOrder
  <2>4. usage[s] = Missing
    BY <2>3 DEF CollectorInvariant, ImportedAreBehind
  <2> HIDE DEF used
  <2>5. Clear(s)
    BY <1>4, <1>11
  <2>6. LineAt[s] <= safe
    BY <1>8, <1>11, <2>1
  <2>7. s \notin used
    <3> SUFFICES ASSUME NEW j \in 1 .. i - 1, batch'[j].line = s PROVE FALSE
      BY DEF used
    <3> DEFINE r == log[cursor + j]
               taken == {batch'[q].line : q \in 1 .. j - 1}
    <3>1. j \in 1 .. n /\ j < i
      BY <1>3
    <3>2. r \in Samples /\ s = Chosen(r, taken, safe) /\ r # s
      BY <1>2, <2>1, <2>2, <3>1
    <3> HIDE DEF r, taken
    <3>3. s # Unknown
      BY CollectorAssumption
    <3>4. /\ Distance(LineAt[s], ObservedAt[r]) <= Tolerance
          /\ \E k \in StartOffset(ThreadOf[r]) + 1 .. NextOffset(ThreadOf[r], safe) :
                file[ThreadOf[r]][k] = s
      BY <1>2, <3>2, <3>3, ChosenType DEF CollectorInvariant
    <3>5. ThreadOf[r] = ThreadOf[s]
      <4> DEFINE t == ThreadOf[r]
      <4>1. PICK k \in StartOffset(t) + 1 .. NextOffset(t, safe) : file[t][k] = s
        BY <3>4
      <4>2. t \in Threads
        BY <1>3, <3>2
      <4> HIDE DEF t, safe
      <4>3. /\ StartOffset(t) \in 0 .. Len(file[t])
            /\ NextOffset(t, safe) \in StartOffset(t) .. Len(file[t])
        BY <1>2, <4>2, ReadingRange DEF CollectorInvariant
      <4>4. Len(file[t]) \in Nat /\ DOMAIN file[t] = 1 .. Len(file[t])
        BY <4>2, LenProperties DEF CollectorInvariant, TypeOK
      <4>5. k \in DOMAIN file[t]
        BY <4>1, <4>3, <4>4
      <4>6. ThreadOf[s] = t
        BY <4>1, <4>2, <4>5 DEF CollectorInvariant, FilesInOrder
      <4> QED
        BY <4>6 DEF t
    <3>6. Distance(ObservedAt[r], LineAt[s]) > Tolerance
      BY <2>5, <3>2, <3>5 DEF Clear, Isolated
    <3>7. /\ Distance(ObservedAt[r], LineAt[s]) \in Nat
          /\ Distance(ObservedAt[r], LineAt[s]) = Distance(LineAt[s], ObservedAt[r])
      BY <1>3, <2>1, <3>2, DistanceType
    <3> QED
      BY <1>3, <3>4, <3>6, <3>7
  <2>8. Chosen(s, used, safe) = s
    BY <1>1, <1>6, <1>11, <2>1, <2>4, <2>5, <2>6, <2>7, ClearIsMatched
  <2> QED
    BY <2>1, <2>8
<1>12. ASSUME ~torn, NEW s \in Samples, usage[s] # Missing, Clear(s)' PROVE usage[s] = s
    BY <1>4, <1>12 DEF MatchInvariant
<1> HIDE DEF safe
<1>13. ASSUME ~torn
       PROVE  /\ \A s \in Samples : usage[s] # Missing /\ Clear(s)' => usage[s] = s
              /\ \A s \in Samples : Clear(s)' =>
                    \A i \in DOMAIN batch' : batch'[i].sample = s => batch'[i].line = s
    BY <1>3, <1>11, <1>12, <1>13
<1> QED
    BY <1>1, <1>7, <1>10, <1>13 DEF MatchInvariant
\* A committed event carries the line it was given when the run matched it.
LEMMA MatchChunk ==
    ASSUME CollectorInvariant, MatchInvariant, CommitChunk
    PROVE  MatchInvariant'
<1>1. UNCHANGED <<now, log, file, offset, ends, crashes, torn, cuts>>
    BY DEF CommitChunk
<1>2. PICK k \in 1 .. Len(batch) :
        /\ batch' \in Seq(Event)
        /\ Len(batch') = Len(batch) - k
        /\ \A i \in 1 .. Len(batch) - k : batch'[i] = batch[k + i]
        /\ \A s \in Samples :
              \/ usage'[s] = usage[s] /\ \A i \in 1 .. k : batch[i].sample # s
              \/ \E i \in 1 .. k : batch[i].sample = s /\ usage'[s] = batch[i].line
    BY ChunkCommitted
<1>3. /\ Len(batch) \in Nat /\ DOMAIN batch = 1 .. Len(batch)
      /\ DOMAIN batch' = 1 .. Len(batch')
      /\ \A i \in DOMAIN batch : batch[i].line # Missing
    BY <1>2, BatchTyped, LenProperties
<1>4. \A i \in DOMAIN batch' : k + i \in DOMAIN batch /\ batch'[i] = batch[k + i]
    BY <1>2, <1>3
<1>5. \A s \in Samples : usage[s] # Missing => usage'[s] # Missing
  <2>1. \A i \in 1 .. k : i \in DOMAIN batch
    BY <1>3
  <2> QED
    BY <1>2, <1>3, <2>1
<1>6. ASSUME NEW s \in Samples, \E i \in DOMAIN batch : batch[i].sample = s
      PROVE  usage'[s] # Missing \/ \E i \in DOMAIN batch' : batch'[i].sample = s
  <2>1. PICK i \in DOMAIN batch : batch[i].sample = s
    BY <1>6
  <2>2. CASE i \in 1 .. k
    <3>1. PICK j \in 1 .. k : usage'[s] = batch[j].line
      BY <1>2, <2>1, <2>2
    <3>2. j \in DOMAIN batch
      BY <1>3
    <3> QED
      BY <1>3, <3>1, <3>2
  <2>3. CASE i \notin 1 .. k
    <3>1. i - k \in DOMAIN batch' /\ k + (i - k) = i
      BY <1>2, <1>3, <2>1, <2>3
    <3>2. batch'[i - k] = batch[i]
      BY <1>4, <3>1
    <3> QED
      BY <2>1, <3>1, <3>2
  <2> QED
    BY <2>2, <2>3
<1>7. \A s \in Samples : Clear(s)' => Clear(s)
    BY <1>1, ClearStays
<1>8. OnDiskInTime'
    BY <1>1 DEF MatchInvariant, OnDiskInTime, Logged, Written
<1>9. ASSUME ~torn PROVE LinesTakenWithRows'
  <2>1. LinesTakenWithRows
    BY <1>9 DEF MatchInvariant
  <2>2. ASSUME NEW s \in Samples, Clear(s)'
        PROVE  /\ Behind(s, ThreadOf[s], From(ThreadOf[s])) => usage'[s] # Missing
               /\ ThreadOf[s] \in DOMAIN ends /\ Behind(s, ThreadOf[s], ends[ThreadOf[s]]) =>
                     usage'[s] # Missing \/ \E i \in DOMAIN batch' : batch'[i].sample = s
    BY <1>5, <1>6, <1>7, <2>1, <2>2 DEF LinesTakenWithRows
  <2> QED
    BY <1>1, <2>2 DEF LinesTakenWithRows, Behind, From
<1>10. ASSUME ~torn
       PROVE  /\ \A s \in Samples : usage'[s] # Missing /\ Clear(s)' => usage'[s] = s
              /\ \A s \in Samples : Clear(s)' =>
                    \A i \in DOMAIN batch' : batch'[i].sample = s => batch'[i].line = s
  <2>1. /\ \A s \in Samples : usage[s] # Missing /\ Clear(s) => usage[s] = s
        /\ \A s \in Samples : Clear(s) =>
              \A i \in DOMAIN batch : batch[i].sample = s => batch[i].line = s
    BY <1>10 DEF MatchInvariant
  <2>2. \A i \in 1 .. k : i \in DOMAIN batch
    BY <1>3
  <2>3. \A s \in Samples : usage'[s] # Missing /\ Clear(s)' => usage'[s] = s
    BY <1>2, <1>7, <2>1, <2>2
  <2> QED
    BY <1>4, <1>7, <2>1, <2>3
<1> QED
    BY <1>1, <1>8, <1>9, <1>10 DEF MatchInvariant

\* A candidate cursor moves once every row of the run is an event.
LEMMA MatchCursor ==
    ASSUME CollectorInvariant, MatchInvariant, NEW t \in Threads, CommitCandidateCursor(t)
    PROVE  MatchInvariant'
<1>1. /\ batch = << >> /\ t \in DOMAIN ends
      /\ offset' = [offset EXCEPT ![t] = ends[t]]
      /\ ends' = [u \in DOMAIN ends \ {t} |-> ends[u]]
      /\ UNCHANGED <<now, log, file, cursor, usage, batch, crashes, torn, cuts>>
    BY DEF CommitCandidateCursor
<1>2. \A s \in Samples : Clear(s)' => Clear(s)
    BY <1>1, ClearStays
<1>3. OnDiskInTime'
    BY <1>1 DEF MatchInvariant, OnDiskInTime, Logged, Written
<1>4. ends[t] # NoCursor
  <2>1. TypeOK /\ ends[t] \in From(t) .. Len(file[t])
    BY <1>1 DEF CollectorInvariant, RunShape
  <2>2. From(t) \in Nat /\ Len(file[t]) \in Nat
    BY <2>1, LenProperties DEF TypeOK, From
  <2> QED
    BY <2>1, <2>2, CollectorAssumption
<1>5. /\ From(t)' = ends[t]
      /\ \A u \in Threads : u # t => From(u)' = From(u)
      /\ DOMAIN ends' = DOMAIN ends \ {t}
      /\ \A u \in DOMAIN ends' : ends'[u] = ends[u]
  <2>1. offset \in [Threads -> Nat \cup {NoCursor}]
    BY DEF CollectorInvariant, TypeOK
  <2> QED
    BY <1>1, <1>4, <2>1 DEF From
<1>6. DOMAIN batch = {}
    BY <1>1
<1>7. ASSUME ~torn PROVE LinesTakenWithRows'
  <2>1. LinesTakenWithRows
    BY <1>7 DEF MatchInvariant
  <2> SUFFICES ASSUME NEW s \in Samples, Clear(s)'
               PROVE  LET u == ThreadOf[s]
                      IN  /\ Behind(s, u, From(u)') => usage[s] # Missing
                          /\ u \in DOMAIN ends' /\ Behind(s, u, ends'[u]) => usage[s] # Missing
    BY <1>1 DEF LinesTakenWithRows, Behind
  <2> DEFINE u == ThreadOf[s]
  <2>2. /\ u \in Threads
        /\ Behind(s, u, From(u)) => usage[s] # Missing
        /\ u \in DOMAIN ends /\ Behind(s, u, ends[u]) => usage[s] # Missing
    BY <1>2, <1>6, <2>1, CollectorAssumption DEF LinesTakenWithRows
  <2> HIDE DEF u
  <2>3. CASE u = t
    BY <1>1, <1>5, <2>2, <2>3 DEF u
  <2>4. CASE u # t
    BY <1>5, <2>2, <2>4 DEF u
  <2> QED
    BY <2>3, <2>4
<1>8. ASSUME ~torn
      PROVE  /\ \A s \in Samples : usage[s] # Missing /\ Clear(s)' => usage[s] = s
             /\ \A s \in Samples : Clear(s)' =>
                   \A i \in DOMAIN batch : batch[i].sample = s => batch[i].line = s
    BY <1>2, <1>8 DEF MatchInvariant
<1> QED
    BY <1>1, <1>3, <1>7, <1>8 DEF MatchInvariant

\* Every step preserves the invariant of the matching.
LEMMA MatchPreserved ==
    ASSUME PromptWriter, TailHoldsThread
    PROVE  CollectorInvariant /\ MatchInvariant /\ [Next]_vars => MatchInvariant'
<1> SUFFICES ASSUME CollectorInvariant, MatchInvariant, [Next]_vars
             PROVE  MatchInvariant'
    OBVIOUS
<1>1. CASE Codex
    BY <1>1, MatchCodex DEF Codex
<1>2. CASE ReadSources
    BY <1>2, MatchRead
<1>3. CASE CommitChunk
    BY <1>3, MatchChunk
<1>4. ASSUME NEW t \in Threads, CommitCandidateCursor(t) PROVE MatchInvariant'
    BY <1>4, MatchCursor
<1>5. CASE Crash
    BY <1>5, MatchCrash
<1>6. CASE UNCHANGED vars
    BY <1>6 DEF vars, MatchInvariant, OnDiskInTime, Logged, Written, LinesTakenWithRows,
                Behind, From, Clear, Parted, Isolated
<1> QED
    BY <1>1, <1>2, <1>3, <1>4, <1>5, <1>6 DEF Next, Import

\* If Codex is prompt and no thread outgrows the tail, a sample whose line nothing
\* else competes for gets the tokens of that line, unless a watermark parted the
\* two or a crash was torn.
THEOREM MatchedUnlessPartedHolds ==
    ASSUME PromptWriter, TailHoldsThread
    PROVE  Spec => []MatchedUnlessParted
<1>1. Init => CollectorInvariant /\ MatchInvariant
    BY CollectorInit, MatchInit
<1>2. CollectorInvariant /\ MatchInvariant /\ [Next]_vars => (CollectorInvariant /\ MatchInvariant)'
    BY CollectorNext, MatchPreserved
<1>3. MatchInvariant => MatchedUnlessParted
    BY DEF MatchInvariant, MatchedUnlessParted, Clear
<1> QED
    BY <1>1, <1>2, <1>3, PTL DEF Spec

=============================================================================
