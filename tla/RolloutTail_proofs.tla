-------------------------- MODULE RolloutTail_proofs --------------------------
(***************************************************************************)
(* Proofs about the tailer and the ingestion over it, for every file, every*)
(* chunk size and every interleaving with the writer, replacements,        *)
(* truncations and crashes.  The first part is about the operators of      *)
(* JsonlTail: a poll that starts where an earlier one ended returns the    *)
(* lines of the bytes between, as they stand in the whole file.  The second*)
(* part is the inductive invariant of RolloutTail.                         *)
(***************************************************************************)
EXTENDS RolloutTail, Induction, SequenceTheorems, FiniteSetTheorems, TLAPS

-----------------------------------------------------------------------------
(* Breaks.                                                                 *)

\* The line breaks of a text are places in it, finitely many.
LEMMA BreaksType ==
    ASSUME NEW s \in Seq(Byte)
    PROVE  /\ Breaks(s) \subseteq 1 .. Len(s)
           /\ Len(s) \in Nat
           /\ \A n \in Nat : IsFiniteSet({j \in Breaks(s) : j <= n})
           /\ IsFiniteSet(Breaks(s))
<1>1. Len(s) \in Nat /\ DOMAIN s = 1 .. Len(s)
    BY LenProperties
<1>2. Breaks(s) \subseteq 1 .. Len(s)
    BY <1>1 DEF Breaks
<1>3. IsFiniteSet(1 .. Len(s))
    BY <1>1, FS_Interval
<1> QED
    BY <1>1, <1>2, <1>3, FS_Subset

\* The break before a place is the greatest one, if there is one.
LEMMA BreakBeforeType ==
    ASSUME NEW s \in Seq(Byte), NEW i \in Nat
    PROVE  /\ BreakBefore(s, i) \in Nat
           /\ \/ BreakBefore(s, i) = 0
              \/ BreakBefore(s, i) \in Breaks(s) /\ BreakBefore(s, i) < i
           /\ \A j \in Breaks(s) : j < i => j <= BreakBefore(s, i)
           /\ BreakBefore(s, i) <= Len(s)
<1> DEFINE T == {0} \cup {j \in Breaks(s) : j < i}
<1>1. /\ T \subseteq Nat
      /\ T # {}
      /\ \A n \in T : n <= Len(s)
      /\ Len(s) \in Nat
    BY BreaksType
<1> HIDE DEF T
<1>2. \E n \in T : \A m \in T : n >= m
    BY <1>1, GreatestElement
<1>3. Max(T) \in T /\ \A m \in T : Max(T) >= m
    BY <1>2 DEF Max
<1>4. BreakBefore(s, i) = Max(T)
    BY DEF BreakBefore, T
<1> QED
    BY <1>1, <1>3, <1>4 DEF T

\* The last break before a place is the one that no other comes behind.
LEMMA BreakBeforeUnique ==
    ASSUME NEW s \in Seq(Byte), NEW i \in Nat, NEW b \in Nat,
           b = 0 \/ (b \in Breaks(s) /\ b < i),
           \A j \in Breaks(s) : j < i => j <= b
    PROVE  b = BreakBefore(s, i)
<1>1. /\ BreakBefore(s, i) \in Nat
      /\ \/ BreakBefore(s, i) = 0
         \/ BreakBefore(s, i) \in Breaks(s) /\ BreakBefore(s, i) < i
    BY BreakBeforeType
<1>2. b <= BreakBefore(s, i)
    BY BreakBeforeType
<1>3. BreakBefore(s, i) <= b
    BY <1>1
<1> QED
    BY <1>1, <1>2, <1>3

\* How many lines end at or before place n.
EndedBy(s, n) == Cardinality({j \in Breaks(s) : j <= n})

\* The number of lines ended by a place is a number.
LEMMA EndedByType ==
    ASSUME NEW s \in Seq(Byte), NEW n \in Nat
    PROVE  EndedBy(s, n) \in Nat
BY BreaksType, FS_CardinalityType DEF EndedBy

\* A finite set has more members than a part that lacks one.
LEMMA Strictly ==
    ASSUME NEW B, IsFiniteSet(B), NEW A, A \subseteq B, NEW x \in B, x \notin A
    PROVE  Cardinality(A) < Cardinality(B)
<1>1. IsFiniteSet(A) /\ Cardinality(A) <= Cardinality(B) /\ Cardinality(A) # Cardinality(B)
    BY FS_Subset
<1>2. Cardinality(A) \in Nat /\ Cardinality(B) \in Nat
    BY <1>1, FS_CardinalityType
<1> QED
    BY <1>1, <1>2

\* Behind another break more breaks are counted.
LEMMA CountGrows ==
    ASSUME NEW B, B \subseteq Nat, \A n \in Nat : IsFiniteSet({j \in B : j <= n}),
           NEW n \in Nat, NEW i \in B, n < i
    PROVE  Cardinality({j \in B : j <= n}) < Cardinality({j \in B : j <= i})
<1> DEFINE A == {j \in B : j <= n}
           C == {j \in B : j <= i}
<1>1. i <= i /\ ~(i <= n) /\ \A j \in B : j <= n => j <= i
    OBVIOUS
<1> HIDE DEF A, C
<1>2. A \subseteq C /\ i \in C /\ i \notin A
    BY <1>1 DEF A, C
<1>3. IsFiniteSet(C)
    BY DEF C
<1>4. Cardinality(A) < Cardinality(C)
    BY <1>2, <1>3, Strictly
<1> QED
    BY <1>4 DEF A, C

\* A break ends one more line than any place before it.
LEMMA EndedByGrows ==
    ASSUME NEW s \in Seq(Byte), NEW n \in Nat, NEW i \in Breaks(s), n < i
    PROVE  EndedBy(s, n) < EndedBy(s, i)
<1>1. Breaks(s) \subseteq Nat /\ \A m \in Nat : IsFiniteSet({j \in Breaks(s) : j <= m})
    BY BreaksType
<1> QED
    BY <1>1, CountGrows DEF EndedBy

-----------------------------------------------------------------------------
(* Lines.                                                                  *)

\* Without its carriage return a line is no longer than before.
LEMMA StrippedType ==
    ASSUME NEW raw \in Seq(Byte)
    PROVE  /\ Stripped(raw) \in Seq(Byte)
           /\ Len(Stripped(raw)) \in Nat
           /\ Len(raw) \in Nat
           /\ Len(Stripped(raw)) <= Len(raw)
<1>1. Len(raw) \in Nat
    BY LenProperties
<1>2. CASE raw = << >> \/ raw[Len(raw)] # Return
    BY <1>1, <1>2 DEF Stripped
<1>3. CASE raw # << >> /\ raw[Len(raw)] = Return
  <2>1. Len(raw) \in Nat \ {0}
    BY <1>3, EmptySeq
  <2>2. \A i \in 1 .. Len(raw) - 1 : raw[i] \in Byte
    BY <2>1, ElementOfSeq
  <2>3. /\ SubSeq(raw, 1, Len(raw) - 1) \in Seq(Byte)
        /\ Len(SubSeq(raw, 1, Len(raw) - 1)) =
              IF 1 <= Len(raw) - 1 THEN Len(raw) - 1 - 1 + 1 ELSE 0
    BY <2>1, <2>2, SubSeqProperties
  <2>4. Stripped(raw) = SubSeq(raw, 1, Len(raw) - 1)
    BY <1>3 DEF Stripped
  <2> QED
    BY <2>1, <2>3, <2>4
<1> QED
    BY <1>2, <1>3

\* A line lies between the break before it and its own.
LEMMA LineShape ==
    ASSUME NEW t \in Seq(Byte), NEW i \in Breaks(t), NEW base \in Nat, NEW number \in Nat
    PROVE  LET l == LineEndingAt(t, i, base, number)
           IN  /\ l.offset = base + BreakBefore(t, i)
               /\ l.number = number + EndedBy(t, i)
               /\ l \in Line
               /\ Len(l.raw) \in Nat
               /\ l.offset + Len(l.raw) < base + i
<1> DEFINE l == LineEndingAt(t, i, base, number)
           b == BreakBefore(t, i)
           r == SubSeq(t, b + 1, i - 1)
<1>1. i \in 1 .. Len(t) /\ Len(t) \in Nat /\ i \in Nat
    BY BreaksType
<1>2. b \in Nat /\ b < i
    BY <1>1, BreakBeforeType
<1>3. EndedBy(t, i) \in Nat /\ 0 < EndedBy(t, i)
  <2>1. EndedBy(t, 0) \in Nat /\ EndedBy(t, i) \in Nat
    BY <1>1, EndedByType
  <2>2. EndedBy(t, 0) < EndedBy(t, i)
    BY <1>1, EndedByGrows
  <2> QED
    BY <2>1, <2>2
<1> HIDE DEF b
<1>4. /\ r \in Seq(Byte)
      /\ Len(r) = IF b + 1 <= i - 1 THEN i - 1 - (b + 1) + 1 ELSE 0
  <2>1. \A j \in b + 1 .. i - 1 : j \in 1 .. Len(t)
    BY <1>1, <1>2
  <2>2. \A j \in b + 1 .. i - 1 : t[j] \in Byte
    BY <2>1, ElementOfSeq
  <2>3. b + 1 \in Int /\ i - 1 \in Int
    BY <1>1, <1>2
  <2> QED
    BY <2>2, <2>3, SubSeqProperties
<1> HIDE DEF r
<1>5. /\ Stripped(r) \in Seq(Byte)
      /\ Len(Stripped(r)) \in Nat
      /\ Len(Stripped(r)) <= Len(r)
    BY <1>4, StrippedType
<1>6. l = [offset |-> base + b, number |-> number + EndedBy(t, i), raw |-> Stripped(r)]
    BY DEF LineEndingAt, EndedBy, b, r
<1> HIDE DEF l
<1>7. l \in Line
  <2>1. base + b \in Nat /\ number + EndedBy(t, i) \in Nat \ {0}
    BY <1>2, <1>3
  <2> QED
    BY <2>1, <1>5, <1>6 DEF Line
<1>8. l.offset + Len(l.raw) < base + i
  <2>1. Len(r) <= i - 1 - b
    BY <1>1, <1>2, <1>4
  <2>2. Len(r) \in Nat
    BY <1>4, LenProperties
  <2> QED
    BY <1>1, <1>2, <1>5, <1>6, <2>1, <2>2
<1> QED
    BY <1>5, <1>6, <1>7, <1>8 DEF l, b

\* Line l ends before m begins, and has a smaller number.
Precedes(l, m) == l.offset + Len(l.raw) < m.offset /\ l.number < m.number

Apart(lines) == \A l, m \in lines : l # m => Precedes(l, m) \/ Precedes(m, l)

\* The lines all end before a place, and are among the first number.
EndBefore(lines, place, number) ==
    \A l \in lines : l.offset + Len(l.raw) < place /\ l.number <= number

BeginFrom(lines, place, number) ==
    \A l \in lines : place <= l.offset /\ number < l.number

\* The lines of a chunk follow one another within it.
LEMMA ChunkLines ==
    ASSUME NEW t \in Seq(Byte), NEW base \in Nat, NEW number \in Nat
    PROVE  LET lines == LinesIn(t, base, number)
           IN  /\ lines \subseteq Line
               /\ Apart(lines)
               /\ BeginFrom(lines, base, number)
               /\ EndBefore(lines, base + LastBreak(t), number + Cardinality(Breaks(t)))
<1> DEFINE lines == LinesIn(t, base, number)
           L(i) == LineEndingAt(t, i, base, number)
<1>0. \A l \in lines : \E i \in Breaks(t) : l = L(i)
    BY DEF LinesIn
<1>1. ASSUME NEW i \in Breaks(t)
      PROVE  /\ i \in Nat /\ i <= Len(t) /\ 0 < i
             /\ BreakBefore(t, i) \in Nat /\ EndedBy(t, i) \in Nat
             /\ L(i).offset = base + BreakBefore(t, i)
             /\ L(i).number = number + EndedBy(t, i)
             /\ L(i) \in Line
             /\ Len(L(i).raw) \in Nat
             /\ L(i).offset + Len(L(i).raw) < base + i
  <2>1. i \in Nat /\ i <= Len(t) /\ 0 < i
    BY BreaksType
  <2>2. BreakBefore(t, i) \in Nat /\ EndedBy(t, i) \in Nat
    BY <2>1, BreakBeforeType, EndedByType
  <2>3. /\ L(i).offset = base + BreakBefore(t, i)
        /\ L(i).number = number + EndedBy(t, i)
        /\ L(i) \in Line
        /\ Len(L(i).raw) \in Nat
        /\ L(i).offset + Len(L(i).raw) < base + i
    BY LineShape
  <2> QED
    BY <2>1, <2>2, <2>3
<1>2. ASSUME NEW i \in Breaks(t), NEW j \in Breaks(t), i < j
      PROVE  Precedes(L(i), L(j))
  <2>1. i <= BreakBefore(t, j)
    BY <1>1, <1>2, BreakBeforeType
  <2>2. EndedBy(t, i) < EndedBy(t, j)
    BY <1>1, <1>2, EndedByGrows
  <2>3. base + i <= L(j).offset
    BY <1>1, <2>1
  <2>4. L(i).offset + Len(L(i).raw) < L(j).offset
    <3>1. L(i).offset + Len(L(i).raw) < base + i
      BY <1>1
    <3> HIDE DEF L
    <3>2. Len(L(i).raw) \in Nat /\ L(i).offset \in Nat /\ L(j).offset \in Nat /\ i \in Nat
      BY <1>1, BreaksType DEF Line
    <3> QED
      BY <2>3, <3>1, <3>2
  <2>5. L(i).number < L(j).number
    BY <1>1, <2>2
  <2> QED
    BY <2>4, <2>5 DEF Precedes
<1>3. ASSUME NEW i \in Breaks(t)
      PROVE  /\ base <= L(i).offset /\ number < L(i).number
             /\ L(i).offset + Len(L(i).raw) < base + LastBreak(t)
             /\ L(i).number <= number + Cardinality(Breaks(t))
  <2>1. Len(t) + 1 \in Nat /\ i < Len(t) + 1
    BY <1>1, BreaksType
  <2>2. /\ LastBreak(t) \in Nat
        /\ i <= LastBreak(t)
    BY <2>1, BreakBeforeType DEF LastBreak
  <2>3. EndedBy(t, 0) \in Nat /\ EndedBy(t, 0) < EndedBy(t, i)
    BY <1>1, EndedByType, EndedByGrows
  <2>4. /\ Cardinality(Breaks(t)) \in Nat
        /\ EndedBy(t, i) <= Cardinality(Breaks(t))
    <3>1. {j \in Breaks(t) : j <= i} \in SUBSET Breaks(t)
      OBVIOUS
    <3> QED
      BY <3>1, BreaksType, FS_Subset, FS_CardinalityType DEF EndedBy
  <2>5. base <= L(i).offset
    BY <1>1
  <2>6. number < L(i).number /\ L(i).number <= number + Cardinality(Breaks(t))
    BY <1>1, <2>3, <2>4
  <2>7. L(i).offset + Len(L(i).raw) < base + LastBreak(t)
    <3>1. base + i <= base + LastBreak(t)
      BY <1>1, <2>2
    <3>2. L(i).offset + Len(L(i).raw) \in Nat
      BY <1>1
    <3> QED
      BY <1>1, <2>2, <3>1, <3>2
  <2> QED
    BY <2>5, <2>6, <2>7
<1>4. \A i, j \in Breaks(t) : i = j \/ i < j \/ j < i
    BY <1>1
<1> HIDE DEF L
<1>5. Apart(lines)
    BY <1>0, <1>2, <1>4 DEF Apart
<1> HIDE DEF lines
<1>6. lines \subseteq Line
    BY <1>0, <1>1
<1>7. BeginFrom(lines, base, number)
    BY <1>0, <1>3 DEF BeginFrom
<1>8. EndBefore(lines, base + LastBreak(t), number + Cardinality(Breaks(t)))
    BY <1>0, <1>3 DEF EndBefore
<1> QED
    BY <1>5, <1>6, <1>7, <1>8 DEF lines

\* Lines that end before a place and lines that begin from it are apart.
LEMMA JoinedApart ==
    ASSUME NEW A, NEW B, A \subseteq Line, B \subseteq Line,
           NEW place \in Nat, NEW number \in Nat,
           Apart(A), Apart(B),
           EndBefore(A, place, number), BeginFrom(B, place, number)
    PROVE  Apart(A \cup B)
<1>1. ASSUME NEW l \in A, NEW m \in B PROVE Precedes(l, m)
  <2>1. /\ l.offset \in Nat /\ l.number \in Nat /\ l.raw \in Seq(Byte)
        /\ m.offset \in Nat /\ m.number \in Nat
    BY DEF Line
  <2>2. Len(l.raw) \in Nat
    BY <2>1, LenProperties
  <2>3. /\ l.offset + Len(l.raw) < place /\ l.number <= number
        /\ place <= m.offset /\ number < m.number
    BY DEF EndBefore, BeginFrom
  <2> QED
    BY <2>1, <2>2, <2>3 DEF Precedes
<1> QED
    BY <1>1 DEF Apart

\* What ends before a place ends before any later one.
LEMMA EndBeforeLater ==
    ASSUME NEW A, A \subseteq Line, NEW place \in Nat, NEW number \in Nat,
           EndBefore(A, place, number),
           NEW later \in Nat, NEW more \in Nat, place <= later, number <= more
    PROVE  EndBefore(A, later, more)
<1> SUFFICES ASSUME NEW l \in A
             PROVE  l.offset + Len(l.raw) < later /\ l.number <= more
    BY DEF EndBefore
<1>1. l.offset \in Nat /\ l.number \in Nat /\ l.raw \in Seq(Byte)
    BY DEF Line
<1>2. Len(l.raw) \in Nat
    BY <1>1, LenProperties
<1>3. l.offset + Len(l.raw) < place /\ l.number <= number
    BY DEF EndBefore
<1> QED
    BY <1>1, <1>2, <1>3

-----------------------------------------------------------------------------
(* A window of a file that begins behind a break shows the lines of the    *)
(* file.                                                                   *)

\* A slice of a text holds the bytes of the text.
LEMMA SliceType ==
    ASSUME NEW s \in Seq(Byte), NEW b \in 0 .. Len(s), NEW e \in b .. Len(s)
    PROVE  /\ SubSeq(s, b + 1, e) \in Seq(Byte)
           /\ Len(SubSeq(s, b + 1, e)) = e - b
           /\ \A k \in 1 .. e - b : SubSeq(s, b + 1, e)[k] = s[b + k]
<1>1. Len(s) \in Nat
    BY LenProperties
<1>2. b + 1 \in Int /\ e \in Int /\ b \in Nat /\ e \in Nat
    BY <1>1
<1>3. \A j \in b + 1 .. e : j \in 1 .. Len(s)
    BY <1>1, <1>2
<1>4. \A j \in b + 1 .. e : s[j] \in Byte
    BY <1>3, ElementOfSeq
<1>5. /\ SubSeq(s, b + 1, e) \in Seq(Byte)
      /\ Len(SubSeq(s, b + 1, e)) = IF b + 1 <= e THEN e - (b + 1) + 1 ELSE 0
      /\ \A k \in 1 .. e - (b + 1) + 1 : SubSeq(s, b + 1, e)[k] = s[b + 1 + k - 1]
    BY <1>2, <1>4, SubSeqProperties
<1>6. \A k \in 1 .. e - b : k \in 1 .. e - (b + 1) + 1 /\ b + 1 + k - 1 = b + k
    BY <1>2
<1> QED
    BY <1>2, <1>5, <1>6

\* A slice of a slice is a slice of the text.
LEMMA SliceOfSlice ==
    ASSUME NEW s \in Seq(Byte), NEW b \in 0 .. Len(s), NEW e \in b .. Len(s),
           NEW m \in 0 .. e - b, NEW n \in m .. e - b
    PROVE  SubSeq(SubSeq(s, b + 1, e), m + 1, n) = SubSeq(s, b + m + 1, b + n)
<1> DEFINE t == SubSeq(s, b + 1, e)
           u == SubSeq(t, m + 1, n)
           v == SubSeq(s, b + m + 1, b + n)
<1>1. Len(s) \in Nat /\ b \in Nat /\ e \in Nat /\ m \in Nat /\ n \in Nat
    BY LenProperties
<1>2. /\ t \in Seq(Byte) /\ Len(t) = e - b
      /\ \A k \in 1 .. e - b : t[k] = s[b + k]
    BY SliceType
<1> HIDE DEF t
<1>3. m \in 0 .. Len(t) /\ n \in m .. Len(t)
    BY <1>1, <1>2
<1>4. /\ u \in Seq(Byte) /\ Len(u) = n - m
      /\ \A k \in 1 .. n - m : u[k] = t[m + k]
    BY <1>2, <1>3, SliceType
<1>5. b + m \in 0 .. Len(s) /\ b + n \in b + m .. Len(s) /\ (b + n) - (b + m) = n - m
    BY <1>1
<1>6. /\ v \in Seq(Byte) /\ Len(v) = n - m
      /\ \A k \in 1 .. n - m : v[k] = s[b + m + k]
    BY <1>5, SliceType
<1> HIDE DEF u, v
<1>7. \A k \in 1 .. n - m : m + k \in 1 .. e - b /\ b + (m + k) = b + m + k
    BY <1>1
<1>8. \A k \in 1 .. n - m : u[k] = v[k]
    BY <1>2, <1>4, <1>6, <1>7
<1>9. u = v
    BY <1>4, <1>6, <1>8, SeqEqual
<1> QED
    BY <1>9 DEF t, u, v

\* No line has ended at the beginning.
LEMMA EndedByZero ==
    ASSUME NEW s \in Seq(Byte)
    PROVE  EndedBy(s, 0) = 0
<1>1. \A j \in Breaks(s) : ~(j <= 0)
    BY BreaksType
<1>2. {j \in Breaks(s) : j <= 0} = {}
    BY <1>1
<1> QED
    BY <1>2, FS_EmptySet DEF EndedBy

\* The next byte ends a line just if it is a break.
LEMMA EndedByNext ==
    ASSUME NEW s \in Seq(Byte), NEW n \in Nat
    PROVE  EndedBy(s, n + 1) = IF n + 1 \in Breaks(s) THEN EndedBy(s, n) + 1
                               ELSE EndedBy(s, n)
<1> DEFINE A == {j \in Breaks(s) : j <= n}
           C == {j \in Breaks(s) : j <= n + 1}
<1>1. /\ \A j \in Breaks(s) : j <= n + 1 <=> (j <= n \/ j = n + 1)
      /\ ~(n + 1 <= n)
    BY BreaksType
<1>2. IsFiniteSet(A)
    BY BreaksType
<1>3. C = IF n + 1 \in Breaks(s) THEN A \cup {n + 1} ELSE A
    BY <1>1
<1>4. n + 1 \notin A
    BY <1>1
<1> HIDE DEF A, C
<1>5. Cardinality(C) = IF n + 1 \in Breaks(s) THEN Cardinality(A) + 1 ELSE Cardinality(A)
    BY <1>2, <1>3, <1>4, FS_AddElement
<1> QED
    BY <1>5 DEF EndedBy, A, C

\* A window's first byte is the file's first or follows a break.
LineStart(s, b) == b = 0 \/ b \in Breaks(s)

\* The breaks of a window are those of the text within it.
LEMMA WindowBreaks ==
    ASSUME NEW s \in Seq(Byte), NEW b \in 0 .. Len(s), NEW e \in b .. Len(s)
    PROVE  \A k \in Nat : k \in Breaks(SubSeq(s, b + 1, e)) <=>
              1 <= k /\ k <= e - b /\ b + k \in Breaks(s)
<1> DEFINE t == SubSeq(s, b + 1, e)
<1>1. /\ t \in Seq(Byte) /\ Len(t) = e - b
      /\ \A k \in 1 .. e - b : t[k] = s[b + k]
    BY SliceType
<1>2. Len(s) \in Nat /\ DOMAIN s = 1 .. Len(s) /\ b \in Nat /\ e \in Nat
    BY LenProperties
<1> HIDE DEF t
<1>3. DOMAIN t = 1 .. e - b
    BY <1>1, LenProperties
<1> SUFFICES ASSUME NEW k \in Nat
             PROVE  k \in Breaks(t) <=> 1 <= k /\ k <= e - b /\ b + k \in Breaks(s)
    BY DEF t
<1>4. CASE k \in 1 .. e - b
  <2>1. b + k \in DOMAIN s
    BY <1>2, <1>4
  <2>2. t[k] = s[b + k] /\ k \in DOMAIN t /\ 1 <= k /\ k <= e - b
    BY <1>1, <1>3, <1>4
  <2> QED
    BY <2>1, <2>2 DEF Breaks
<1>5. CASE k \notin 1 .. e - b
  <2>1. ~(1 <= k /\ k <= e - b)
    BY <1>2, <1>5
  <2> QED
    BY <1>3, <1>5, <2>1 DEF Breaks
<1> QED
    BY <1>4, <1>5

\* In a window that begins with a line, the break before a place is the text's.
LEMMA WindowBreakBefore ==
    ASSUME NEW s \in Seq(Byte), NEW b \in 0 .. Len(s), NEW e \in b .. Len(s),
           LineStart(s, b), NEW i \in 1 .. e - b + 1
    PROVE  BreakBefore(s, b + i) = b + BreakBefore(SubSeq(s, b + 1, e), i)
<1> DEFINE t == SubSeq(s, b + 1, e)
           m == BreakBefore(t, i)
<1>1. Len(s) \in Nat /\ b \in Nat /\ e \in Nat /\ i \in Nat /\ b + i \in Nat
    BY LenProperties
<1>2. t \in Seq(Byte)
    BY SliceType
<1>3. \A k \in Nat : k \in Breaks(t) <=> 1 <= k /\ k <= e - b /\ b + k \in Breaks(s)
    BY WindowBreaks
<1> HIDE DEF t
<1>4. /\ m \in Nat
      /\ m = 0 \/ (m \in Breaks(t) /\ m < i)
      /\ \A j \in Breaks(t) : j < i => j <= m
    BY <1>1, <1>2, BreakBeforeType
<1> HIDE DEF m
<1>5. b + m \in Nat /\ (b + m = 0 \/ (b + m \in Breaks(s) /\ b + m < b + i))
  <2>1. CASE m = 0
    BY <1>1, <2>1 DEF LineStart
  <2>2. CASE m # 0
    <3>1. m \in Breaks(t) /\ m < i
      BY <1>4, <2>2
    <3>2. b + m \in Breaks(s)
      BY <1>3, <1>4, <3>1
    <3>3. b + m < b + i /\ b + m \in Nat
      BY <1>1, <1>4, <3>1
    <3> QED
      BY <3>2, <3>3
  <2> QED
    BY <2>1, <2>2
<1>6. ASSUME NEW j \in Breaks(s), j < b + i PROVE j <= b + m
  <2>1. j \in Nat
    BY BreaksType
  <2>2. CASE j <= b
    BY <1>1, <1>4, <2>1, <2>2
  <2>3. CASE ~(j <= b)
    <3>1. /\ j - b \in Nat /\ 1 <= j - b /\ j - b <= e - b
          /\ j - b < i /\ b + (j - b) = j
      BY <1>1, <1>6, <2>1, <2>3
    <3>2. j - b \in Breaks(t)
      BY <1>3, <3>1
    <3>3. j - b <= m
      BY <1>4, <3>1, <3>2
    <3> QED
      BY <1>1, <1>4, <2>1, <3>3
  <2> QED
    BY <2>2, <2>3
<1>7. b + m = BreakBefore(s, b + i)
    BY <1>1, <1>5, <1>6, BreakBeforeUnique
<1> QED
    BY <1>7 DEF m, t

\* The lines ended in a window add to those ended before it.
LEMMA WindowEndedBy ==
    ASSUME NEW s \in Seq(Byte), NEW b \in 0 .. Len(s), NEW e \in b .. Len(s)
    PROVE  \A i \in 0 .. e - b :
              EndedBy(s, b + i) = EndedBy(s, b) + EndedBy(SubSeq(s, b + 1, e), i)
<1> DEFINE t == SubSeq(s, b + 1, e)
           S == {i \in 0 .. e - b : EndedBy(s, b + i) = EndedBy(s, b) + EndedBy(t, i)}
<1>1. Len(s) \in Nat /\ b \in Nat /\ e \in Nat /\ e - b \in Nat
    BY LenProperties
<1>2. t \in Seq(Byte)
    BY SliceType
<1>3. \A k \in Nat : k \in Breaks(t) <=> 1 <= k /\ k <= e - b /\ b + k \in Breaks(s)
    BY WindowBreaks
<1> HIDE DEF t
<1>4. 0 \in S
  <2>1. EndedBy(t, 0) = 0 /\ EndedBy(s, b) \in Nat /\ b + 0 = b
    BY <1>1, <1>2, EndedByZero, EndedByType
  <2> QED
    BY <1>1, <2>1
<1>5. ASSUME NEW i \in 0 .. e - b, i # e - b, i \in S PROVE i + 1 \in S
  <2>1. i \in Nat /\ i + 1 \in 0 .. e - b /\ b + i \in Nat /\ (b + i) + 1 = b + (i + 1)
    BY <1>1, <1>5
  <2>2. i + 1 \in Breaks(t) <=> b + (i + 1) \in Breaks(s)
    BY <1>1, <1>3, <2>1
  <2>3. EndedBy(s, b + i) = EndedBy(s, b) + EndedBy(t, i)
    BY <1>5
  <2>4. /\ EndedBy(s, b + (i + 1)) = IF b + (i + 1) \in Breaks(s) THEN EndedBy(s, b + i) + 1
                                      ELSE EndedBy(s, b + i)
        /\ EndedBy(t, i + 1) = IF i + 1 \in Breaks(t) THEN EndedBy(t, i) + 1
                                ELSE EndedBy(t, i)
    BY <1>2, <2>1, EndedByNext
  <2>5. EndedBy(s, b) \in Nat /\ EndedBy(t, i) \in Nat
    BY <1>1, <1>2, <2>1, EndedByType
  <2>6. EndedBy(s, b + (i + 1)) = EndedBy(s, b) + EndedBy(t, i + 1)
    BY <2>2, <2>3, <2>4, <2>5
  <2> QED
    BY <2>1, <2>6
<1> HIDE DEF S
<1>6. \A i \in 0 .. e - b : i \in S
    BY <1>1, <1>4, <1>5, BoundedInduction
<1> QED
    BY <1>6 DEF S, t

\* The line of a file that ends at break i.
LineAt(s, i) == LineEndingAt(s, i, 0, 0)

\* The lines of a file that end behind place m and not behind place n.
LinesBetween(s, m, n) == {LineAt(s, i) : i \in {j \in Breaks(s) : m < j /\ j <= n}}

\* The parts of a line of a window.
LEMMA LineFields ==
    ASSUME NEW s, NEW i, NEW base, NEW number
    PROVE  LineEndingAt(s, i, base, number) =
              [offset |-> base + BreakBefore(s, i), number |-> number + EndedBy(s, i),
               raw |-> Stripped(SubSeq(s, BreakBefore(s, i) + 1, i - 1))]
BY DEF LineEndingAt, EndedBy

\* The parts of a line of the text.
LEMMA LineAtFields ==
    ASSUME NEW s, NEW i, NEW before, before = BreakBefore(s, i)
    PROVE  LineAt(s, i) =
              [offset |-> 0 + before, number |-> 0 + EndedBy(s, i),
               raw |-> Stripped(SubSeq(s, before + 1, i - 1))]
BY DEF LineAt, LineEndingAt, EndedBy

\* A line of a window that begins with a line is the text's line there.
LEMMA WindowLine ==
    ASSUME NEW s \in Seq(Byte), NEW b \in 0 .. Len(s), NEW e \in b .. Len(s),
           LineStart(s, b), NEW i \in Breaks(SubSeq(s, b + 1, e))
    PROVE  LineEndingAt(SubSeq(s, b + 1, e), i, b, EndedBy(s, b)) = LineAt(s, b + i)
<1> DEFINE t == SubSeq(s, b + 1, e)
           m == BreakBefore(t, i)
<1>1. Len(s) \in Nat /\ b \in Nat /\ e \in Nat
    BY LenProperties
<1>2. t \in Seq(Byte) /\ Len(t) = e - b
    BY SliceType
<1> HIDE DEF t
<1>3. i \in 1 .. e - b /\ i \in Nat /\ b + i \in Nat
  <2>1. i \in Breaks(t)
    BY DEF t
  <2>2. i \in 1 .. Len(t)
    BY <1>2, <2>1, BreaksType
  <2> QED
    BY <1>1, <1>2, <2>2
<1>4. BreakBefore(s, b + i) = b + m
    BY <1>1, <1>3, WindowBreakBefore DEF t
<1>5. EndedBy(s, b + i) = EndedBy(s, b) + EndedBy(t, i)
    BY <1>1, <1>3, WindowEndedBy DEF t
<1>6. m \in Nat /\ m < i
    BY <1>2, <1>3, BreakBeforeType
<1> HIDE DEF m
<1>7. SubSeq(t, m + 1, i - 1) = SubSeq(s, b + m + 1, b + i - 1)
  <2>1. m \in 0 .. e - b /\ i - 1 \in m .. e - b /\ b + (i - 1) = b + i - 1
    BY <1>1, <1>3, <1>6
  <2> QED
    BY <2>1, SliceOfSlice DEF t
<1>8. EndedBy(s, b) \in Nat /\ EndedBy(t, i) \in Nat /\ EndedBy(s, b + i) \in Nat
    BY <1>1, <1>2, <1>3, EndedByType
<1>9. LineEndingAt(t, i, b, EndedBy(s, b)) =
         [offset |-> b + m, number |-> EndedBy(s, b) + EndedBy(t, i),
          raw |-> Stripped(SubSeq(t, m + 1, i - 1))]
    BY LineFields DEF m
<1>10. LineAt(s, b + i) =
         [offset |-> 0 + (b + m), number |-> 0 + EndedBy(s, b + i),
          raw |-> Stripped(SubSeq(s, b + m + 1, b + i - 1))]
  <2> DEFINE k == b + i
             before == b + m
  <2>1. before = BreakBefore(s, k)
    BY <1>4
  <2> HIDE DEF k, before
  <2>2. LineAt(s, k) = [offset |-> 0 + before, number |-> 0 + EndedBy(s, k),
                        raw |-> Stripped(SubSeq(s, before + 1, k - 1))]
    BY <2>1, LineAtFields
  <2> QED
    BY <1>1, <1>3, <1>6, <2>2 DEF k, before
<1>11. 0 + (b + m) = b + m /\ 0 + EndedBy(s, b + i) = EndedBy(s, b) + EndedBy(t, i)
    BY <1>1, <1>5, <1>6, <1>8
<1> QED
    BY <1>7, <1>9, <1>10, <1>11 DEF t

\* The lines of such a window are the lines of the text between its ends.
LEMMA WindowLines ==
    ASSUME NEW s \in Seq(Byte), NEW b \in 0 .. Len(s), NEW e \in b .. Len(s),
           LineStart(s, b)
    PROVE  LinesIn(SubSeq(s, b + 1, e), b, EndedBy(s, b)) = LinesBetween(s, b, e)
<1> DEFINE t == SubSeq(s, b + 1, e)
<1>1. Len(s) \in Nat /\ b \in Nat /\ e \in Nat
    BY LenProperties
<1>2. t \in Seq(Byte)
    BY SliceType
<1>3. \A k \in Nat : k \in Breaks(t) <=> 1 <= k /\ k <= e - b /\ b + k \in Breaks(s)
    BY WindowBreaks
<1>4. \A i \in Breaks(t) : LineEndingAt(t, i, b, EndedBy(s, b)) = LineAt(s, b + i)
    BY WindowLine
<1> HIDE DEF t
<1>5. Breaks(t) \subseteq Nat /\ Breaks(s) \subseteq Nat
    BY <1>2, BreaksType
<1>6. \A i \in Breaks(t) : b + i \in Breaks(s) /\ b < b + i /\ b + i <= e
    BY <1>1, <1>3, <1>5
<1>7. \A j \in Breaks(s) : b < j /\ j <= e =>
         j - b \in Nat /\ 1 <= j - b /\ j - b <= e - b /\ b + (j - b) = j
    BY <1>1, <1>5
<1>8. \A j \in Breaks(s) : b < j /\ j <= e => \E i \in Breaks(t) : j = b + i
    BY <1>3, <1>7
<1>9. LinesIn(t, b, EndedBy(s, b)) \subseteq LinesBetween(s, b, e)
    BY <1>4, <1>6 DEF LinesIn, LinesBetween
<1>10. LinesBetween(s, b, e) \subseteq LinesIn(t, b, EndedBy(s, b))
    BY <1>4, <1>8 DEF LinesIn, LinesBetween
<1> QED
    BY <1>9, <1>10 DEF t

\* The lines of a prefix are the lines of the file that end in it.
LEMMA PrefixLines ==
    ASSUME NEW s \in Seq(Byte), NEW n \in 0 .. Len(s)
    PROVE  LinesOf(SubSeq(s, 1, n)) = LinesBetween(s, 0, n)
<1>1. Len(s) \in Nat /\ 0 \in 0 .. Len(s) /\ 0 + 1 = 1
    BY LenProperties
<1>2. LinesIn(SubSeq(s, 0 + 1, n), 0, EndedBy(s, 0)) = LinesBetween(s, 0, n)
    BY <1>1, WindowLines DEF LineStart
<1>3. EndedBy(s, 0) = 0
    BY EndedByZero
<1> QED
    BY <1>1, <1>2, <1>3 DEF LinesOf

\* The lines between two places are those up to a third and those behind it.
LEMMA LinesBetweenSplit ==
    ASSUME NEW s \in Seq(Byte), NEW l \in Nat, NEW m \in Nat, NEW n \in Nat,
           l <= m, m <= n
    PROVE  LinesBetween(s, l, n) = LinesBetween(s, l, m) \cup LinesBetween(s, m, n)
<1>1. \A j \in Breaks(s) :
         (l < j /\ j <= n) <=> ((l < j /\ j <= m) \/ (m < j /\ j <= n))
    BY BreaksType
<1> QED
    BY <1>1 DEF LinesBetween

-----------------------------------------------------------------------------
(* Polls.                                                                  *)

\* By the end of a text as many lines have ended as it has breaks.
LEMMA AllEnded ==
    ASSUME NEW t \in Seq(Byte)
    PROVE  EndedBy(t, Len(t)) = Cardinality(Breaks(t))
<1>1. \A j \in Breaks(t) : j <= Len(t)
    BY BreaksType
<1>2. {j \in Breaks(t) : j <= Len(t)} = Breaks(t)
    BY <1>1
<1> QED
    BY <1>2 DEF EndedBy

\* A chunk ends within the file, and is empty only at its end.
LEMMA ChunkEndType ==
    ASSUME NEW n \in Nat, NEW len \in Nat, n <= len
    PROVE  /\ ChunkEnd(n, len) \in n .. len
           /\ ChunkEnd(n, len) \in Nat
           /\ ChunkEnd(n, len) = n => len = n
BY TailAssumption DEF ChunkEnd

\* The unterminated line of a checkpoint ends where it reads next.
WellPlaced(c) == Base(c) + Len(c.partial) = c.next

\* A fresh checkpoint is a checkpoint at the beginning of its file.
LEMMA FreshType ==
    ASSUME NEW id \in Identities \cup {NoFile}
    PROVE  LET c == [Fresh EXCEPT !.identity = id]
           IN  /\ c \in Checkpoint
               /\ c.identity = id
               /\ c.next = 0 /\ c.completed = 0 /\ c.partial = << >>
               /\ Base(c) = 0
               /\ WellPlaced(c)
<1> DEFINE c == [Fresh EXCEPT !.identity = id]
<1>1. c = [identity |-> id, next |-> 0, completed |-> 0, partialAt |-> 0, partial |-> << >>]
    BY DEF Fresh
<1> HIDE DEF c
<1>2. << >> \in Seq(Byte) /\ Len(<< >>) = 0
    BY EmptySeq
<1>3. c \in Checkpoint
    BY <1>1, <1>2 DEF Checkpoint
<1>4. Base(c) = 0
    BY <1>1 DEF Base
<1>5. WellPlaced(c)
    BY <1>1, <1>2, <1>4 DEF WellPlaced
<1> QED
    BY <1>1, <1>3, <1>4, <1>5 DEF c

\* The numbers of a checkpoint are numbers.
LEMMA BaseType ==
    ASSUME NEW c \in Checkpoint
    PROVE  Base(c) \in Nat /\ c.next \in Nat /\ c.completed \in Nat
           /\ c.partial \in Seq(Byte) /\ Len(c.partial) \in Nat
BY LenProperties DEF Base, Checkpoint

\* What any poll returns that starts within the file, whatever the file holds
\* before that place: lines in order behind the earlier ones, and a checkpoint
\* behind them.
LEMMA PollShape ==
    ASSUME NEW s \in Seq(Byte), NEW c \in Checkpoint, WellPlaced(c), c.next <= Len(s)
    PROVE  LET new == PolledCheckpoint(c, s)
               lines == PolledLines(c, s)
           IN  /\ new \in Checkpoint
               /\ new.identity = c.identity
               /\ new.next = ChunkEnd(c.next, Len(s))
               /\ WellPlaced(new)
               /\ Base(new) = Base(c) + LastBreak(Combined(c, s))
               /\ Base(c) <= Base(new)
               /\ c.completed <= new.completed
               /\ lines \subseteq Line
               /\ Apart(lines)
               /\ BeginFrom(lines, Base(c), c.completed)
               /\ EndBefore(lines, Base(new), new.completed)
<1> DEFINE all == Combined(c, s)
           e == ChunkEnd(c.next, Len(s))
           rest == Unterminated(all)
           new == PolledCheckpoint(c, s)
           lines == PolledLines(c, s)
           slice == SubSeq(s, c.next + 1, e)
<1>1. /\ Base(c) \in Nat /\ c.next \in Nat /\ c.completed \in Nat
      /\ c.partial \in Seq(Byte) /\ Len(c.partial) \in Nat
    BY BaseType
<1>2. Len(s) \in Nat
    BY LenProperties
<1>3. e \in c.next .. Len(s) /\ e \in Nat /\ c.next \in 0 .. Len(s)
  <2> DEFINE n == c.next
             len == Len(s)
  <2>1. n \in Nat /\ len \in Nat /\ n <= len
    BY <1>1, <1>2
  <2> HIDE DEF n, len
  <2>2. ChunkEnd(n, len) \in n .. len /\ ChunkEnd(n, len) \in Nat
    BY <2>1, ChunkEndType
  <2>3. n \in 0 .. len
    BY <2>1
  <2> QED
    BY <2>2, <2>3 DEF n, len
<1> HIDE DEF e
<1>4. slice \in Seq(Byte) /\ Len(slice) = e - c.next
    BY <1>3, SliceType
<1>5. all = c.partial \o slice
    BY DEF Combined, e, slice
<1> HIDE DEF slice, all
<1>6. all \in Seq(Byte) /\ Len(all) = Len(c.partial) + (e - c.next)
  <2> DEFINE p == c.partial
  <2>1. p \in Seq(Byte) /\ all = p \o slice
    BY <1>1, <1>5
  <2> HIDE DEF p
  <2>2. all \in Seq(Byte) /\ Len(all) = Len(p) + Len(slice)
    BY <1>4, <2>1, ConcatProperties
  <2> QED
    BY <1>4, <2>2 DEF p
<1>7. Base(c) + Len(all) = e
  <2>1. Base(c) + Len(c.partial) = c.next
    BY DEF WellPlaced
  <2> DEFINE b == Base(c)
             p == Len(c.partial)
             n == c.next
  <2>2. b \in Nat /\ p \in Nat /\ n \in Nat /\ e \in Nat /\ b + p = n /\ Len(all) = p + (e - n)
    BY <1>1, <1>3, <1>6, <2>1
  <2> HIDE DEF b, p, n
  <2>3. b + Len(all) = e
    BY <2>2
  <2> QED
    BY <2>3 DEF b
<1>8. LastBreak(all) \in Nat /\ LastBreak(all) <= Len(all) /\ Len(all) \in Nat
  <2>1. Len(all) \in Nat /\ Len(all) + 1 \in Nat
    BY <1>6, LenProperties
  <2> QED
    BY <1>6, <2>1, BreakBeforeType DEF LastBreak
<1>9. rest \in Seq(Byte) /\ Len(rest) = Len(all) - LastBreak(all)
    BY <1>6, <1>8, SliceType DEF Unterminated
<1>10. new = [identity |-> c.identity, next |-> e,
              completed |-> c.completed + Cardinality(Breaks(all)),
              partialAt |-> IF rest = << >> THEN e ELSE Base(c) + LastBreak(all),
              partial |-> rest]
    BY DEF PolledCheckpoint, all, e, rest
<1> HIDE DEF rest, new
<1>11. Base(new) = Base(c) + LastBreak(all)
  <2>1. CASE rest = << >>
    <3>1. Len(rest) = 0
      BY <1>9, <2>1, EmptySeq
    <3>2. Base(new) = e
      BY <1>10, <2>1 DEF Base
    <3> QED
      BY <1>1, <1>7, <1>8, <1>9, <3>1, <3>2
  <2>2. CASE rest # << >>
    BY <1>10, <2>2 DEF Base
  <2> QED
    BY <2>1, <2>2
<1>12. Cardinality(Breaks(all)) \in Nat
    BY <1>6, BreaksType, FS_CardinalityType
<1>13. new \in Checkpoint
  <2>1. c.identity \in Identities \cup {NoFile}
    BY DEF Checkpoint
  <2>2. /\ c.completed + Cardinality(Breaks(all)) \in Nat
        /\ Base(c) + LastBreak(all) \in Nat
    BY <1>1, <1>8, <1>12
  <2> QED
    BY <1>3, <1>9, <1>10, <2>1, <2>2 DEF Checkpoint
<1>14. WellPlaced(new)
    BY <1>1, <1>7, <1>8, <1>9, <1>10, <1>11 DEF WellPlaced
<1>15. /\ lines \subseteq Line
       /\ Apart(lines)
       /\ BeginFrom(lines, Base(c), c.completed)
       /\ EndBefore(lines, Base(c) + LastBreak(all), c.completed + Cardinality(Breaks(all)))
    BY <1>1, <1>6, ChunkLines DEF PolledLines, all
<1>16. Base(c) <= Base(new) /\ c.completed <= new.completed
    BY <1>1, <1>8, <1>10, <1>11, <1>12
<1>17. EndBefore(lines, Base(new), new.completed)
    BY <1>10, <1>11, <1>15
<1>18. new.identity = c.identity /\ new.next = e
    BY <1>10
<1> HIDE DEF lines
<1> QED
    BY <1>11, <1>13, <1>14, <1>15, <1>16, <1>17, <1>18 DEF new, lines, e, all

\* Checkpoint c stands in file s where a reader of the whole prefix would stand.
StandsIn(c, s) ==
    /\ c.next \in 0 .. Len(s)
    /\ Base(c) = BreakBefore(s, c.next + 1)
    /\ c.partial = SubSeq(s, Base(c) + 1, c.next)
    /\ c.completed = EndedBy(s, c.next)

\* The base of a standing checkpoint is the start of a line, and no line ends
\* between it and the place of the next read.
LEMMA StandingBase ==
    ASSUME NEW s \in Seq(Byte), NEW c \in Checkpoint, StandsIn(c, s)
    PROVE  /\ Base(c) \in 0 .. Len(s)
           /\ Base(c) <= c.next
           /\ LineStart(s, Base(c))
           /\ \A j \in Breaks(s) : j <= c.next <=> j <= Base(c)
           /\ EndedBy(s, Base(c)) = c.completed
           /\ WellPlaced(c)
<1> DEFINE n == c.next
           b == Base(c)
<1>1. Len(s) \in Nat /\ n \in 0 .. Len(s) /\ n \in Nat /\ n + 1 \in Nat /\ b = BreakBefore(s, n + 1)
    BY LenProperties DEF StandsIn
<1> HIDE DEF n
<1>2. /\ b \in Nat
      /\ b = 0 \/ (b \in Breaks(s) /\ b < n + 1)
      /\ \A j \in Breaks(s) : j < n + 1 => j <= b
    BY <1>1, BreakBeforeType
<1>3. c.partial = SubSeq(s, b + 1, n) /\ c.completed = EndedBy(s, n)
    BY DEF StandsIn, n
<1> HIDE DEF b
<1>4. b <= n /\ b \in 0 .. Len(s) /\ n \in b .. Len(s)
    BY <1>1, <1>2
<1>5. \A j \in Breaks(s) : j <= n <=> j <= b
  <2>1. \A j \in Breaks(s) : j \in Nat
    BY BreaksType
  <2> QED
    BY <1>1, <1>2, <1>4, <2>1
<1>6. {j \in Breaks(s) : j <= n} = {j \in Breaks(s) : j <= b}
    BY <1>5
<1>7. EndedBy(s, b) = EndedBy(s, n)
    BY <1>6 DEF EndedBy
<1>8. Len(SubSeq(s, b + 1, n)) = n - b
    BY <1>4, SliceType
<1>9. b + Len(c.partial) = n
    BY <1>1, <1>2, <1>3, <1>8
<1> QED
    BY <1>2, <1>3, <1>4, <1>5, <1>7, <1>9 DEF LineStart, WellPlaced, b, n

\* A poll from a standing checkpoint combines the bytes from the start of the line.
LEMMA CombinedIsSlice ==
    ASSUME NEW s \in Seq(Byte), NEW c \in Checkpoint, StandsIn(c, s)
    PROVE  LET e == ChunkEnd(c.next, Len(s))
           IN  /\ e \in c.next .. Len(s)
               /\ e \in Base(c) .. Len(s)
               /\ Combined(c, s) = SubSeq(s, Base(c) + 1, e)
<1> DEFINE n == c.next
           b == Base(c)
           len == Len(s)
           e == ChunkEnd(n, len)
<1>1. b \in 0 .. len /\ b <= n /\ n \in 0 .. len /\ len \in Nat
    BY StandingBase, LenProperties DEF StandsIn
<1>2. c.partial = SubSeq(s, b + 1, n)
    BY DEF StandsIn
<1>3. Combined(c, s) = SubSeq(s, b + 1, n) \o SubSeq(s, n + 1, e)
    BY <1>2 DEF Combined
<1> HIDE DEF n, b, len
<1>4. e \in n .. len /\ e \in b .. len
  <2>1. n \in Nat /\ n <= len
    BY <1>1
  <2>2. e \in n .. len
    BY <1>1, <2>1, ChunkEndType
  <2> QED
    BY <1>1, <2>2
<1> HIDE DEF e
<1>5. /\ b + 1 \in 1 .. len + 1
      /\ n \in (b + 1) - 1 .. len
      /\ e \in n .. len
    BY <1>1, <1>4
<1>6. SubSeq(s, b + 1, n) \o SubSeq(s, n + 1, e) = SubSeq(s, b + 1, e)
    BY <1>5, ConcatAdjacentSubSeq DEF len
<1> QED
    BY <1>3, <1>4, <1>6 DEF n, b, len, e

\* A poll from a standing checkpoint returns exactly the lines of the file that
\* end in the chunk, and leaves a checkpoint that stands behind it.
LEMMA PollReads ==
    ASSUME NEW s \in Seq(Byte), NEW c \in Checkpoint, StandsIn(c, s)
    PROVE  LET new == PolledCheckpoint(c, s)
           IN  /\ StandsIn(new, s)
               /\ PolledLines(c, s) = LinesBetween(s, c.next, new.next)
               /\ LinesBetween(s, 0, c.next) \cup PolledLines(c, s)
                     = LinesBetween(s, 0, new.next)
<1> DEFINE n == c.next
           b == Base(c)
           e == ChunkEnd(n, Len(s))
           t == Combined(c, s)
           m == LastBreak(t)
           new == PolledCheckpoint(c, s)
<1>1. /\ b \in 0 .. Len(s)
      /\ b <= n
      /\ LineStart(s, b)
      /\ \A j \in Breaks(s) : j <= n <=> j <= b
      /\ EndedBy(s, b) = c.completed
      /\ WellPlaced(c)
    BY StandingBase
<1>2. n \in 0 .. Len(s) /\ n \in Nat /\ b \in Nat /\ Len(s) \in Nat
    BY <1>1, LenProperties DEF StandsIn
<1>3. e \in n .. Len(s) /\ e \in b .. Len(s) /\ t = SubSeq(s, b + 1, e)
    BY CombinedIsSlice
<1>4. /\ new.next = e /\ Base(new) = b + m /\ WellPlaced(new)
      /\ new.completed = c.completed + Cardinality(Breaks(t))
      /\ new.partial = Unterminated(t)
  <2>1. n <= Len(s)
    BY <1>2
  <2> QED
    BY <1>1, <2>1, PollShape DEF PolledCheckpoint
<1>5. PolledLines(c, s) = LinesIn(t, b, c.completed)
    BY DEF PolledLines
<1> HIDE DEF n, b, e, t, new
<1>6. t \in Seq(Byte) /\ Len(t) = e - b /\ e - b \in Nat
    BY <1>2, <1>3, SliceType
<1>7. PolledLines(c, s) = LinesBetween(s, b, e)
    BY <1>1, <1>3, <1>5, WindowLines
<1>8. LinesBetween(s, b, e) = LinesBetween(s, n, e)
  <2>1. \A j \in Breaks(s) : j \in Nat
    BY BreaksType
  <2>2. \A j \in Breaks(s) : b < j <=> n < j
    BY <1>1, <1>2, <2>1
  <2> QED
    BY <2>2 DEF LinesBetween
<1>9. LinesBetween(s, 0, n) \cup LinesBetween(s, n, e) = LinesBetween(s, 0, e)
  <2>1. 0 <= n /\ n <= e /\ e \in Nat
    BY <1>2, <1>3
  <2> QED
    BY <1>2, <2>1, LinesBetweenSplit
<1>10. BreakBefore(s, e + 1) = b + m
  <2>1. e - b + 1 \in 1 .. e - b + 1 /\ b + (e - b + 1) = e + 1
    BY <1>2, <1>3, <1>6
  <2>2. BreakBefore(s, b + (e - b + 1)) = b + BreakBefore(t, e - b + 1)
    BY <1>1, <1>3, <2>1, WindowBreakBefore
  <2> QED
    BY <1>6, <2>1, <2>2 DEF LastBreak
<1>11. m \in 0 .. e - b
  <2>1. e - b + 1 \in Nat
    BY <1>6
  <2> QED
    BY <1>6, <2>1, BreakBeforeType DEF LastBreak
<1> HIDE DEF m
<1>12. Unterminated(t) = SubSeq(s, b + m + 1, e)
  <2>1. e - b \in m .. e - b /\ b + (e - b) = e
    BY <1>2, <1>3, <1>6, <1>11
  <2>2. SubSeq(t, m + 1, e - b) = SubSeq(s, b + m + 1, b + (e - b))
    BY <1>1, <1>3, <1>11, <2>1, SliceOfSlice
  <2> QED
    BY <1>6, <2>1, <2>2 DEF Unterminated, m
<1>13. c.completed + Cardinality(Breaks(t)) = EndedBy(s, e)
  <2>1. EndedBy(t, e - b) = Cardinality(Breaks(t))
    BY <1>6, AllEnded
  <2>2. e - b \in 0 .. e - b /\ b + (e - b) = e
    BY <1>2, <1>3, <1>6
  <2>3. EndedBy(s, b + (e - b)) = EndedBy(s, b) + EndedBy(t, e - b)
    BY <1>1, <1>3, <2>2, WindowEndedBy
  <2> QED
    BY <1>1, <2>1, <2>2, <2>3
<1>14. StandsIn(new, s)
  <2>1. e \in 0 .. Len(s)
    BY <1>2, <1>3
  <2> QED
    BY <1>4, <1>10, <1>12, <1>13, <2>1 DEF StandsIn
<1> QED
    BY <1>4, <1>7, <1>8, <1>9, <1>14 DEF n, new

\* A checkpoint that stands in a prefix stands in the file.
LEMMA StandsInLonger ==
    ASSUME NEW u \in Seq(Byte), NEW n \in 0 .. Len(u), NEW c \in Checkpoint,
           StandsIn(c, SubSeq(u, 1, n))
    PROVE  StandsIn(c, u)
<1> DEFINE s == SubSeq(u, 1, n)
           k == c.next
           b == Base(c)
<1>1. Len(u) \in Nat /\ n \in Nat /\ 0 \in 0 .. Len(u) /\ n \in 0 .. Len(u)
    BY LenProperties
<1>2. s = SubSeq(u, 0 + 1, n) /\ n - 0 = n
    BY <1>1
<1>3. s \in Seq(Byte) /\ Len(s) = n
    BY <1>1, <1>2, SliceType
<1>4. StandsIn(c, s)
    OBVIOUS
<1>5. k \in 0 .. n /\ b = BreakBefore(s, k + 1) /\ c.partial = SubSeq(s, b + 1, k)
      /\ c.completed = EndedBy(s, k)
    BY <1>3, <1>4 DEF StandsIn
<1>6. b \in 0 .. n /\ b <= k
    BY <1>3, <1>4, StandingBase
<1> HIDE DEF k, b
<1>7. BreakBefore(u, k + 1) = b
  <2>1. k + 1 \in 1 .. n - 0 + 1 /\ 0 + (k + 1) = k + 1
    BY <1>1, <1>5
  <2>2. BreakBefore(u, 0 + (k + 1)) = 0 + BreakBefore(SubSeq(u, 0 + 1, n), k + 1)
    BY <1>1, <2>1, WindowBreakBefore DEF LineStart
  <2>3. b \in Nat
    BY <1>1, <1>6
  <2> QED
    BY <1>2, <1>5, <2>1, <2>2, <2>3
<1>8. SubSeq(u, b + 1, k) = SubSeq(s, b + 1, k)
  <2>1. b \in 0 .. n - 0 /\ k \in b .. n - 0 /\ 0 + b + 1 = b + 1 /\ 0 + k = k
    BY <1>1, <1>5, <1>6
  <2>2. SubSeq(SubSeq(u, 0 + 1, n), b + 1, k) = SubSeq(u, 0 + b + 1, 0 + k)
    BY <1>1, <2>1, SliceOfSlice
  <2> QED
    BY <1>2, <2>1, <2>2
<1>9. EndedBy(u, k) = EndedBy(s, k)
  <2>1. k \in 0 .. n - 0 /\ 0 + k = k /\ k \in Nat
    BY <1>1, <1>5
  <2>2. EndedBy(u, 0 + k) = EndedBy(u, 0) + EndedBy(SubSeq(u, 0 + 1, n), k)
    BY <1>1, <2>1, WindowEndedBy
  <2>3. EndedBy(u, 0) = 0 /\ EndedBy(s, k) \in Nat
    BY <1>3, <2>1, EndedByZero, EndedByType
  <2> QED
    BY <1>2, <2>1, <2>2, <2>3
<1>10. k \in 0 .. Len(u)
    BY <1>1, <1>5
<1> QED
    BY <1>5, <1>7, <1>8, <1>9, <1>10 DEF StandsIn, k, b

\* Appending to a file changes no prefix of it.
LEMMA PrefixOfLonger ==
    ASSUME NEW s \in Seq(Byte), NEW w \in Seq(Byte), NEW n \in 0 .. Len(s)
    PROVE  /\ s \o w \in Seq(Byte)
           /\ Len(s) \in 0 .. Len(s \o w)
           /\ SubSeq(s \o w, 1, Len(s)) = s
           /\ SubSeq(s \o w, 1, n) = SubSeq(s, 1, n)
<1> DEFINE u == s \o w
<1>1. Len(s) \in Nat /\ Len(w) \in Nat /\ n \in Nat
    BY LenProperties
<1>2. /\ u \in Seq(Byte) /\ Len(u) = Len(s) + Len(w)
      /\ \A i \in 1 .. Len(s) + Len(w) : u[i] = IF i <= Len(s) THEN s[i] ELSE w[i - Len(s)]
    BY ConcatProperties
<1> HIDE DEF u
<1>3. \A i \in 1 .. Len(s) : i \in 1 .. Len(s) + Len(w) /\ i <= Len(s)
    BY <1>1
<1>4. \A i \in 1 .. Len(s) : u[i] = s[i]
    BY <1>2, <1>3
<1>5. ASSUME NEW k \in 0 .. Len(s) PROVE SubSeq(u, 1, k) = SubSeq(s, 1, k)
  <2>1. /\ 0 + 1 = 1 /\ 0 \in 0 .. Len(u) /\ k \in 0 .. Len(u) /\ k - 0 = k
        /\ 0 \in 0 .. Len(s) /\ \A i \in 1 .. k : 0 + i = i /\ i \in 1 .. Len(s)
    BY <1>1, <1>2
  <2>2. /\ SubSeq(u, 0 + 1, k) \in Seq(Byte) /\ Len(SubSeq(u, 0 + 1, k)) = k - 0
        /\ \A i \in 1 .. k - 0 : SubSeq(u, 0 + 1, k)[i] = u[0 + i]
    BY <1>2, <2>1, SliceType
  <2>3. /\ SubSeq(s, 0 + 1, k) \in Seq(Byte) /\ Len(SubSeq(s, 0 + 1, k)) = k - 0
        /\ \A i \in 1 .. k - 0 : SubSeq(s, 0 + 1, k)[i] = s[0 + i]
    BY <2>1, SliceType
  <2>4. \A i \in 1 .. k : SubSeq(u, 1, k)[i] = SubSeq(s, 1, k)[i]
    BY <1>4, <2>1, <2>2, <2>3
  <2> QED
    BY <2>1, <2>2, <2>3, <2>4, SeqEqual
<1>6. Len(s) \in 0 .. Len(s) /\ SubSeq(s, 1, Len(s)) = s
    BY <1>1, SubSeqFull
<1>7. SubSeq(u, 1, Len(s)) = s /\ SubSeq(u, 1, n) = SubSeq(s, 1, n)
    BY <1>5, <1>6
<1>8. Len(s) \in 0 .. Len(u)
    BY <1>1, <1>2
<1> QED
    BY <1>2, <1>7, <1>8 DEF u

-----------------------------------------------------------------------------
(* The inductive invariant.                                                *)

\* A file that is not at the path and has no bytes was never read or cut.
Untouched(f) ==
    /\ f \notin cut
    /\ stored[f] = {}
    /\ cursor # NoCursor => cursor.identity # f
    /\ tail.identity # f
    /\ batch.checkpoint.identity # f

FreshFilesUntouched ==
    \A f \in Identities : f # current /\ disk[f] = << >> => Untouched(f)

\* A run works from the durable cursor, if there is one.
TailIsCursor ==
    /\ phase = "idle" => tail = Fresh /\ batch = NoBatch /\ ~resumed
    /\ phase # "idle" => tail = IF cursor = NoCursor THEN Fresh ELSE cursor
    /\ resumed => cursor # NoCursor

\* The durable lines of a file end before checkpoint c; of a file that was never
\* cut they are those before it, and c stands in the file.
Settled(lines, c) ==
    /\ WellPlaced(c)
    /\ Apart(lines)
    /\ EndBefore(lines, Base(c), c.completed)

Faithful(lines, c) ==
    c.identity \notin cut =>
        /\ StandsIn(c, disk[c.identity])
        /\ lines = LinesOf(SubSeq(disk[c.identity], 1, c.next))

CursorSound ==
    cursor # NoCursor =>
        /\ Settled(stored[cursor.identity], cursor)
        /\ Faithful(stored[cursor.identity], cursor)

\* The polled lines may join the durable ones, unless the cursor would move back.
BatchLines == stored[batch.checkpoint.identity] \cup batch.lines

BatchSound ==
    phase = "polled" =>
        /\ batch.checkpoint.identity \in Identities
        /\ resumed => batch.checkpoint.identity = cursor.identity
        /\ ~CursorRegresses => /\ Settled(BatchLines, batch.checkpoint)
                               /\ Faithful(BatchLines, batch.checkpoint)

\* The file at the path has durable lines only if the cursor is in it.
CurrentUnread ==
    /\ cursor = NoCursor \/ cursor.identity # current => stored[current] = {}
    /\ phase = "polled" /\ batch.checkpoint.identity # current => stored[current] = {}

TailInvariant ==
    /\ TypeOK
    /\ FreshFilesUntouched
    /\ TailIsCursor
    /\ CursorSound
    /\ BatchSound
    /\ CurrentUnread
    /\ \A f \in Identities : Apart(stored[f])

-----------------------------------------------------------------------------
(* Lemmas about the parts of the invariant.                                *)

\* Before a file is read, nothing is stored of it and nothing need be.
LEMMA NothingSettled ==
    ASSUME NEW id \in Identities, NEW s \in Seq(Byte)
    PROVE  LET c == [Fresh EXCEPT !.identity = id]
           IN  Settled({}, c) /\ StandsIn(c, s) /\ LinesOf(SubSeq(s, 1, 0)) = {}
<1> DEFINE c == [Fresh EXCEPT !.identity = id]
<1>1. /\ c \in Checkpoint
      /\ c.next = 0 /\ c.completed = 0 /\ c.partial = << >>
      /\ Base(c) = 0
      /\ WellPlaced(c)
    BY FreshType
<1> HIDE DEF c
<1>2. Len(s) \in Nat
    BY LenProperties
<1>3. BreakBefore(s, 0 + 1) = 0
  <2>1. \A j \in Breaks(s) : j < 1 => j <= 0
    BY BreaksType
  <2> QED
    BY <2>1, BreakBeforeUnique
<1>4. SubSeq(s, 0 + 1, 0) = << >>
    BY SubSeqEmpty
<1>5. EndedBy(s, 0) = 0
    BY EndedByZero
<1>6. StandsIn(c, s)
    BY <1>1, <1>2, <1>3, <1>4, <1>5 DEF StandsIn
<1>7. \A j \in Breaks(s) : ~(0 < j /\ j <= 0)
    BY BreaksType
<1>8. LinesBetween(s, 0, 0) = {}
    BY <1>7 DEF LinesBetween
<1>9. LinesOf(SubSeq(s, 1, 0)) = {}
    BY <1>2, <1>8, PrefixLines
<1>10. Settled({}, c)
    BY <1>1 DEF Settled, Apart, EndBefore
<1> QED
    BY <1>6, <1>9, <1>10 DEF c

\* A poll carries the settled lines of a file to the settled lines of the chunk's
\* end, and the lines of a prefix to those of a longer prefix.
LEMMA PollSettles ==
    ASSUME NEW s \in Seq(Byte), NEW c \in Checkpoint, c.next <= Len(s),
           NEW lines, lines \subseteq Line, Settled(lines, c)
    PROVE  LET new == PolledCheckpoint(c, s)
               all == lines \cup PolledLines(c, s)
           IN  /\ Settled(all, new)
               /\ StandsIn(c, s) /\ lines = LinesOf(SubSeq(s, 1, c.next)) =>
                     StandsIn(new, s) /\ all = LinesOf(SubSeq(s, 1, new.next))
<1> DEFINE new == PolledCheckpoint(c, s)
           polled == PolledLines(c, s)
<1>1. WellPlaced(c) /\ Apart(lines) /\ EndBefore(lines, Base(c), c.completed)
    BY DEF Settled
<1>2. /\ new \in Checkpoint
      /\ WellPlaced(new)
      /\ Base(c) <= Base(new)
      /\ c.completed <= new.completed
      /\ polled \subseteq Line
      /\ Apart(polled)
      /\ BeginFrom(polled, Base(c), c.completed)
      /\ EndBefore(polled, Base(new), new.completed)
    BY <1>1, PollShape
<1>3. StandsIn(c, s) =>
         /\ StandsIn(new, s)
         /\ LinesBetween(s, 0, c.next) \cup polled = LinesBetween(s, 0, new.next)
    BY PollReads
<1> HIDE DEF new, polled
<1>4. /\ Base(c) \in Nat /\ c.completed \in Nat
      /\ Base(new) \in Nat /\ new.completed \in Nat
    BY <1>2, BaseType
<1>5. Apart(lines \cup polled)
    BY <1>1, <1>2, <1>4, JoinedApart
<1>6. EndBefore(lines, Base(new), new.completed)
    BY <1>1, <1>2, <1>4, EndBeforeLater
<1>7. EndBefore(lines \cup polled, Base(new), new.completed)
    BY <1>2, <1>6 DEF EndBefore
<1>8. Settled(lines \cup polled, new)
    BY <1>2, <1>5, <1>7 DEF Settled
<1>9. ASSUME StandsIn(c, s), lines = LinesOf(SubSeq(s, 1, c.next))
      PROVE  lines \cup polled = LinesOf(SubSeq(s, 1, new.next))
  <2>1. c.next \in 0 .. Len(s) /\ new.next \in 0 .. Len(s)
    BY <1>3, <1>9 DEF StandsIn
  <2>2. /\ LinesOf(SubSeq(s, 1, c.next)) = LinesBetween(s, 0, c.next)
        /\ LinesOf(SubSeq(s, 1, new.next)) = LinesBetween(s, 0, new.next)
    BY <2>1, PrefixLines
  <2> QED
    BY <1>3, <1>9, <2>2
<1> QED
    BY <1>3, <1>8, <1>9 DEF new, polled


\* Lines polled from the file at the path, and the checkpoint behind them, that
\* may be committed, or whose commit fails because the cursor would move back.
Acceptable(new, polled) ==
    /\ polled \subseteq Line
    /\ new \in Checkpoint
    /\ new.identity = current
    /\ \/ cursor # NoCursor /\ cursor.identity = current /\ new.next < cursor.next
       \/ /\ Settled(stored[current] \cup polled, new)
          /\ Faithful(stored[current] \cup polled, new)

\* A poll from the beginning of a file returns what may be stored.
LEMMA PollFromStart ==
    ASSUME TypeOK, NEW from, from = [Fresh EXCEPT !.identity = current],
           \/ stored[current] = {}
           \/ /\ cursor # NoCursor /\ cursor.identity = current
              /\ Len(disk[current]) < cursor.next
    PROVE  Acceptable(PolledCheckpoint(from, disk[current]), PolledLines(from, disk[current]))
<1> DEFINE s == disk[current]
           new == PolledCheckpoint(from, s)
           polled == PolledLines(from, s)
<1>1. current \in Identities /\ s \in Seq(Byte)
    BY DEF TypeOK
<1>2. /\ from \in Checkpoint /\ from.identity = current /\ from.next = 0
      /\ WellPlaced(from)
    BY <1>1, FreshType
<1>3. /\ Settled({}, from) /\ StandsIn(from, s) /\ LinesOf(SubSeq(s, 1, 0)) = {}
    BY <1>1, NothingSettled
<1>4. Len(s) \in Nat /\ from.next <= Len(s)
    BY <1>1, <1>2, LenProperties
<1>5. polled \subseteq Line /\ new \in Checkpoint /\ new.identity = current
      /\ new.next = ChunkEnd(from.next, Len(s))
    BY <1>1, <1>2, <1>4, PollShape
<1>6. /\ Settled({} \cup polled, new)
      /\ StandsIn(new, s)
      /\ {} \cup polled = LinesOf(SubSeq(s, 1, new.next))
  <2> DEFINE none == {}
  <2>1. none \subseteq Line /\ Settled(none, from) /\ none = LinesOf(SubSeq(s, 1, from.next))
    BY <1>2, <1>3
  <2> HIDE DEF none
  <2>2. /\ Settled(none \cup polled, new)
        /\ StandsIn(from, s) /\ none = LinesOf(SubSeq(s, 1, from.next)) =>
              StandsIn(new, s) /\ none \cup polled = LinesOf(SubSeq(s, 1, new.next))
    <3> HIDE DEF s
    <3>1. s \in Seq(Byte) /\ from \in Checkpoint /\ from.next <= Len(s)
          /\ none \subseteq Line /\ Settled(none, from)
      BY <1>1, <1>2, <1>4, <2>1
    <3>2. LET to == PolledCheckpoint(from, s)
              all == none \cup PolledLines(from, s)
          IN  /\ Settled(all, to)
              /\ StandsIn(from, s) /\ none = LinesOf(SubSeq(s, 1, from.next)) =>
                    StandsIn(to, s) /\ all = LinesOf(SubSeq(s, 1, to.next))
      BY <3>1, PollSettles
    <3> QED
      BY <3>2
  <2>3. StandsIn(from, s) /\ none = LinesOf(SubSeq(s, 1, from.next))
    BY <1>3, <2>1
  <2>4. /\ Settled(none \cup polled, new)
        /\ StandsIn(new, s)
        /\ none \cup polled = LinesOf(SubSeq(s, 1, new.next))
    BY <2>2, <2>3
  <2> QED
    BY <2>4 DEF none
<1> HIDE DEF new, polled
<1>7. CASE stored[current] = {}
  <2>1. stored[current] \cup polled = {} \cup polled
    BY <1>7
  <2> QED
    BY <1>5, <1>6, <2>1 DEF Acceptable, Faithful, new, polled
<1>8. CASE /\ cursor # NoCursor /\ cursor.identity = current
           /\ Len(s) < cursor.next
  <2>1. ChunkEnd(0, Len(s)) \in 0 .. Len(s)
    <3> DEFINE len == Len(s)
    <3>1. len \in Nat /\ 0 <= len
      BY <1>4
    <3> HIDE DEF len
    <3>2. ChunkEnd(0, len) \in 0 .. len
      BY <3>1, ChunkEndType
    <3> QED
      BY <3>2 DEF len
  <2>2. new.next \in 0 .. Len(s)
    BY <1>2, <1>5, <2>1
  <2>3. cursor.next \in Nat
    BY <1>8 DEF TypeOK, Checkpoint
  <2>4. new.next < cursor.next
    BY <1>4, <1>8, <2>2, <2>3
  <2> QED
    BY <1>5, <1>8, <2>4 DEF Acceptable, new, polled
<1> QED
    BY <1>7, <1>8

\* A poll from the cursor reads on where it stands.
LEMMA PollFromCursor ==
    ASSUME TypeOK, CursorSound, cursor # NoCursor, cursor.identity = current,
           cursor.next <= Len(disk[current])
    PROVE  Acceptable(PolledCheckpoint(cursor, disk[current]), PolledLines(cursor, disk[current]))
<1> DEFINE s == disk[current]
           lines == stored[current]
           new == PolledCheckpoint(cursor, s)
           polled == PolledLines(cursor, s)
<1>1. /\ s \in Seq(Byte) /\ cursor \in Checkpoint /\ lines \subseteq Line
    BY DEF TypeOK
<1>2. Settled(lines, cursor) /\ Faithful(lines, cursor)
    BY DEF CursorSound
<1>3. polled \subseteq Line /\ new \in Checkpoint /\ new.identity = current
    BY <1>1, <1>2, PollShape DEF Settled
<1>4. /\ Settled(lines \cup polled, new)
      /\ StandsIn(cursor, s) /\ lines = LinesOf(SubSeq(s, 1, cursor.next)) =>
            StandsIn(new, s) /\ lines \cup polled = LinesOf(SubSeq(s, 1, new.next))
    BY <1>1, <1>2, PollSettles
<1> HIDE DEF new, polled, lines
<1>5. Faithful(lines \cup polled, new)
    BY <1>2, <1>3, <1>4 DEF Faithful
<1> QED
    BY <1>3, <1>4, <1>5 DEF Acceptable, new, polled, lines

\* What the next poll of a run returns, whatever happened to the file since the
\* last one.
LEMMA PollSound ==
    ASSUME TailInvariant, phase = "reading",
           NEW from, from = Resumed(tail, current, Len(disk[current]))
    PROVE  /\ Acceptable(PolledCheckpoint(from, disk[current]), PolledLines(from, disk[current]))
           /\ resumed /\ ~Reset(tail, current, Len(disk[current])) => cursor.identity = current
<1> DEFINE len == Len(disk[current])
           fresh == [Fresh EXCEPT !.identity = current]
<1>1. /\ TypeOK /\ TailIsCursor /\ CursorSound /\ CurrentUnread
      /\ current \in Identities /\ disk[current] \in Seq(Byte)
    BY DEF TailInvariant, TypeOK
<1>2. len \in Nat
    BY <1>1, LenProperties
<1>3. tail = IF cursor = NoCursor THEN Fresh ELSE cursor
    BY <1>1 DEF TailIsCursor
<1> HIDE DEF len, fresh
<1>4. CASE cursor = NoCursor
  <2>1. tail.identity = NoFile /\ tail.next = 0
    BY <1>3, <1>4 DEF Fresh
  <2>2. ~Reset(tail, current, len)
    BY <1>2, <2>1 DEF Reset
  <2>3. from = fresh
    BY <1>3, <1>4, <2>2 DEF Resumed, len, fresh
  <2>4. stored[current] = {} /\ ~resumed
    BY <1>1, <1>4 DEF CurrentUnread, TailIsCursor
  <2> QED
    BY <1>1, <2>3, <2>4, PollFromStart DEF fresh
<1>5. CASE cursor # NoCursor /\ Reset(cursor, current, len)
  <2>1. from = fresh /\ Reset(tail, current, len)
    BY <1>3, <1>5 DEF Resumed, len, fresh
  <2>2. CASE cursor.identity # current
    <3>1. stored[current] = {}
      BY <1>1, <2>2 DEF CurrentUnread
    <3> QED
      BY <1>1, <2>1, <3>1, PollFromStart DEF fresh, len
  <2>3. CASE cursor.identity = current
    <3>1. len < cursor.next
      BY <1>5, <2>3 DEF Reset
    <3> QED
      BY <1>1, <1>5, <2>1, <2>3, <3>1, PollFromStart DEF fresh, len
  <2> QED
    BY <2>2, <2>3
<1>6. CASE cursor # NoCursor /\ ~Reset(cursor, current, len)
  <2>1. cursor \in Checkpoint /\ cursor.identity # NoFile
    BY <1>1, <1>6 DEF TypeOK
  <2>2. cursor.identity = current /\ ~(len < cursor.next)
    BY <1>6, <2>1 DEF Reset
  <2>3. cursor.next <= len
    BY <1>2, <2>1, <2>2 DEF Checkpoint
  <2>4. from = cursor
    <3>1. from = [cursor EXCEPT !.identity = current]
      BY <1>3, <1>6 DEF Resumed, len
    <3> QED
      BY <2>1, <2>2, <3>1 DEF Checkpoint
  <2> QED
    BY <1>1, <1>6, <2>2, <2>3, <2>4, PollFromCursor DEF len
<1> QED
    BY <1>4, <1>5, <1>6

-----------------------------------------------------------------------------
(* Every step preserves the invariant.                                     *)

\* The fresh checkpoint belongs to no file, and the absent cursor is none.
LEMMA FreshIsCheckpoint ==
    /\ Fresh \in Checkpoint
    /\ Fresh.identity = NoFile
    /\ NoFile \notin Identities
    /\ NoCursor \notin Checkpoint
    /\ NoBatch.lines = {} /\ NoBatch.checkpoint = Fresh
BY EmptySeq, TailAssumption, RolloutAssumption DEF Fresh, Checkpoint, NoBatch

\* At the beginning nothing is stored.
LEMMA InitInvariant == Init => TailInvariant
<1> SUFFICES ASSUME Init PROVE TailInvariant
    OBVIOUS
<1> USE DEF Init
<1>1. << >> \in Seq(Byte) /\ First \in Identities
    BY EmptySeq, RolloutAssumption
<1>2. TypeOK
    BY <1>1, FreshIsCheckpoint DEF TypeOK
<1>3. FreshFilesUntouched
    BY FreshIsCheckpoint DEF FreshFilesUntouched, Untouched
<1>4. TailIsCursor /\ CursorSound /\ BatchSound
    BY DEF TailIsCursor, CursorSound, BatchSound
<1>5. CurrentUnread
    BY <1>1 DEF CurrentUnread
<1>6. \A f \in Identities : Apart(stored[f])
    BY DEF Apart
<1> QED
    BY <1>2, <1>3, <1>4, <1>5, <1>6 DEF TailInvariant

\* Appending to the file at the path.
LEMMA FaithfulLonger ==
    ASSUME TypeOK, NEW w \in Writes, AppendBytes(w),
           NEW lines, NEW c \in Checkpoint, c.identity \in Identities, Faithful(lines, c)
    PROVE  c.identity \notin cut' =>
              /\ StandsIn(c, disk'[c.identity])
              /\ lines = LinesOf(SubSeq(disk'[c.identity], 1, c.next))
<1> SUFFICES ASSUME c.identity \notin cut'
             PROVE  /\ StandsIn(c, disk'[c.identity])
                    /\ lines = LinesOf(SubSeq(disk'[c.identity], 1, c.next))
    OBVIOUS
<1> DEFINE s == disk[c.identity]
<1>1. c.identity \notin cut /\ cut' = cut /\ disk' = [disk EXCEPT ![current] = @ \o w]
    BY DEF AppendBytes
<1>2. StandsIn(c, s) /\ lines = LinesOf(SubSeq(s, 1, c.next))
    BY <1>1 DEF Faithful
<1>3. s \in Seq(Byte) /\ w \in Seq(Byte) /\ disk \in [Identities -> Seq(Byte)]
    BY RolloutAssumption DEF TypeOK
<1>4. CASE c.identity # current
  <2>1. disk'[c.identity] = s
    BY <1>1, <1>3, <1>4
  <2> QED
    BY <1>2, <2>1
<1>5. CASE c.identity = current
  <2>1. disk'[c.identity] = s \o w
    BY <1>1, <1>3, <1>5
  <2>2. c.next \in 0 .. Len(s)
    BY <1>2 DEF StandsIn
  <2> HIDE DEF s
  <2>3. /\ s \o w \in Seq(Byte)
        /\ Len(s) \in 0 .. Len(s \o w)
        /\ SubSeq(s \o w, 1, Len(s)) = s
        /\ SubSeq(s \o w, 1, c.next) = SubSeq(s, 1, c.next)
    BY <1>3, <2>2, PrefixOfLonger
  <2>4. StandsIn(c, s \o w)
    BY <1>2, <2>3, StandsInLonger
  <2> QED
    BY <1>2, <2>1, <2>3, <2>4
<1> QED
    BY <1>4, <1>5

\* What is appended to a file leaves what was read of it in place.
LEMMA AppendInvariant ==
    ASSUME TailInvariant, NEW w \in Writes, AppendBytes(w)
    PROVE  TailInvariant'
<1> USE DEF TailInvariant
<1>1. /\ disk' = [disk EXCEPT ![current] = @ \o w]
      /\ UNCHANGED <<current, cut, truncations, crashes, reader>>
    BY DEF AppendBytes
<1>2. UNCHANGED <<cursor, stored, phase, tail, batch, resumed>>
    BY <1>1 DEF reader
<1>3. disk[current] \o w \in Seq(Byte)
    BY RolloutAssumption, ConcatProperties DEF TypeOK
<1>4. TypeOK'
    BY <1>1, <1>2, <1>3 DEF TypeOK
<1>5. FreshFilesUntouched'
  <2> SUFFICES ASSUME NEW f \in Identities, f # current, disk'[f] = << >>
               PROVE  Untouched(f)'
    BY <1>1 DEF FreshFilesUntouched
  <2>1. disk[f] = << >>
    BY <1>1 DEF TypeOK
  <2> QED
    BY <1>1, <1>2, <2>1 DEF FreshFilesUntouched, Untouched
<1>6. TailIsCursor'
    BY <1>2 DEF TailIsCursor
<1>7. CursorSound'
  <2> SUFFICES ASSUME cursor # NoCursor
               PROVE  /\ Settled(stored[cursor.identity], cursor)
                      /\ Faithful(stored[cursor.identity], cursor)'
    BY <1>2 DEF CursorSound, Settled
  <2> DEFINE c == cursor
             lines == stored[c.identity]
  <2>1. Settled(lines, c) /\ Faithful(lines, c)
    BY DEF CursorSound
  <2>2. c \in Checkpoint /\ c.identity \in Identities
    BY DEF TypeOK, Checkpoint
  <2>3. (lines = stored'[cursor'.identity]) /\ (c = cursor')
    BY <1>2
  <2> HIDE DEF c, lines
  <2>4. c.identity \notin cut' =>
           /\ StandsIn(c, disk'[c.identity])
           /\ lines = LinesOf(SubSeq(disk'[c.identity], 1, c.next))
    BY <2>1, <2>2, FaithfulLonger
  <2>5. Faithful(stored[cursor.identity], cursor)'
    BY <2>3, <2>4 DEF Faithful
  <2> QED
    BY <2>1, <2>5 DEF c, lines
<1>8. BatchSound'
  <2> SUFFICES ASSUME phase = "polled", ~CursorRegresses
               PROVE  Faithful(BatchLines, batch.checkpoint)'
    BY <1>2 DEF BatchSound, BatchLines, CursorRegresses, Settled
  <2> DEFINE c == batch.checkpoint
             lines == BatchLines
  <2>1. Faithful(lines, c) /\ c.identity \in Identities /\ c \in Checkpoint
    BY DEF BatchSound, TypeOK
  <2>2. (lines = BatchLines') /\ (c = batch'.checkpoint)
    BY <1>2 DEF BatchLines
  <2> HIDE DEF c, lines
  <2>3. c.identity \notin cut' =>
           /\ StandsIn(c, disk'[c.identity])
           /\ lines = LinesOf(SubSeq(disk'[c.identity], 1, c.next))
    BY <2>1, FaithfulLonger
  <2> QED
    BY <2>2, <2>3 DEF Faithful
<1>9. CurrentUnread'
    BY <1>1, <1>2 DEF CurrentUnread
<1> QED
    BY <1>2, <1>4, <1>5, <1>6, <1>7, <1>8, <1>9 DEF Apart

\* Another file takes the path: it has no bytes, so it is untouched.
LEMMA ReplaceInvariant ==
    ASSUME TailInvariant, NEW g \in Identities, Replace(g)
    PROVE  TailInvariant'
<1> USE DEF TailInvariant
<1>1. /\ g # current /\ disk[g] = << >> /\ disk[current] # << >>
      /\ current' = g
      /\ UNCHANGED <<disk, cut, truncations, crashes, reader>>
    BY DEF Replace
<1>2. UNCHANGED <<disk, cut, truncations, crashes>>
    BY <1>1
<1>3. UNCHANGED <<cursor, stored, phase, tail, batch, resumed>>
    BY <1>1 DEF reader
<1>4. TypeOK'
    BY <1>1, <1>2, <1>3 DEF TypeOK
<1>5. FreshFilesUntouched'
  <2> SUFFICES ASSUME NEW f \in Identities, f # g, disk[f] = << >>
               PROVE  Untouched(f)'
    BY <1>1, <1>2 DEF FreshFilesUntouched
  <2>1. Untouched(f)
    BY <1>1 DEF FreshFilesUntouched
  <2> QED
    BY <1>2, <1>3, <2>1 DEF Untouched
<1>6. TailIsCursor'
    BY <1>3 DEF TailIsCursor
<1>7. CursorSound'
    BY <1>2, <1>3 DEF CursorSound, Faithful, Settled
<1>8. BatchSound'
    BY <1>2, <1>3 DEF BatchSound, BatchLines, CursorRegresses, Faithful, Settled
<1>9. CurrentUnread'
  <2>1. Untouched(g)
    BY <1>1 DEF FreshFilesUntouched
  <2> QED
    BY <1>1, <1>3, <2>1 DEF CurrentUnread, Untouched
<1> QED
    BY <1>3, <1>4, <1>5, <1>6, <1>7, <1>8, <1>9 DEF Apart

\* Of a file that was cut nothing but the order of its lines is claimed.
LEMMA TruncateInvariant ==
    ASSUME TailInvariant, NEW n \in Nat, Truncate(n)
    PROVE  TailInvariant'
<1> USE DEF TailInvariant
<1>1. /\ n < Len(disk[current])
      /\ disk' = [disk EXCEPT ![current] = SubSeq(@, 1, n)]
      /\ cut' = cut \cup {current}
      /\ truncations' = truncations + 1
      /\ UNCHANGED <<current, crashes, reader>>
    BY DEF Truncate
<1>2. UNCHANGED <<current, crashes>> /\ UNCHANGED <<cursor, stored, phase, tail, batch, resumed>>
    BY <1>1 DEF reader
<1>3. SubSeq(disk[current], 1, n) \in Seq(Byte)
  <2>1. disk[current] \in Seq(Byte) /\ Len(disk[current]) \in Nat
    BY LenProperties DEF TypeOK
  <2>2. 0 \in 0 .. Len(disk[current]) /\ n \in 0 .. Len(disk[current])
    BY <1>1, <2>1
  <2>3. SubSeq(disk[current], 0 + 1, n) \in Seq(Byte)
    BY <2>1, <2>2, SliceType
  <2> QED
    BY <2>3
<1>4. TypeOK'
    BY <1>1, <1>2, <1>3 DEF TypeOK
<1>5. \A f \in Identities : f \notin cut' => f \notin cut /\ disk'[f] = disk[f]
    BY <1>1 DEF TypeOK
<1>6. FreshFilesUntouched'
  <2> SUFFICES ASSUME NEW f \in Identities, f # current, disk'[f] = << >>
               PROVE  Untouched(f)'
    BY <1>2 DEF FreshFilesUntouched
  <2>1. disk[f] = << >>
    BY <1>1 DEF TypeOK
  <2> QED
    BY <1>1, <1>2, <2>1 DEF FreshFilesUntouched, Untouched
<1>7. TailIsCursor'
    BY <1>2 DEF TailIsCursor
<1>8. CursorSound'
  <2> SUFFICES ASSUME cursor # NoCursor
               PROVE  Faithful(stored[cursor.identity], cursor)'
    BY <1>2 DEF CursorSound, Settled
  <2>1. Faithful(stored[cursor.identity], cursor) /\ cursor.identity \in Identities
    BY DEF CursorSound, TypeOK, Checkpoint
  <2> QED
    BY <1>2, <1>5, <2>1 DEF Faithful
<1>9. BatchSound'
  <2> SUFFICES ASSUME phase = "polled", ~CursorRegresses
               PROVE  Faithful(BatchLines, batch.checkpoint)'
    BY <1>2 DEF BatchSound, BatchLines, CursorRegresses, Settled
  <2>1. Faithful(BatchLines, batch.checkpoint) /\ batch.checkpoint.identity \in Identities
    BY DEF BatchSound
  <2> QED
    BY <1>2, <1>5, <2>1 DEF Faithful, BatchLines
<1>10. CurrentUnread'
    BY <1>2 DEF CurrentUnread
<1> QED
    BY <1>2, <1>4, <1>6, <1>7, <1>8, <1>9, <1>10 DEF Apart

\* A run that ends leaves the durable state as it is.
LEMMA EndRunInvariant ==
    ASSUME TailInvariant, EndRun, UNCHANGED <<cursor, stored, writer>>, crashes' \in Nat
    PROVE  TailInvariant'
<1> USE DEF TailInvariant
<1>1. /\ phase' = "idle" /\ tail' = Fresh /\ batch' = NoBatch /\ resumed' = FALSE
      /\ UNCHANGED <<cursor, stored, disk, current, cut, truncations>>
    BY DEF EndRun, writer
<1>2. TypeOK'
    BY <1>1, FreshIsCheckpoint DEF TypeOK
<1>3. FreshFilesUntouched'
  <2> SUFFICES ASSUME NEW f \in Identities, f # current, disk[f] = << >>
               PROVE  Untouched(f)'
    BY <1>1 DEF FreshFilesUntouched
  <2>1. Untouched(f)
    BY DEF FreshFilesUntouched
  <2> QED
    BY <1>1, <2>1, FreshIsCheckpoint DEF Untouched
<1>4. TailIsCursor'
    BY <1>1 DEF TailIsCursor
<1>5. CursorSound'
    BY <1>1 DEF CursorSound, Faithful, Settled
<1>6. BatchSound'
    BY <1>1 DEF BatchSound
<1>7. CurrentUnread'
    BY <1>1 DEF CurrentUnread
<1> QED
    BY <1>1, <1>2, <1>3, <1>4, <1>5, <1>6, <1>7 DEF Apart

\* A run begins from the stored cursor, or from none.
LEMMA BeginRunInvariant ==
    ASSUME TailInvariant, BeginRun
    PROVE  TailInvariant'
<1> USE DEF TailInvariant
<1>1. /\ phase = "idle" /\ phase' = "reading"
      /\ resumed' = (cursor # NoCursor)
      /\ tail' = IF cursor = NoCursor THEN Fresh ELSE cursor
      /\ UNCHANGED <<cursor, stored, batch, disk, current, cut, truncations, crashes>>
    BY DEF BeginRun, writer
<1>2. tail' \in Checkpoint
    BY <1>1, FreshIsCheckpoint DEF TypeOK
<1>3. TypeOK'
    BY <1>1, <1>2 DEF TypeOK
<1>4. FreshFilesUntouched'
  <2> SUFFICES ASSUME NEW f \in Identities, f # current, disk[f] = << >>
               PROVE  Untouched(f)'
    BY <1>1 DEF FreshFilesUntouched
  <2>1. Untouched(f)
    BY DEF FreshFilesUntouched
  <2> QED
    BY <1>1, <2>1, FreshIsCheckpoint DEF Untouched
<1>5. TailIsCursor'
    BY <1>1 DEF TailIsCursor
<1>6. CursorSound'
    BY <1>1 DEF CursorSound, Faithful, Settled
<1>7. BatchSound'
    BY <1>1 DEF BatchSound
<1>8. CurrentUnread'
    BY <1>1 DEF CurrentUnread
<1> QED
    BY <1>1, <1>3, <1>4, <1>5, <1>6, <1>7, <1>8 DEF Apart

\* A poll that is not refused leaves lines that may be committed.
LEMMA PollInvariant ==
    ASSUME TailInvariant, Poll
    PROVE  TailInvariant'
<1> DEFINE from == Resumed(tail, current, Len(disk[current]))
           new == PolledCheckpoint(from, disk[current])
           polled == PolledLines(from, disk[current])
<1>1. phase = "reading" /\ UNCHANGED <<cursor, stored, writer, crashes>>
    BY DEF Poll
<1>2. CASE Refused(from)
  <2>1. EndRun /\ crashes' \in Nat
    BY <1>1, <1>2 DEF Poll, TailInvariant, TypeOK
  <2> QED
    BY <1>1, <2>1, EndRunInvariant
<1>3. CASE ~Refused(from)
  <2> USE DEF TailInvariant
  <2>1. /\ batch' = [lines |-> polled, checkpoint |-> new]
        /\ phase' = "polled"
        /\ UNCHANGED <<tail, resumed>>
    BY <1>3 DEF Poll
  <2>2. /\ Acceptable(new, polled)
        /\ resumed /\ ~Reset(tail, current, Len(disk[current])) => cursor.identity = current
    BY <1>1, PollSound
  <2>3. resumed => cursor.identity = current
    BY <1>3, <2>2 DEF Refused
  <2> HIDE DEF from, new, polled
  <2>4. UNCHANGED <<cursor, stored, disk, current, cut, truncations, crashes>>
    BY <1>1 DEF writer
  <2>5. batch'.lines = polled /\ batch'.checkpoint = new
    BY <2>1
  <2>6. polled \subseteq Line /\ new \in Checkpoint /\ new.identity = current
    BY <2>2 DEF Acceptable
  <2>7. TypeOK'
    BY <2>1, <2>4, <2>5, <2>6 DEF TypeOK
  <2>8. FreshFilesUntouched'
    <3> SUFFICES ASSUME NEW f \in Identities, f # current, disk[f] = << >>
                 PROVE  Untouched(f)'
      BY <2>4 DEF FreshFilesUntouched
    <3>1. Untouched(f)
      BY DEF FreshFilesUntouched
    <3> QED
      BY <2>1, <2>4, <2>5, <2>6, <3>1 DEF Untouched
  <2>9. TailIsCursor'
    BY <1>1, <2>1, <2>4 DEF TailIsCursor
  <2>10. CursorSound'
    BY <2>4 DEF CursorSound, Faithful, Settled
  <2>11. BatchSound'
    <3>1. ~CursorRegresses' => ~(/\ cursor # NoCursor /\ cursor.identity = current
                                 /\ new.next < cursor.next)
      BY <2>4, <2>5, <2>6 DEF CursorRegresses
    <3>2. ~CursorRegresses' => /\ Settled(stored[current] \cup polled, new)
                               /\ Faithful(stored[current] \cup polled, new)
      BY <2>2, <3>1 DEF Acceptable
    <3>3. BatchLines' = stored[current] \cup polled
      BY <2>4, <2>5, <2>6 DEF BatchLines
    <3>4. current \in Identities
      BY DEF TypeOK
    <3>5. ~CursorRegresses' => /\ Settled(BatchLines, batch.checkpoint)'
                               /\ Faithful(BatchLines, batch.checkpoint)'
      BY <2>4, <2>5, <3>2, <3>3 DEF Faithful, Settled
    <3> QED
      BY <2>1, <2>3, <2>4, <2>5, <2>6, <3>4, <3>5 DEF BatchSound
  <2>12. CurrentUnread'
    BY <2>4, <2>5, <2>6 DEF CurrentUnread
  <2> QED
    BY <2>4, <2>7, <2>8, <2>9, <2>10, <2>11, <2>12 DEF Apart
<1> QED
    BY <1>2, <1>3

\* The polled lines and the cursor become durable together.
LEMMA CommitInvariant ==
    ASSUME TailInvariant, Commit
    PROVE  TailInvariant'
<1> USE DEF TailInvariant
<1> DEFINE id == batch.checkpoint.identity
<1>1. /\ phase = "polled" /\ ~CursorRegresses
      /\ stored' = [stored EXCEPT ![id] = @ \cup batch.lines]
      /\ cursor' = batch.checkpoint
      /\ UNCHANGED <<writer, crashes>>
    BY DEF Commit
<1>2. \/ phase' = "idle" /\ tail' = Fresh /\ batch' = NoBatch /\ resumed' = FALSE
      \/ phase' = "reading" /\ tail' = batch.checkpoint /\ batch' = NoBatch /\ resumed' = resumed
    BY DEF Commit, EndRun
<1>3. UNCHANGED <<disk, current, cut, truncations, crashes>>
    BY <1>1 DEF writer
<1>4. /\ id \in Identities
      /\ Settled(BatchLines, batch.checkpoint)
      /\ Faithful(BatchLines, batch.checkpoint)
    BY <1>1 DEF BatchSound
<1>5. batch.checkpoint \in Checkpoint /\ cursor' # NoCursor /\ id # NoFile
    BY <1>1, <1>4, FreshIsCheckpoint DEF TypeOK
<1>6. /\ \A f \in Identities : f # id => stored'[f] = stored[f]
      /\ stored'[id] = BatchLines
    BY <1>1, <1>4 DEF TypeOK, BatchLines
<1>7. TypeOK'
  <2>1. batch.lines \subseteq Line /\ stored \in [Identities -> SUBSET Line]
    BY DEF TypeOK
  <2>2. stored' \in [Identities -> SUBSET Line]
    BY <1>1, <1>4, <2>1
  <2>3. /\ tail' \in Checkpoint /\ phase' \in {"idle", "reading"} /\ resumed' \in BOOLEAN
        /\ batch' = NoBatch
    BY <1>2, <1>5, FreshIsCheckpoint DEF TypeOK
  <2>4. batch'.lines \subseteq Line /\ batch'.checkpoint \in Checkpoint
    BY <2>3, FreshIsCheckpoint
  <2> QED
    BY <1>1, <1>3, <1>5, <2>2, <2>3, <2>4 DEF TypeOK
<1>8. FreshFilesUntouched'
  <2> SUFFICES ASSUME NEW f \in Identities, f # current, disk[f] = << >>
               PROVE  Untouched(f)'
    BY <1>3 DEF FreshFilesUntouched
  <2>1. Untouched(f)
    BY DEF FreshFilesUntouched
  <2>2. f # id /\ f # NoFile
    BY <2>1, FreshIsCheckpoint DEF Untouched
  <2>3. tail'.identity # f /\ batch'.checkpoint.identity # f /\ cursor'.identity # f
    BY <1>1, <1>2, <2>2, FreshIsCheckpoint
  <2> QED
    BY <1>3, <1>6, <2>1, <2>2, <2>3 DEF Untouched
<1>9. TailIsCursor'
    BY <1>1, <1>2, <1>5 DEF TailIsCursor
<1>10. CursorSound'
    BY <1>1, <1>3, <1>4, <1>6 DEF CursorSound, Faithful, Settled
<1>11. BatchSound'
    BY <1>2 DEF BatchSound
<1>12. CurrentUnread'
  <2>1. current \in Identities
    BY DEF TypeOK
  <2>2. id # current => stored'[current] = {}
    BY <1>1, <1>6, <2>1 DEF CurrentUnread
  <2> QED
    BY <1>1, <1>2, <1>3, <1>5, <2>2 DEF CurrentUnread
<1>13. \A f \in Identities : Apart(stored'[f])
    BY <1>4, <1>6 DEF Settled
<1> QED
    BY <1>7, <1>8, <1>9, <1>10, <1>11, <1>12, <1>13 DEF Apart

\* Every step preserves the invariant.
LEMMA NextInvariant == TailInvariant /\ [Next]_vars => TailInvariant'
<1> SUFFICES ASSUME TailInvariant, [Next]_vars
             PROVE  TailInvariant'
    OBVIOUS
<1>1. ASSUME NEW w \in Writes, AppendBytes(w) PROVE TailInvariant'
    BY <1>1, AppendInvariant
<1>2. ASSUME NEW g \in Identities, Replace(g) PROVE TailInvariant'
    BY <1>2, ReplaceInvariant
<1>3. ASSUME NEW n \in 0 .. MaxBytes, Truncate(n) PROVE TailInvariant'
  <2>1. n \in Nat
    BY RolloutAssumption
  <2> QED
    BY <1>3, <2>1, TruncateInvariant
<1>4. CASE BeginRun
    BY <1>4, BeginRunInvariant
<1>5. CASE Poll
    BY <1>5, PollInvariant
<1>6. CASE Commit
    BY <1>6, CommitInvariant
<1>7. CASE CommitFails
  <2>1. EndRun /\ UNCHANGED <<cursor, stored, writer>> /\ crashes' \in Nat
    BY <1>7 DEF CommitFails, TailInvariant, TypeOK
  <2> QED
    BY <2>1, EndRunInvariant
<1>8. CASE Crash
  <2>1. EndRun /\ UNCHANGED <<cursor, stored, writer>> /\ crashes' \in Nat
    BY <1>8 DEF Crash, TailInvariant, TypeOK
  <2> QED
    BY <2>1, EndRunInvariant
<1>9. CASE UNCHANGED vars
    BY <1>9 DEF vars, TailInvariant, TypeOK, FreshFilesUntouched, Untouched,
                TailIsCursor, CursorSound, BatchSound, BatchLines, CursorRegresses,
                CurrentUnread, Settled, Faithful, Apart
<1> QED
    BY <1>1, <1>2, <1>3, <1>4, <1>5, <1>6, <1>7, <1>8, <1>9 DEF Next, Codex, Run

-----------------------------------------------------------------------------
(* The theorems.                                                           *)

\* The inductive invariant of the tailer and the ingestion over it.
THEOREM TailInvariantHolds == Spec => []TailInvariant
<1>1. Init => TailInvariant
    BY InitInvariant
<1>2. TailInvariant /\ [Next]_vars => TailInvariant'
    BY NextInvariant
<1> QED
    BY <1>1, <1>2, PTL DEF Spec

\* Type correctness of the ingestion.
THEOREM TypeCorrect == Spec => []TypeOK
<1>1. TailInvariant => TypeOK
    BY DEF TailInvariant
<1> QED
    BY <1>1, TailInvariantHolds, PTL

\* The durable lines of a file that was never cut are exactly those before the
\* durable cursor, whatever the chunk size, the run, the crash and the replacement.
THEOREM CursorMatchesLinesHolds == Spec => []CursorMatchesLines
<1>1. TailInvariant => CursorMatchesLines
  <2> SUFFICES ASSUME TailInvariant, cursor # NoCursor, cursor.identity \notin cut
               PROVE  stored[cursor.identity] = LinesOf(SubSeq(disk[cursor.identity], 1, cursor.next))
    BY DEF CursorMatchesLines
  <2> QED
    BY DEF TailInvariant, CursorSound, Faithful
<1> QED
    BY <1>1, TailInvariantHolds, PTL

\* No two durable lines of a file share a byte, also when it was cut and grew again.
THEOREM LinesApartHolds == Spec => []LinesApart
<1>1. TailInvariant => LinesApart
  <2> SUFFICES ASSUME TailInvariant, NEW f \in Identities,
                      NEW l \in stored[f], NEW m \in stored[f], l # m
               PROVE  \/ l.number < m.number /\ l.offset + Len(l.raw) < m.offset
                      \/ m.number < l.number /\ m.offset + Len(m.raw) < l.offset
    BY DEF LinesApart
  <2>1. Apart(stored[f])
    BY DEF TailInvariant
  <2>2. Precedes(l, m) \/ Precedes(m, l)
    BY <2>1 DEF Apart
  <2> QED
    BY <2>2 DEF Precedes
<1> QED
    BY <1>1, TailInvariantHolds, PTL

\* A step of the ingestion is, for each file, a step of its line stream or none.
LEMMA StepOfStream ==
    ASSUME TailInvariant, [Next]_vars, NEW f \in Identities
    PROVE  Stream(f)!Next \/ UNCHANGED <<disk[f], f \in cut, stored[f]>>
<1> USE DEF TailInvariant
<1>1. ASSUME NEW w \in Writes, AppendBytes(w) PROVE Stream(f)!Next
                          \/ UNCHANGED <<disk[f], f \in cut, stored[f]>>
  <2>1. /\ disk' = [disk EXCEPT ![current] = @ \o w]
        /\ UNCHANGED <<cut, stored>>
    BY <1>1 DEF AppendBytes, reader
  <2>2. CASE f = current
    <3>1. disk'[f] = disk[f] \o w
      BY <2>1, <2>2 DEF TypeOK
    <3>2. Stream(f)!Grow
      BY <2>1, <3>1 DEF Stream!Grow
    <3> QED
      BY <3>2 DEF Stream!Next
  <2>3. CASE f # current
    BY <2>1, <2>3 DEF TypeOK
  <2> QED
    BY <2>2, <2>3
<1>2. ASSUME NEW n \in 0 .. MaxBytes, Truncate(n) PROVE Stream(f)!Next
                          \/ UNCHANGED <<disk[f], f \in cut, stored[f]>>
  <2>1. /\ n < Len(disk[current])
        /\ disk' = [disk EXCEPT ![current] = SubSeq(@, 1, n)]
        /\ cut' = cut \cup {current}
        /\ UNCHANGED stored
    BY <1>2 DEF Truncate, reader
  <2>2. CASE f = current
    <3>1. disk[f] \in Seq(Byte) /\ Len(disk[f]) \in Nat
      BY LenProperties DEF TypeOK
    <3>2. n \in 0 .. Len(disk[f])
      BY <2>1, <2>2, <3>1, RolloutAssumption
    <3>3. disk'[f] = SubSeq(disk[f], 1, n)
      BY <2>1, <2>2 DEF TypeOK
    <3>4. (f \in cut)' = TRUE
      BY <2>1, <2>2
    <3>5. Stream(f)!Cut
      BY <2>1, <3>2, <3>3, <3>4 DEF Stream!Cut
    <3> QED
      BY <3>5 DEF Stream!Next
  <2>3. CASE f # current
    BY <2>1, <2>3 DEF TypeOK
  <2> QED
    BY <2>2, <2>3
<1>3. CASE Commit
  <2> DEFINE id == batch.checkpoint.identity
  <2>1. /\ phase = "polled" /\ ~CursorRegresses
        /\ stored' = [stored EXCEPT ![id] = @ \cup batch.lines]
        /\ UNCHANGED <<disk, cut>>
    BY <1>3 DEF Commit, writer
  <2>2. CASE f = id
    <3>1. Faithful(BatchLines, batch.checkpoint)
      BY <2>1 DEF BatchSound
    <3>2. stored'[f] = BatchLines /\ stored[f] \subseteq BatchLines
      BY <2>1, <2>2 DEF TypeOK, BatchLines
    <3>3. f \notin cut => /\ batch.checkpoint.next \in 0 .. Len(disk[f])
                          /\ stored'[f] = LinesOf(SubSeq(disk[f], 1, batch.checkpoint.next))
      BY <2>2, <3>1, <3>2 DEF Faithful, StandsIn
    <3>4. Stream(f)!Take
      BY <2>1, <3>2, <3>3 DEF Stream!Take
    <3> QED
      BY <3>4 DEF Stream!Next
  <2>3. CASE f # id
    BY <2>1, <2>3 DEF TypeOK
  <2> QED
    BY <2>2, <2>3
<1>4. CASE UNCHANGED <<disk, cut, stored>>
    BY <1>4
<1>5. ASSUME NEW g \in Identities, Replace(g) PROVE UNCHANGED <<disk, cut, stored>>
    BY <1>5 DEF Replace, reader
<1>6. BeginRun \/ Poll \/ CommitFails \/ Crash \/ UNCHANGED vars => UNCHANGED <<disk, cut, stored>>
    BY DEF BeginRun, Poll, CommitFails, Crash, vars, writer
<1> QED
    BY <1>1, <1>2, <1>3, <1>4, <1>5, <1>6 DEF Next, Codex, Run

\* Each physical file implements the line stream: only lines of its own bytes are
\* taken, in place, each once, and of a growing file a growing prefix.
THEOREM FilesAreStreamsHolds == Spec => FilesAreStreams
<1>1. Init => \A f \in Identities : Stream(f)!Init
  <2> SUFFICES ASSUME Init, NEW f \in Identities PROVE Stream(f)!Init
    OBVIOUS
  <2> QED
    BY DEF Init, Stream!Init
<1>2. TailInvariant /\ [Next]_vars =>
         [\A f \in Identities :
             Stream(f)!Next \/ UNCHANGED <<disk[f], f \in cut, stored[f]>>]_vars
    BY StepOfStream
<1> QED
    BY <1>1, <1>2, TailInvariantHolds, PTL DEF Spec, FilesAreStreams

\* Once a run has ended with the cursor in a file, the cursor stays in that file.
THEOREM CursorKeepsItsFileHolds == Spec => CursorKeepsItsFile
<1> SUFFICES ASSUME NEW f \in Identities
             PROVE  Spec => [](phase = "idle" /\ BelongsTo(f) => []BelongsTo(f))
    BY DEF CursorKeepsItsFile
<1> DEFINE Kept == BelongsTo(f) /\ (phase # "idle" => resumed)
<1>1. phase = "idle" /\ BelongsTo(f) => Kept
    OBVIOUS
<1>2. TailInvariant /\ Kept /\ [Next]_vars => Kept'
  <2> SUFFICES ASSUME TailInvariant, Kept, [Next]_vars
               PROVE  Kept'
    OBVIOUS
  <2> USE DEF BelongsTo
  <2>1. CASE Codex
    BY <2>1 DEF Codex, AppendBytes, Replace, Truncate, reader
  <2>2. CASE BeginRun
    BY <2>2 DEF BeginRun
  <2>3. CASE Poll
    <3>1. UNCHANGED cursor /\ phase = "reading" /\ (phase' = "idle" \/ UNCHANGED resumed)
      BY <2>3 DEF Poll, EndRun
    <3> QED
      BY <3>1
  <2>4. CASE Commit
    <3>1. phase = "polled" /\ cursor' = batch.checkpoint
          /\ (phase' = "idle" \/ UNCHANGED resumed)
      BY <2>4 DEF Commit, EndRun
    <3>2. batch.checkpoint.identity = cursor.identity /\ batch.checkpoint \in Checkpoint
      BY <3>1 DEF TailInvariant, BatchSound, TypeOK
    <3> QED
      BY <3>1, <3>2, FreshIsCheckpoint
  <2>5. CASE CommitFails \/ Crash
    BY <2>5 DEF CommitFails, Crash, EndRun
  <2>6. CASE UNCHANGED vars
    BY <2>6 DEF vars
  <2> QED
    BY <2>1, <2>2, <2>3, <2>4, <2>5, <2>6 DEF Next, Run
<1>3. Kept => BelongsTo(f)
    OBVIOUS
<1> HIDE DEF Kept
<1> QED
    BY <1>1, <1>2, <1>3, TailInvariantHolds, PTL DEF Spec

=============================================================================
