------------------------------ MODULE Induction ------------------------------
(***************************************************************************)
(* Induction over the natural numbers stated with sets instead of          *)
(* operators, so that a first-order prover can apply it, and what follows  *)
(* from it: bounded sets of numbers have a maximum, a function defined by  *)
(* recursion on 0 .. N exists, sums over finite sets add up, and a whole   *)
(* can be shared out by largest remainders.  The proofs of the other       *)
(* modules rest on these facts wherever they speak of sequences read       *)
(* element by element, or of sets counted so.                              *)
(***************************************************************************)
EXTENDS WellFoundedInduction, FiniteSetTheorems

\* A nonempty set of natural numbers has a least element.
LEMMA LeastElement ==
    ASSUME NEW T, T \subseteq Nat, T # {}
    PROVE  \E n \in T : \A m \in T : n <= m
<1> DEFINE R == OpToRel(<, Nat)
<1>1. IsWellFoundedOn(R, Nat)
    BY NatLessThanWellFounded
<1>2. \A x, y \in Nat : y < x => <<y, x>> \in R
    BY DEF OpToRel
<1> HIDE DEF R
<1>3. PICK n \in T : \A m \in T : <<m, n>> \notin R
    BY <1>1, WFMin
<1>4. ASSUME NEW m \in T PROVE n <= m
  <2>1. n \in Nat /\ m \in Nat
    OBVIOUS
  <2>2. ~(m < n)
    BY <1>2, <1>3, <2>1
  <2> QED
    BY <2>1, <2>2
<1> QED
    BY <1>4

\* A set that holds zero and the successor of each number it holds has them all.
LEMMA SetInduction ==
    ASSUME NEW S, 0 \in S, \A n \in Nat : n \in S => n + 1 \in S
    PROVE  \A n \in Nat : n \in S
<1> SUFFICES ASSUME Nat \ S # {} PROVE FALSE
    OBVIOUS
<1>1. PICK n \in Nat \ S : \A m \in Nat \ S : n <= m
    BY LeastElement
<1>2. n # 0 /\ n \in Nat
    OBVIOUS
<1>3. n - 1 \in Nat /\ ~(n <= n - 1) /\ (n - 1) + 1 = n
    BY <1>2
<1>4. n - 1 \in S
    BY <1>1, <1>3
<1> QED
    BY <1>3, <1>4

\* The same up to a bound.
LEMMA BoundedInduction ==
    ASSUME NEW N \in Nat, NEW S, 0 \in S,
           \A n \in 0 .. N : n # N /\ n \in S => n + 1 \in S
    PROVE  \A n \in 0 .. N : n \in S
<1> DEFINE T == {n \in Nat : n \in 0 .. N => n \in S}
<1>1. 0 \in T
    OBVIOUS
<1>2. ASSUME NEW n \in Nat, n \in T PROVE n + 1 \in T
    BY <1>2
<1> HIDE DEF T
<1>3. \A n \in Nat : n \in T
    BY <1>1, <1>2, SetInduction
<1> QED
    BY <1>3 DEF T

\* A nonempty set of natural numbers with a bound has a greatest element.
LEMMA GreatestElement ==
    ASSUME NEW T, T \subseteq Nat, T # {}, NEW bound \in Nat,
           \A n \in T : n <= bound
    PROVE  \E n \in T : \A m \in T : n >= m
<1> DEFINE U == {k \in Nat : \A m \in T : m <= k}
<1>1. U \subseteq Nat /\ bound \in U
    OBVIOUS
<1> HIDE DEF U
<1>2. PICK k \in U : \A j \in U : k <= j
    BY <1>1, LeastElement
<1>3. k \in Nat /\ \A m \in T : m <= k
    BY DEF U
<1>4. k \in T
  <2> SUFFICES ASSUME k \notin T PROVE FALSE
    OBVIOUS
  <2>1. PICK m \in T : TRUE
    OBVIOUS
  <2>2. \A n \in T : n \in Nat /\ n # k /\ n <= k
    BY <1>3
  <2>3. k - 1 \in Nat /\ \A n \in T : n <= k - 1
    BY <1>3, <2>1, <2>2
  <2>4. k - 1 \in U
    BY <2>3 DEF U
  <2> QED
    BY <1>2, <1>3, <2>4
<1>5. \A m \in T : k >= m
    BY <1>3
<1> QED
    BY <1>4, <1>5

\* g is defined by recursion on 0 .. N, from base and with the steps F[n].
Recursive(g, base, F, N) ==
    \A n \in 0 .. N : g[n] = IF n = 0 THEN base ELSE F[n][g[n - 1]]

\* A function defined by recursion exists.
LEMMA RecursionExists ==
    ASSUME NEW D, NEW base \in D, NEW F \in [Nat -> [D -> D]], NEW N \in Nat
    PROVE  \E g \in [0 .. N -> D] : Recursive(g, base, F, N)
<1> DEFINE Solves(g, k) ==
              \A n \in 0 .. k : g[n] = IF n = 0 THEN base ELSE F[n][g[n - 1]]
           S == {k \in Nat : \E g \in [0 .. k -> D] : Solves(g, k)}
<1>1. 0 \in S
  <2>1. [n \in 0 .. 0 |-> base] \in [0 .. 0 -> D]
    OBVIOUS
  <2>2. Solves([n \in 0 .. 0 |-> base], 0)
    OBVIOUS
  <2> QED
    BY <2>1, <2>2
<1>2. ASSUME NEW k \in Nat, k \in S PROVE k + 1 \in S
  <2>1. PICK g \in [0 .. k -> D] : Solves(g, k)
    BY <1>2
  <2> DEFINE h == [n \in 0 .. k + 1 |-> IF n = k + 1 THEN F[k + 1][g[k]] ELSE g[n]]
  <2>2. h \in [0 .. k + 1 -> D]
    <3>1. k \in 0 .. k /\ k + 1 \in Nat /\ g[k] \in D
      OBVIOUS
    <3>2. F[k + 1][g[k]] \in D
      BY <3>1
    <3>3. \A n \in 0 .. k + 1 : n # k + 1 => n \in 0 .. k
      OBVIOUS
    <3> QED
      BY <3>2, <3>3
  <2>3. Solves(h, k + 1)
    <3> SUFFICES ASSUME NEW n \in 0 .. k + 1
                 PROVE  h[n] = IF n = 0 THEN base ELSE F[n][h[n - 1]]
      OBVIOUS
    <3>1. CASE n = k + 1
      BY <3>1
    <3>2. CASE n # k + 1
      <4>1. n \in 0 .. k /\ (n # 0 => n - 1 \in 0 .. k /\ n - 1 # k + 1)
        BY <3>2
      <4> QED
        BY <4>1, <2>1
    <3> QED
      BY <3>1, <3>2
  <2> HIDE DEF h
  <2> QED
    BY <2>2, <2>3
<1> HIDE DEF S
<1>3. N \in S
    BY <1>1, <1>2, SetInduction
<1>4. PICK g \in [0 .. N -> D] : Solves(g, N)
    BY <1>3 DEF S
<1> QED
    BY <1>4 DEF Recursive
-----------------------------------------------------------------------------
(* Sums over finite sets, with the weights given as a function.  They are  *)
(* the sums of the community modules: an element is chosen and added to    *)
(* the sum of the others.                                                  *)

AnyOf(s) == CHOOSE x \in s : TRUE

\* g holds the sum of every subset of U.
Totals(g, w, U) ==
    g = [s \in SUBSET U |-> IF s = {} THEN 0 ELSE w[AnyOf(s)] + g[s \ {AnyOf(s)}]]

\* The subsets of a finite set are finite, and less an element they are smaller.
LEMMA OneFewer ==
    ASSUME NEW U, IsFiniteSet(U)
    PROVE  \A s \in SUBSET U :
              /\ IsFiniteSet(s) /\ Cardinality(s) \in Nat
              /\ s # {} => /\ AnyOf(s) \in s /\ s \ {AnyOf(s)} \in SUBSET U
                           /\ Cardinality(s \ {AnyOf(s)}) \in Nat
                           /\ Cardinality(s \ {AnyOf(s)}) + 1 = Cardinality(s)
<1> SUFFICES ASSUME NEW s \in SUBSET U
             PROVE  /\ IsFiniteSet(s) /\ Cardinality(s) \in Nat
                    /\ s # {} => /\ AnyOf(s) \in s /\ s \ {AnyOf(s)} \in SUBSET U
                                 /\ Cardinality(s \ {AnyOf(s)}) \in Nat
                                 /\ Cardinality(s \ {AnyOf(s)}) + 1 = Cardinality(s)
    OBVIOUS
<1>1. IsFiniteSet(s) /\ Cardinality(s) \in Nat
    BY FS_Subset, FS_CardinalityType
<1>2. ASSUME s # {}
      PROVE  /\ AnyOf(s) \in s /\ s \ {AnyOf(s)} \in SUBSET U
             /\ Cardinality(s \ {AnyOf(s)}) \in Nat
             /\ Cardinality(s \ {AnyOf(s)}) + 1 = Cardinality(s)
  <2> DEFINE x == AnyOf(s)
  <2>1. x \in s
    BY <1>2 DEF AnyOf
  <2> HIDE DEF x
  <2>2. IsFiniteSet(s \ {x}) /\ Cardinality(s \ {x}) = Cardinality(s) - 1
    BY <1>1, <2>1, FS_RemoveElement
  <2>3. Cardinality(s \ {x}) \in Nat
    BY <2>2, FS_CardinalityType
  <2>4. Cardinality(s \ {x}) + 1 = Cardinality(s)
    BY <1>1, <2>2
  <2> QED
    BY <2>1, <2>3, <2>4 DEF x
<1> QED
    BY <1>1, <1>2

\* The sums exist.
LEMMA TotalsExist ==
    ASSUME NEW U, IsFiniteSet(U), NEW w
    PROVE  \E g : Totals(g, w, U)
<1> DEFINE Step(g, s) == IF s = {} THEN 0 ELSE w[AnyOf(s)] + g[s \ {AnyOf(s)}]
           Solves(g, k) == \A s \in SUBSET U : Cardinality(s) <= k => g[s] = Step(g, s)
           S == {k \in Nat : \E g : Solves(g, k)}
<1>1. 0 \in S
  <2> DEFINE g == [s \in SUBSET U |-> 0]
  <2>1. ASSUME NEW s \in SUBSET U, Cardinality(s) <= 0, s # {} PROVE FALSE
    <3>1. Cardinality(s \ {AnyOf(s)}) + 1 = Cardinality(s) /\ Cardinality(s \ {AnyOf(s)}) \in Nat
      BY <2>1, OneFewer
    <3> QED
      BY <2>1, <3>1
  <2>2. Solves(g, 0)
    BY <2>1
  <2> QED
    BY <2>2
<1>2. ASSUME NEW k \in Nat, k \in S PROVE k + 1 \in S
  <2>1. PICK g : Solves(g, k)
    BY <1>2
  <2> DEFINE h == [s \in SUBSET U |-> Step(g, s)]
  <2>2. ASSUME NEW s \in SUBSET U, Cardinality(s) <= k + 1 PROVE h[s] = Step(h, s)
    <3>1. CASE s = {}
      BY <3>1
    <3>2. CASE s # {}
      <4> DEFINE r == s \ {AnyOf(s)}
      <4>1. r \in SUBSET U /\ Cardinality(r) <= k
        BY <2>2, <3>2, OneFewer
      <4> HIDE DEF r
      <4>2. h[r] = Step(g, r) /\ g[r] = Step(g, r)
        BY <2>1, <4>1
      <4>3. h[r] = g[r]
        BY <4>2
      <4> QED
        BY <3>2, <4>3 DEF r
    <3> QED
      BY <3>1, <3>2
  <2> HIDE DEF h
  <2>3. Solves(h, k + 1)
    BY <2>2
  <2> HIDE DEF Solves
  <2>4. \E f : Solves(f, k + 1)
    BY <2>3
  <2> QED
    BY <2>4
<1> HIDE DEF S
<1>3. \A k \in Nat : k \in S
    BY <1>1, <1>2, SetInduction
<1>4. Cardinality(U) \in Nat
    BY FS_CardinalityType
<1>5. PICK g : Solves(g, Cardinality(U))
    BY <1>3, <1>4 DEF S
<1> DEFINE h == [s \in SUBSET U |-> g[s]]
<1>6. \A s \in SUBSET U : Cardinality(s) <= Cardinality(U)
    BY FS_Subset
<1>7. h = [s \in SUBSET U |-> Step(h, s)]
    BY <1>5, <1>6, OneFewer
<1>8. Totals(h, w, U)
    BY <1>7 DEF Totals
<1> QED
    BY <1>8

\* The sum of w over S
Total(w, S) == (CHOOSE g : Totals(g, w, S))[S]

\* However the sums of a larger set are written, they are the totals of its subsets:
\* only the weights of the elements matter.
LEMMA TotalIs ==
    ASSUME NEW U, IsFiniteSet(U), NEW V \in SUBSET U, NEW w, NEW v, \A x \in V : v[x] = w[x],
           NEW g, Totals(g, w, U)
    PROVE  g[V] = Total(v, V)
<1> DEFINE h == CHOOSE f : Totals(f, v, V)
           S == {k \in Nat : \A s \in SUBSET V : Cardinality(s) <= k => h[s] = g[s]}
<1>0. IsFiniteSet(V)
    BY FS_Subset
<1>1. Totals(h, v, V)
    BY <1>0, TotalsExist
<1> HIDE DEF h
<1>2. \A s \in SUBSET V : s # {} => /\ s \ {AnyOf(s)} \in SUBSET V /\ AnyOf(s) \in V
                                   /\ Cardinality(s \ {AnyOf(s)}) + 1 = Cardinality(s)
                                   /\ Cardinality(s \ {AnyOf(s)}) \in Nat
    BY <1>0, OneFewer
<1>3. \A s \in SUBSET V :
         /\ g[s] = IF s = {} THEN 0 ELSE w[AnyOf(s)] + g[s \ {AnyOf(s)}]
         /\ h[s] = IF s = {} THEN 0 ELSE v[AnyOf(s)] + h[s \ {AnyOf(s)}]
    BY <1>1 DEF Totals
<1>4. 0 \in S
  <2>1. ASSUME NEW s \in SUBSET V, Cardinality(s) <= 0, s # {} PROVE FALSE
    <3>1. Cardinality(s \ {AnyOf(s)}) + 1 = Cardinality(s) /\ Cardinality(s \ {AnyOf(s)}) \in Nat
      BY <1>2, <2>1
    <3> QED
      BY <2>1, <3>1
  <2> QED
    BY <1>3, <2>1
<1>5. ASSUME NEW k \in Nat, k \in S PROVE k + 1 \in S
  <2>1. ASSUME NEW s \in SUBSET V, Cardinality(s) <= k + 1 PROVE h[s] = g[s]
    <3>1. CASE s = {}
      BY <1>3, <3>1
    <3>2. CASE s # {}
      <4> DEFINE r == s \ {AnyOf(s)}
      <4>1. r \in SUBSET V /\ Cardinality(r) <= k
        BY <1>2, <2>1, <3>2, <1>0, OneFewer
      <4>2. h[r] = g[r]
        BY <1>5, <4>1
      <4>3. v[AnyOf(s)] = w[AnyOf(s)]
        BY <1>2, <3>2
      <4> QED
        BY <1>3, <3>2, <4>2, <4>3
    <3> QED
      BY <3>1, <3>2
  <2> QED
    BY <2>1
<1> HIDE DEF S
<1>6. \A k \in Nat : k \in S
    BY <1>4, <1>5, SetInduction
<1>7. V \in SUBSET V /\ Cardinality(V) \in Nat
    BY <1>0, FS_CardinalityType
<1>8. Cardinality(V) \in S
    BY <1>6, <1>7
<1>9. h[V] = g[V]
    BY <1>7, <1>8 DEF S
<1> QED
    BY <1>9 DEF h, Total

\* The empty sum is zero, and an element adds its weight to the sum of the others.
LEMMA TotalAdds ==
    ASSUME NEW U, IsFiniteSet(U), NEW w, \A x \in U : w[x] \in Nat
    PROVE  /\ Total(w, {}) = 0
           /\ \A S \in SUBSET U : Total(w, S) \in Nat
           /\ \A S \in SUBSET U : \A x \in U \ S : Total(w, S \cup {x}) = Total(w, S) + w[x]
<1>1. PICK g : Totals(g, w, U)
    BY TotalsExist
<1>2. \A V \in SUBSET U : Total(w, V) = g[V]
    BY <1>1, TotalIs
<1>3. \A V \in SUBSET U :
        Total(w, V) = IF V = {} THEN 0 ELSE w[AnyOf(V)] + Total(w, V \ {AnyOf(V)})
  <2>1. \A V \in SUBSET U : g[V] = IF V = {} THEN 0 ELSE w[AnyOf(V)] + g[V \ {AnyOf(V)}]
    BY <1>1 DEF Totals
  <2>2. \A V \in SUBSET U : V \ {AnyOf(V)} \in SUBSET U
    OBVIOUS
  <2> QED
    BY <1>2, <2>1, <2>2
<1> DEFINE Fine(V) == /\ Total(w, V) \in Nat
                      /\ \A y \in U \ V : Total(w, V \cup {y}) = Total(w, V) + w[y]
           T == {k \in Nat : \A V \in SUBSET U : Cardinality(V) <= k => Fine(V)}
<1>4. Fine({})
  <2>1. {} \in SUBSET U /\ Total(w, {}) = 0
    BY <1>3
  <2>2. ASSUME NEW y \in U \ {} PROVE Total(w, {} \cup {y}) = Total(w, {}) + w[y]
    <3>1. {y} \in SUBSET U /\ {y} # {} /\ AnyOf({y}) = y /\ {y} \ {y} = {} /\ {} \cup {y} = {y}
      BY DEF AnyOf
    <3>2. Total(w, {y}) = w[AnyOf({y})] + Total(w, {y} \ {AnyOf({y})})
      BY <1>3, <3>1
    <3>3. w[y] \in Nat
      OBVIOUS
    <3>4. Total(w, {y}) = w[y] + 0
      BY <2>1, <3>1, <3>2
    <3> QED
      BY <2>1, <3>1, <3>3, <3>4
  <2> QED
    BY <2>1, <2>2
<1>5. 0 \in T
  <2>1. ASSUME NEW V \in SUBSET U, Cardinality(V) <= 0, V # {} PROVE FALSE
    <3>1. Cardinality(V \ {AnyOf(V)}) + 1 = Cardinality(V) /\ Cardinality(V \ {AnyOf(V)}) \in Nat
      BY <2>1, OneFewer
    <3> QED
      BY <2>1, <3>1
  <2> QED
    BY <1>4, <2>1
<1>6. ASSUME NEW k \in Nat, k \in T PROVE k + 1 \in T
  <2>1. ASSUME NEW V \in SUBSET U, Cardinality(V) <= k + 1 PROVE Fine(V)
    <3>1. CASE V = {}
      BY <1>4, <3>1
    <3>2. CASE V # {}
      <4> DEFINE z == AnyOf(V)
                 W == V \ {z}
      <4>1. z \in V /\ z \in U \ W /\ W \in SUBSET U /\ Cardinality(W) <= k /\ V = W \cup {z}
        BY <2>1, <3>2, OneFewer
      <4>2. Fine(W)
        BY <1>6, <4>1
      <4>3. Total(w, V) \in Nat
        <5> HIDE DEF z, W
        <5>1. Total(w, W \cup {z}) = Total(w, W) + w[z] /\ Total(w, W) \in Nat /\ w[z] \in Nat
          BY <4>1, <4>2
        <5> QED
          BY <4>1, <5>1
      <4>4. ASSUME NEW y \in U \ V PROVE Total(w, V \cup {y}) = Total(w, V) + w[y]
        <5> DEFINE Y == V \cup {y}
                   c == AnyOf(Y)
                   R == V \ {c}
        <5>1. Y \in SUBSET U /\ c \in Y /\ Total(w, Y) = w[c] + Total(w, Y \ {c})
          <6>1. Y \in SUBSET U /\ Y # {}
            OBVIOUS
          <6> QED
            BY <1>3, <6>1, OneFewer
        <5>2. CASE c = y
          <6>1. Y \ {c} = V /\ w[y] \in Nat
            BY <5>2, <4>4
          <6>2. Total(w, Y) = w[y] + Total(w, V)
            BY <5>1, <5>2, <6>1
          <6> HIDE DEF c
          <6> QED
            BY <6>1, <6>2, <4>3 DEF Y
        <5>3. CASE c # y
          <6>1. /\ c \in V /\ R \in SUBSET U /\ Y \ {c} = R \cup {y}
                /\ V = R \cup {c} /\ y \in U \ R /\ c \in U \ R
            BY <5>1, <5>3, <4>4
          <6>2. Cardinality(R) <= k
            <7> HIDE DEF c
            <7>1. Cardinality(R) = Cardinality(V) - 1 /\ Cardinality(V) \in Nat
              BY <6>1, FS_RemoveElement, OneFewer
            <7> QED
              BY <2>1, <7>1
          <6>3. Fine(R)
            BY <1>6, <6>1, <6>2
          <6> HIDE DEF c, R, Y
          <6>4. Total(w, R \cup {y}) = Total(w, R) + w[y] /\ Total(w, V) = Total(w, R) + w[c]
                /\ Total(w, R) \in Nat /\ w[c] \in Nat /\ w[y] \in Nat
            BY <6>1, <6>3
          <6>5. Total(w, Y) = w[c] + (Total(w, R) + w[y])
            BY <5>1, <6>1, <6>4
          <6> QED
            BY <6>4, <6>5 DEF Y
        <5> QED
          BY <5>2, <5>3
      <4> QED
        BY <4>3, <4>4
    <3> QED
      BY <3>1, <3>2
  <2> QED
    BY <2>1
<1> HIDE DEF T, Fine
<1>7. \A k \in Nat : k \in T
    BY <1>5, <1>6, SetInduction
<1>8. ASSUME NEW V \in SUBSET U PROVE Fine(V)
  <2>1. Cardinality(V) \in Nat
    BY OneFewer
  <2>2. Cardinality(V) \in T
    BY <1>7, <2>1
  <2> QED
    BY <2>1, <2>2 DEF T
<1>9. Total(w, {}) = 0
    BY <1>3
<1> QED
    BY <1>8, <1>9 DEF Fine

\* The sums of two sets with nothing in common add up.
LEMMA TotalUnion ==
    ASSUME NEW S, NEW R, IsFiniteSet(S), IsFiniteSet(R), S \cap R = {},
           NEW w, \A x \in S \cup R : w[x] \in Nat
    PROVE  /\ Total(w, S \cup R) = Total(w, S) + Total(w, R)
           /\ Total(w, S) \in Nat /\ Total(w, R) \in Nat
<1> DEFINE U == S \cup R
           T == {k \in Nat : \A V \in SUBSET R : Cardinality(V) <= k =>
                                Total(w, S \cup V) = Total(w, S) + Total(w, V)}
<1>1. IsFiniteSet(U)
    BY FS_Union
<1>2. /\ Total(w, {}) = 0
      /\ \A V \in SUBSET U : Total(w, V) \in Nat
      /\ \A V \in SUBSET U : \A x \in U \ V : Total(w, V \cup {x}) = Total(w, V) + w[x]
    BY <1>1, TotalAdds
<1>3. Total(w, S) \in Nat /\ Total(w, R) \in Nat
    BY <1>2
<1>4. 0 \in T
  <2>1. ASSUME NEW V \in SUBSET R, Cardinality(V) <= 0, V # {} PROVE FALSE
    <3>1. Cardinality(V \ {AnyOf(V)}) + 1 = Cardinality(V) /\ Cardinality(V \ {AnyOf(V)}) \in Nat
      BY <2>1, OneFewer
    <3> QED
      BY <2>1, <3>1
  <2>2. S \cup {} = S /\ Total(w, S) + 0 = Total(w, S)
    BY <1>3
  <2> QED
    BY <1>2, <2>1, <2>2
<1>5. ASSUME NEW k \in Nat, k \in T PROVE k + 1 \in T
  <2>1. ASSUME NEW V \in SUBSET R, Cardinality(V) <= k + 1, V # {}
        PROVE  Total(w, S \cup V) = Total(w, S) + Total(w, V)
    <3> DEFINE z == AnyOf(V)
               W == V \ {z}
    <3>1. z \in V /\ W \in SUBSET R /\ Cardinality(W) <= k /\ V = W \cup {z}
      BY <2>1, OneFewer
    <3> HIDE DEF z, W
    <3>2. Total(w, S \cup W) = Total(w, S) + Total(w, W)
      BY <1>5, <3>1
    <3> DEFINE SW == S \cup W
    <3>3. SW \in SUBSET U /\ W \in SUBSET U /\ z \in U \ SW /\ z \in U \ W /\ SW \cup {z} = S \cup V
      <4>1. z \notin W
        BY DEF W
      <4> QED
        BY <3>1, <4>1
    <3> HIDE DEF SW, U
    <3>4. Total(w, SW \cup {z}) = Total(w, SW) + w[z] /\ Total(w, W \cup {z}) = Total(w, W) + w[z]
          /\ Total(w, W) \in Nat
      BY <1>2, <3>3
    <3>5. w[z] \in Nat
      BY <3>3 DEF U
    <3>6. Total(w, S \cup V) = (Total(w, S) + Total(w, W)) + w[z] /\ Total(w, V) = Total(w, W) + w[z]
      BY <3>1, <3>2, <3>3, <3>4 DEF SW
    <3> QED
      BY <1>3, <3>4, <3>5, <3>6
  <2>2. S \cup {} = S /\ Total(w, S) + Total(w, {}) = Total(w, S)
    BY <1>2, <1>3
  <2> QED
    BY <2>1, <2>2
<1> HIDE DEF T
<1>6. \A k \in Nat : k \in T
    BY <1>4, <1>5, SetInduction
<1>7. R \in SUBSET R /\ Cardinality(R) \in Nat
    BY FS_CardinalityType
<1>8. Cardinality(R) \in T
    BY <1>6, <1>7
<1> QED
    BY <1>3, <1>7, <1>8 DEF T

\* What holds of the empty set and of every set with an element more holds of
\* a finite set.
LEMMA FiniteInduction ==
    ASSUME NEW U, IsFiniteSet(U), NEW C, {} \in C,
           \A S \in SUBSET U : \A x \in U \ S : S \in C => S \cup {x} \in C
    PROVE  U \in C
<1> DEFINE T == {k \in Nat : \A V \in SUBSET U : Cardinality(V) <= k => V \in C}
<1>1. \A V \in SUBSET U : V # {} => /\ AnyOf(V) \in V /\ V \ {AnyOf(V)} \in SUBSET U
                                   /\ Cardinality(V \ {AnyOf(V)}) \in Nat
                                   /\ Cardinality(V \ {AnyOf(V)}) + 1 = Cardinality(V)
    BY OneFewer
<1>2. 0 \in T
  <2>1. ASSUME NEW V \in SUBSET U, Cardinality(V) <= 0, V # {} PROVE FALSE
    <3>1. Cardinality(V \ {AnyOf(V)}) + 1 = Cardinality(V) /\ Cardinality(V \ {AnyOf(V)}) \in Nat
      BY <1>1, <2>1
    <3> QED
      BY <2>1, <3>1
  <2> QED
    BY <2>1
<1>3. ASSUME NEW k \in Nat, k \in T PROVE k + 1 \in T
  <2>1. ASSUME NEW V \in SUBSET U, Cardinality(V) <= k + 1, V # {} PROVE V \in C
    <3> DEFINE z == AnyOf(V)
               W == V \ {z}
    <3>1. z \in V /\ W \in SUBSET U /\ Cardinality(W) <= k /\ z \in U \ W /\ V = W \cup {z}
      BY <1>1, <2>1
    <3>2. W \in C
      BY <1>3, <3>1
    <3> HIDE DEF z, W
    <3> QED
      BY <3>1, <3>2
  <2>2. ASSUME NEW V \in SUBSET U, Cardinality(V) <= k + 1 PROVE V \in C
    BY <2>1, <2>2
  <2> QED
    BY <2>2
<1> HIDE DEF T
<1>4. \A k \in Nat : k \in T
    BY <1>2, <1>3, SetInduction
<1>5. Cardinality(U) \in T
    BY <1>4, FS_CardinalityType
<1> QED
    BY <1>5, FS_CardinalityType DEF T

\* Only the weights of the elements matter.
LEMMA TotalSame ==
    ASSUME NEW S, IsFiniteSet(S), NEW w, NEW v, \A x \in S : v[x] = w[x]
    PROVE  Total(w, S) = Total(v, S)
<1> DEFINE g == CHOOSE h : Totals(h, w, S)
<1>1. Totals(g, w, S)
    BY TotalsExist
<1> HIDE DEF g
<1>2. g[S] = Total(v, S)
    BY <1>1, TotalIs
<1> QED
    BY <1>2 DEF g, Total

\* Weights that are zero add up to zero.
LEMMA TotalZero ==
    ASSUME NEW S, IsFiniteSet(S), NEW w, \A x \in S : w[x] = 0
    PROVE  Total(w, S) = 0
<1> DEFINE C == {V \in SUBSET S : Total(w, V) = 0}
<1>1. /\ Total(w, {}) = 0
      /\ \A V \in SUBSET S : \A x \in S \ V : Total(w, V \cup {x}) = Total(w, V) + w[x]
    BY TotalAdds
<1>2. {} \in C
    BY <1>1
<1>3. ASSUME NEW V \in SUBSET S, NEW x \in S \ V, V \in C PROVE V \cup {x} \in C
    BY <1>1, <1>3
<1> HIDE DEF C
<1>4. S \in C
    BY <1>2, <1>3, FiniteInduction
<1> QED
    BY <1>4 DEF C

\* The total of one element is its weight.
LEMMA TotalOfOne ==
    ASSUME NEW x, NEW w, w[x] \in Nat
    PROVE  Total(w, {x}) = w[x]
<1> DEFINE U == {x}
<1>1. IsFiniteSet(U)
    BY FS_Singleton
<1>2. /\ Total(w, {}) = 0
      /\ \A V \in SUBSET U : \A y \in U \ V : Total(w, V \cup {y}) = Total(w, V) + w[y]
    BY <1>1, TotalAdds
<1>3. {} \in SUBSET U /\ x \in U \ {} /\ {} \cup {x} = U
    OBVIOUS
<1> HIDE DEF U
<1>4. Total(w, U) = Total(w, {}) + w[x]
    BY <1>2, <1>3
<1> QED
    BY <1>2, <1>4 DEF U

\* A part of a set, with smaller weights, has no larger total.
LEMMA TotalGrows ==
    ASSUME NEW S, IsFiniteSet(S), NEW R \in SUBSET S, NEW w, NEW v,
           \A x \in S : w[x] \in Nat, \A x \in R : v[x] \in Nat /\ v[x] <= w[x]
    PROVE  Total(v, R) <= Total(w, S) /\ Total(v, R) \in Nat /\ Total(w, S) \in Nat
<1> DEFINE C == {V \in SUBSET R : Total(v, V) <= Total(w, V)}
<1>1. IsFiniteSet(R) /\ IsFiniteSet(S \ R) /\ \A x \in R : w[x] \in Nat
    BY FS_Subset
<1>2. /\ Total(w, {}) = 0 /\ Total(v, {}) = 0
      /\ \A V \in SUBSET R : Total(w, V) \in Nat /\ Total(v, V) \in Nat
      /\ \A V \in SUBSET R : \A x \in R \ V :
            Total(w, V \cup {x}) = Total(w, V) + w[x] /\ Total(v, V \cup {x}) = Total(v, V) + v[x]
    BY <1>1, TotalAdds
<1>3. {} \in C
    BY <1>2
<1>4. ASSUME NEW V \in SUBSET R, NEW x \in R \ V, V \in C PROVE V \cup {x} \in C
  <2>1. Total(v, V) + v[x] <= Total(w, V) + w[x]
    BY <1>1, <1>2, <1>4
  <2> QED
    BY <1>2, <2>1
<1> HIDE DEF C
<1>5. R \in C
    BY <1>1, <1>3, <1>4, FiniteInduction
<1>6. R \cap (S \ R) = {} /\ R \cup (S \ R) = S
    OBVIOUS
<1>7. Total(w, R \cup (S \ R)) = Total(w, R) + Total(w, S \ R) /\ Total(w, R) \in Nat /\ Total(w, S \ R) \in Nat
    BY <1>1, <1>6, TotalUnion
<1>8. Total(w, S) = Total(w, R) + Total(w, S \ R)
    BY <1>6, <1>7
<1>9. Total(v, R) <= Total(w, R) /\ Total(v, R) \in Nat
    BY <1>2, <1>5 DEF C
<1> QED
    BY <1>7, <1>8, <1>9

\* The total of sums is the sum of the totals.
LEMMA TotalPlus ==
    ASSUME NEW S, IsFiniteSet(S), NEW w, NEW v, NEW u,
           \A x \in S : w[x] \in Nat /\ v[x] \in Nat /\ u[x] = w[x] + v[x]
    PROVE  Total(u, S) = Total(w, S) + Total(v, S)
<1> DEFINE C == {V \in SUBSET S : Total(u, V) = Total(w, V) + Total(v, V)}
<1>1. \A x \in S : w[x] \in Nat /\ v[x] \in Nat /\ u[x] \in Nat /\ u[x] = w[x] + v[x]
    OBVIOUS
<1>2. /\ Total(w, {}) = 0 /\ Total(v, {}) = 0 /\ Total(u, {}) = 0
      /\ \A V \in SUBSET S : Total(w, V) \in Nat /\ Total(v, V) \in Nat /\ Total(u, V) \in Nat
      /\ \A V \in SUBSET S : \A x \in S \ V : /\ Total(w, V \cup {x}) = Total(w, V) + w[x]
                                             /\ Total(v, V \cup {x}) = Total(v, V) + v[x]
                                             /\ Total(u, V \cup {x}) = Total(u, V) + u[x]
    BY <1>1, TotalAdds
<1>3. {} \in C
    BY <1>2
<1>4. ASSUME NEW V \in SUBSET S, NEW x \in S \ V, V \in C PROVE V \cup {x} \in C
  <2>1. Total(u, V) + u[x] = (Total(w, V) + w[x]) + (Total(v, V) + v[x])
    BY <1>1, <1>2, <1>4
  <2> QED
    BY <1>2, <2>1
<1> HIDE DEF C
<1>5. S \in C
    BY <1>3, <1>4, FiniteInduction
<1> QED
    BY <1>5 DEF C

\* The total of a part of a set is that of the weights cut off outside it.
LEMMA TotalPart ==
    ASSUME NEW S, IsFiniteSet(S), NEW R \in SUBSET S, NEW w, NEW v,
           \A x \in R : w[x] \in Nat /\ v[x] = w[x], \A x \in S \ R : v[x] = 0
    PROVE  Total(v, S) = Total(w, R)
<1>1. IsFiniteSet(R) /\ IsFiniteSet(S \ R) /\ R \cap (S \ R) = {} /\ R \cup (S \ R) = S
    BY FS_Subset
<1>2. \A x \in R \cup (S \ R) : v[x] \in Nat
    OBVIOUS
<1>3. Total(v, R \cup (S \ R)) = Total(v, R) + Total(v, S \ R) /\ Total(v, R) \in Nat
    BY <1>1, <1>2, TotalUnion
<1>4. Total(v, S \ R) = 0
    BY <1>1, TotalZero
<1>5. Total(v, R) = Total(w, R)
    BY <1>1, TotalSame
<1> QED
    BY <1>1, <1>3, <1>4, <1>5

\* A table adds up to the same by rows and by columns.
LEMMA TotalSwap ==
    ASSUME NEW X, IsFiniteSet(X), NEW Y, IsFiniteSet(Y), NEW m,
           \A x \in X : \A y \in Y : m[x][y] \in Nat
    PROVE  Total([x \in X |-> Total(m[x], Y)], X) = Total([y \in Y |-> Total([x \in X |-> m[x][y]], X)], Y)
<1> DEFINE row == [x \in X |-> Total(m[x], Y)]
           col(V) == [y \in Y |-> Total([x \in X |-> m[x][y]], V)]
           C == {V \in SUBSET X : Total(row, V) = Total(col(V), Y)}
<1>1. \A x \in X : row[x] \in Nat
    BY TotalAdds
<1>2. /\ Total(row, {}) = 0
      /\ \A V \in SUBSET X : \A x \in X \ V : Total(row, V \cup {x}) = Total(row, V) + row[x]
  <2> HIDE DEF row
  <2> QED
    BY <1>1, TotalAdds
<1>3. ASSUME NEW y \in Y
      PROVE  /\ Total([x \in X |-> m[x][y]], {}) = 0
             /\ \A V \in SUBSET X : Total([x \in X |-> m[x][y]], V) \in Nat
             /\ \A V \in SUBSET X : \A x \in X \ V :
                   Total([z \in X |-> m[z][y]], V \cup {x}) = Total([z \in X |-> m[z][y]], V) + m[x][y]
  <2> DEFINE w == [x \in X |-> m[x][y]]
  <2>1. \A x \in X : w[x] \in Nat /\ w[x] = m[x][y]
    OBVIOUS
  <2> HIDE DEF w
  <2>2. /\ Total(w, {}) = 0 /\ \A V \in SUBSET X : Total(w, V) \in Nat
        /\ \A V \in SUBSET X : \A x \in X \ V : Total(w, V \cup {x}) = Total(w, V) + w[x]
    BY <2>1, TotalAdds
  <2> QED
    BY <2>1, <2>2 DEF w
<1>4. {} \in C
  <2> DEFINE c == col({})
  <2>1. \A y \in Y : c[y] = 0
    BY <1>3
  <2> HIDE DEF c
  <2>2. Total(c, Y) = 0
    BY <2>1, TotalZero
  <2> QED
    BY <1>2, <2>2 DEF c
<1>5. ASSUME NEW V \in SUBSET X, NEW x \in X \ V, V \in C PROVE V \cup {x} \in C
  <2> DEFINE c == col(V)
             d == col(V \cup {x})
             w == m[x]
  <2>1. \A y \in Y : c[y] \in Nat /\ w[y] \in Nat /\ d[y] = c[y] + w[y]
    BY <1>3
  <2>2. Total(row, V) = Total(c, Y) /\ row[x] = Total(w, Y)
    BY <1>5
  <2> HIDE DEF c, d, w
  <2>3. Total(d, Y) = Total(c, Y) + Total(w, Y)
    BY <2>1, TotalPlus
  <2>4. Total(row, V \cup {x}) = Total(d, Y)
    BY <1>2, <2>2, <2>3
  <2> QED
    BY <2>4 DEF d
<1> HIDE DEF C
<1>6. X \in C
    BY <1>4, <1>5, FiniteInduction
<1> QED
    BY <1>6 DEF C

Column(m, X, y) == [x \in X |-> m[x][y]]

\* Functions r and c hold the totals of the rows and of the columns of m.
IsTable(m, X, Y, r, c) ==
    /\ \A x \in X : \A y \in Y : m[x][y] \in Nat
    /\ \A x \in X : r[x] = Total(m[x], Y)
    /\ \A y \in Y : c[y] = Total(Column(m, X, y), X)

\* They add up to the same.
LEMMA TotalTable ==
    ASSUME NEW X, IsFiniteSet(X), NEW Y, IsFiniteSet(Y), NEW m, NEW r, NEW c, IsTable(m, X, Y, r, c)
    PROVE  Total(r, X) = Total(c, Y)
<1> DEFINE row == [x \in X |-> Total(m[x], Y)]
           col == [y \in Y |-> Total([x \in X |-> m[x][y]], X)]
<1>0. \A x \in X : \A y \in Y : m[x][y] \in Nat
    BY DEF IsTable
<1>1. Total(row, X) = Total(col, Y)
    BY ONLY <1>0, IsFiniteSet(X), IsFiniteSet(Y), TotalSwap
<1>2. (\A x \in X : row[x] = r[x]) /\ (\A y \in Y : col[y] = c[y])
    BY DEF IsTable, Column
<1> HIDE DEF row, col
<1>3. Total(row, X) = Total(r, X) /\ Total(col, Y) = Total(c, Y)
    BY <1>2, TotalSame
<1> QED
    BY <1>1, <1>3

\* The function fib holds the total of every fiber of h.
Fiber(h, S, k) == {x \in S : h[x] = k}
AreFibers(fib, h, w, S, K) == h \in [S -> K] /\ \A k \in K : fib[k] = Total(w, Fiber(h, S, k))

\* A set adds up to the totals of its fibers.
LEMMA TotalFibers ==
    ASSUME NEW S, IsFiniteSet(S), NEW K, IsFiniteSet(K), NEW w, \A x \in S : w[x] \in Nat,
           NEW h, NEW fib, AreFibers(fib, h, w, S, K)
    PROVE  Total(w, S) = Total(fib, K)
<1> DEFINE m == [x \in S |-> [k \in K |-> IF h[x] = k THEN w[x] ELSE 0]]
           row == [x \in S |-> Total(m[x], K)]
           col == [k \in K |-> Total([x \in S |-> m[x][k]], S)]
<1>0. h \in [S -> K] /\ \A k \in K : fib[k] = Total(w, Fiber(h, S, k))
    BY DEF AreFibers
<1>1. \A x \in S : \A k \in K : m[x][k] \in Nat
    OBVIOUS
<1>2. Total(row, S) = Total(col, K)
  <2> HIDE DEF m
  <2> QED
    BY ONLY <1>1, IsFiniteSet(S), IsFiniteSet(K), TotalSwap
<1>3. \A x \in S : row[x] = w[x]
  <2> SUFFICES ASSUME NEW x \in S PROVE Total(m[x], K) = w[x]
    OBVIOUS
  <2> DEFINE v == m[x]
             R == {h[x]}
             u == [k \in K |-> w[x]]
  <2>1. R \in SUBSET K /\ (\A k \in R : u[k] \in Nat /\ v[k] = u[k]) /\ (\A k \in K \ R : v[k] = 0)
    BY <1>0
  <2>2. u[h[x]] = w[x] /\ w[x] \in Nat
    BY <1>0
  <2> HIDE DEF v, u
  <2>3. Total(u, R) = w[x]
    BY <2>2, TotalOfOne
  <2> HIDE DEF R
  <2>4. Total(v, K) = Total(u, R)
    BY <2>1, TotalPart
  <2> QED
    BY <2>3, <2>4 DEF v
<1>4. \A k \in K : col[k] = fib[k]
  <2> SUFFICES ASSUME NEW k \in K
               PROVE  Total([x \in S |-> m[x][k]], S) = Total(w, Fiber(h, S, k))
    BY <1>0
  <2> DEFINE v == [x \in S |-> m[x][k]]
             R == Fiber(h, S, k)
  <2>1. R \in SUBSET S /\ (\A x \in R : w[x] \in Nat /\ v[x] = w[x]) /\ (\A x \in S \ R : v[x] = 0)
    BY DEF Fiber
  <2> HIDE DEF v, R
  <2>2. Total(v, S) = Total(w, R)
    BY <2>1, TotalPart
  <2> QED
    BY <2>2 DEF v, R
<1> HIDE DEF row, col
<1>5. Total(row, S) = Total(w, S)
    BY <1>3, TotalSame
<1>6. Total(col, K) = Total(fib, K)
    BY <1>4, TotalSame
<1> QED
    BY <1>2, <1>5, <1>6

\* Among finitely many elements one has the greatest weight.
LEMMA GreatestWeight ==
    ASSUME NEW S, IsFiniteSet(S), S # {}, NEW w, \A x \in S : w[x] \in Nat
    PROVE  \E x \in S : \A y \in S : w[x] >= w[y]
<1> DEFINE C == {V \in SUBSET S : V # {} => \E x \in V : \A y \in V : w[x] >= w[y]}
<1>1. {} \in C
    OBVIOUS
<1>2. ASSUME NEW V \in SUBSET S, NEW z \in S \ V, V \in C PROVE V \cup {z} \in C
  <2> SUFFICES \E x \in V \cup {z} : \A y \in V \cup {z} : w[x] >= w[y]
    OBVIOUS
  <2>1. CASE V = {}
    BY <2>1
  <2>2. CASE V # {}
    <3>1. PICK x \in V : \A y \in V : w[x] >= w[y]
      BY <1>2, <2>2
    <3>2. CASE w[x] >= w[z]
      BY <3>1, <3>2
    <3>3. CASE ~(w[x] >= w[z])
      <4>1. w[z] \in Nat /\ w[x] \in Nat /\ \A y \in V : w[y] \in Nat
        OBVIOUS
      <4>2. \A y \in V \cup {z} : w[z] >= w[y]
        BY <3>1, <3>3, <4>1
      <4> QED
        BY <4>2
    <3> QED
      BY <3>2, <3>3
  <2> QED
    BY <2>1, <2>2
<1> HIDE DEF C
<1>3. S \in C
    BY <1>1, <1>2, FiniteInduction
<1> QED
    BY <1>3 DEF C

-----------------------------------------------------------------------------
(* Shares of a whole.                                                      *)

\* Weights that are all one count the elements.
LEMMA TotalCounts ==
    ASSUME NEW S, IsFiniteSet(S), NEW w, \A x \in S : w[x] = 1
    PROVE  Total(w, S) = Cardinality(S)
<1> DEFINE C == {V \in SUBSET S : Total(w, V) = Cardinality(V)}
<1>1. /\ Total(w, {}) = 0 /\ \A V \in SUBSET S : Total(w, V) \in Nat
      /\ \A V \in SUBSET S : \A x \in S \ V : Total(w, V \cup {x}) = Total(w, V) + w[x]
    BY TotalAdds
<1>2. {} \in C
    BY <1>1, FS_EmptySet
<1>3. ASSUME NEW V \in SUBSET S, NEW x \in S \ V, V \in C PROVE V \cup {x} \in C
  <2>1. Cardinality(V \cup {x}) = Cardinality(V) + 1
    BY FS_Subset, FS_AddElement
  <2> QED
    BY <1>1, <1>3, <2>1
<1> HIDE DEF C
<1>4. S \in C
    BY <1>2, <1>3, FiniteInduction
<1> QED
    BY <1>4 DEF C

\* Multiples of the weights have that multiple of the total.
LEMMA TotalScales ==
    ASSUME NEW S, IsFiniteSet(S), NEW c \in Nat, NEW w, NEW v,
           \A x \in S : w[x] \in Nat /\ v[x] = w[x] * c
    PROVE  Total(v, S) = Total(w, S) * c
<1> DEFINE C == {V \in SUBSET S : Total(v, V) = Total(w, V) * c}
<1>1. \A x \in S : w[x] \in Nat /\ v[x] \in Nat /\ v[x] = w[x] * c
  <2> SUFFICES ASSUME NEW x \in S PROVE w[x] \in Nat /\ w[x] * c \in Nat
    OBVIOUS
  <2>1. \A a, b \in Nat : a * b \in Nat
    OBVIOUS
  <2> QED
    BY <2>1
<1>2. /\ Total(w, {}) = 0 /\ Total(v, {}) = 0
      /\ \A V \in SUBSET S : Total(w, V) \in Nat /\ Total(v, V) \in Nat
      /\ \A V \in SUBSET S : \A x \in S \ V : /\ Total(w, V \cup {x}) = Total(w, V) + w[x]
                                             /\ Total(v, V \cup {x}) = Total(v, V) + v[x]
  <2>1. \A x \in S : w[x] \in Nat
    BY <1>1
  <2>2. \A x \in S : v[x] \in Nat
    BY <1>1
  <2> HIDE DEF C
  <2>3. \A z : (\A x \in S : z[x] \in Nat) =>
            /\ Total(z, {}) = 0
            /\ \A V \in SUBSET S : Total(z, V) \in Nat
            /\ \A V \in SUBSET S : \A x \in S \ V : Total(z, V \cup {x}) = Total(z, V) + z[x]
    BY ONLY IsFiniteSet(S), TotalAdds
  <2> QED
    BY ONLY <2>1, <2>2, <2>3
<1>3. {} \in C
    BY <1>2
<1>4. ASSUME NEW V \in SUBSET S, NEW x \in S \ V, V \in C PROVE V \cup {x} \in C
  <2>1. \A a, b \in Nat : (a + b) * c = a * c + b * c
    OBVIOUS
  <2>2. (Total(w, V) + w[x]) * c = Total(w, V) * c + w[x] * c
    BY <1>1, <1>2, <2>1
  <2>3. Total(v, V) = Total(w, V) * c
    BY <1>4
  <2>4. Total(v, V \cup {x}) = Total(v, V) + v[x] /\ Total(w, V \cup {x}) = Total(w, V) + w[x]
    BY <1>2
  <2>5. v[x] = w[x] * c
    BY <1>1
  <2> QED
    BY <2>2, <2>3, <2>4, <2>5
<1> HIDE DEF C
<1>5. S \in C
    BY <1>3, <1>4, FiniteInduction
<1> QED
    BY <1>5 DEF C

\* The function w lays out the table m, whose rows have the totals r.
LaysOut(w, m, r, X, Y) ==
    /\ \A x \in X : r[x] = Total(m[x], Y)
    /\ \A x \in X : \A y \in Y : m[x][y] \in Nat /\ w[<<x, y>>] = m[x][y]

\* A table laid out as one function has the total of its rows.
LEMMA TotalProduct ==
    ASSUME NEW X, IsFiniteSet(X), NEW Y, IsFiniteSet(Y), NEW m, NEW r, NEW w,
           LaysOut(w, m, r, X, Y)
    PROVE  Total(w, X \X Y) = Total(r, X) /\ IsFiniteSet(X \X Y)
<1>0. /\ \A x \in X : r[x] = Total(m[x], Y)
      /\ \A x \in X : \A y \in Y : m[x][y] \in Nat /\ w[<<x, y>>] = m[x][y]
    BY DEF LaysOut
<1>1. \A x \in X : \A y \in Y : w[<<x, y>>] \in Nat
    BY <1>0
<1>2. ASSUME NEW x \in X PROVE IsFiniteSet({x} \X Y) /\ Total(w, {x} \X Y) = r[x]
  <2> DEFINE R(V) == {x} \X V
             C == {V \in SUBSET Y : IsFiniteSet(R(V)) /\ Total(w, R(V)) = Total(m[x], V)}
  <2>1. /\ Total(m[x], {}) = 0 /\ \A V \in SUBSET Y : Total(m[x], V) \in Nat
        /\ \A V \in SUBSET Y : \A y \in Y \ V : Total(m[x], V \cup {y}) = Total(m[x], V) + m[x][y]
    <3> DEFINE u == m[x]
    <3>1. \A y \in Y : u[y] \in Nat
      BY <1>0
    <3> HIDE DEF u
    <3>2. /\ Total(u, {}) = 0 /\ \A V \in SUBSET Y : Total(u, V) \in Nat
          /\ \A V \in SUBSET Y : \A y \in Y \ V : Total(u, V \cup {y}) = Total(u, V) + u[y]
      BY <3>1, TotalAdds
    <3> QED
      BY <3>2 DEF u
  <2>2. {} \in C
    <3>1. R({}) = {}
      OBVIOUS
    <3>2. Total(w, {}) = 0
      BY FS_EmptySet, TotalAdds
    <3> QED
      BY <2>1, <3>1, <3>2, FS_EmptySet
  <2>3. ASSUME NEW V \in SUBSET Y, NEW y \in Y \ V, V \in C PROVE V \cup {y} \in C
    <3> DEFINE e == <<x, y>>
               S == R(V)
    <3>1. R(V \cup {y}) = S \cup {e} /\ e \notin S
      OBVIOUS
    <3>2. IsFiniteSet(S) /\ Total(w, S) = Total(m[x], V)
      BY <2>3
    <3>3. \A z \in S \cup {e} : w[z] \in Nat
      BY <1>1
    <3>4. w[e] = m[x][y]
      BY <1>0
    <3> HIDE DEF S, e, R
    <3>5. IsFiniteSet(S \cup {e})
      BY <3>2, FS_AddElement
    <3>6. Total(w, S \cup {e}) = Total(w, S) + w[e]
      BY <3>1, <3>3, <3>5, TotalAdds
    <3> QED
      BY <2>1, <3>1, <3>2, <3>4, <3>5, <3>6
  <2> HIDE DEF C
  <2>4. Y \in C
    BY <2>2, <2>3, FiniteInduction
  <2> QED
    BY <1>0, <2>4 DEF C
<1> DEFINE R(V) == V \X Y
           C == {V \in SUBSET X : IsFiniteSet(R(V)) /\ Total(w, R(V)) = Total(r, V)}
<1>3. ASSUME NEW x \in X PROVE r[x] \in Nat
  <2> DEFINE u == m[x]
  <2>1. r[x] = Total(u, Y) /\ \A y \in Y : u[y] \in Nat
    BY <1>0
  <2> HIDE DEF u
  <2>2. Total(u, Y) \in Nat
    BY <2>1, TotalAdds
  <2> QED
    BY <2>1, <2>2
<1>4. /\ Total(r, {}) = 0
      /\ \A V \in SUBSET X : \A x \in X \ V : Total(r, V \cup {x}) = Total(r, V) + r[x]
    BY <1>3, TotalAdds
<1>5. {} \in C
  <2>1. R({}) = {}
    OBVIOUS
  <2>2. Total(w, {}) = 0
    BY FS_EmptySet, TotalAdds
  <2> QED
    BY <1>4, <2>1, <2>2, FS_EmptySet
<1>6. ASSUME NEW V \in SUBSET X, NEW x \in X \ V, V \in C PROVE V \cup {x} \in C
  <2> DEFINE S == R(V)
             T == {x} \X Y
  <2>1. R(V \cup {x}) = S \cup T /\ S \cap T = {}
    OBVIOUS
  <2>2. IsFiniteSet(S) /\ Total(w, S) = Total(r, V) /\ IsFiniteSet(T) /\ Total(w, T) = r[x]
    BY <1>2, <1>6
  <2>3. \A z \in S \cup T : w[z] \in Nat
    BY <1>1
  <2> HIDE DEF S, T, R
  <2>4. IsFiniteSet(S \cup T) /\ Total(w, S \cup T) = Total(w, S) + Total(w, T)
    BY <2>1, <2>2, <2>3, FS_Union, TotalUnion
  <2> QED
    BY <1>4, <2>1, <2>2, <2>4
<1> HIDE DEF C
<1>7. X \in C
    BY <1>5, <1>6, FiniteInduction
<1> QED
    BY <1>7 DEF C

\* B is a strict total order on D.
Orders(B, D) ==
    /\ \A i \in D : <<i, i>> \notin B
    /\ \A i, j \in D : i # j => <<i, j>> \in B \/ <<j, i>> \in B
    /\ \A i, j, k \in D : <<i, j>> \in B /\ <<j, k>> \in B => <<i, k>> \in B

Below(B, D, i) == {j \in D : <<j, i>> \in B}

\* As many elements as there are have a rank below k.
LEMMA RankCounts ==
    ASSUME NEW D, IsFiniteSet(D), NEW B, Orders(B, D), NEW rank,
           \A i \in D : rank[i] = Cardinality(Below(B, D, i)), NEW k \in 0 .. Cardinality(D)
    PROVE  Cardinality({i \in D : rank[i] < k}) = k
<1> DEFINE n == Cardinality(D)
           L == {i \in D : rank[i] < k}
           H == {i \in D : rank[i] >= k}
<1>1. n \in Nat /\ k \in Nat /\ k <= n
    BY FS_CardinalityType
<1>2. \A i \in D : IsFiniteSet(Below(B, D, i)) /\ rank[i] \in Nat
  <2> SUFFICES ASSUME NEW i \in D PROVE IsFiniteSet(Below(B, D, i)) /\ rank[i] \in Nat
    OBVIOUS
  <2>1. Below(B, D, i) \in SUBSET D
    BY DEF Below
  <2> QED
    BY <2>1, FS_Subset, FS_CardinalityType
<1>3. \A i \in D : rank[i] < n
  <2> SUFFICES ASSUME NEW i \in D PROVE rank[i] < n
    OBVIOUS
  <2> DEFINE S == Below(B, D, i)
  <2>1. S \in SUBSET D /\ i \notin S /\ rank[i] = Cardinality(S)
    BY DEF Below, Orders
  <2> HIDE DEF S
  <2>2. Cardinality(S) <= n /\ (Cardinality(S) = n => S = D)
    BY <2>1, FS_Subset
  <2> QED
    BY <1>1, <1>2, <2>1, <2>2
<1>4. ASSUME NEW i \in D, NEW j \in D, i # j PROVE rank[i] # rank[j]
  <2>1. ASSUME NEW x \in D, NEW y \in D, <<x, y>> \in B PROVE rank[x] < rank[y]
    <3> DEFINE S == Below(B, D, x)
               T == Below(B, D, y)
    <3>1. S \in SUBSET T /\ x \in T /\ x \notin S
      BY <2>1 DEF Below, Orders
    <3>2. IsFiniteSet(T) /\ rank[x] = Cardinality(S) /\ rank[y] = Cardinality(T)
      BY <1>2
    <3> HIDE DEF S, T
    <3>3. Cardinality(S) <= Cardinality(T) /\ Cardinality(S) # Cardinality(T)
      BY <3>1, <3>2, FS_Subset
    <3> QED
      BY <1>2, <3>2, <3>3
  <2>2. <<i, j>> \in B \/ <<j, i>> \in B
    BY <1>4 DEF Orders
  <2>3. rank[i] < rank[j] \/ rank[j] < rank[i]
    BY <2>1, <2>2
  <2> QED
    BY <1>2, <2>3
<1>5. IsFiniteSet(L) /\ IsFiniteSet(H) /\ L \cap H = {} /\ L \cup H = D
  <2>1. L \cup H = D
    BY <1>1, <1>2
  <2>2. L \cap H = {}
    BY <1>1, <1>2
  <2> QED
    BY <2>1, <2>2, FS_Subset
<1>6. Cardinality(L) + Cardinality(H) = n /\ Cardinality(L) \in Nat /\ Cardinality(H) \in Nat
  <2> HIDE DEF L, H
  <2>1. Cardinality(L \cup H) = Cardinality(L) + Cardinality(H) - Cardinality(L \cap H)
    BY <1>5, FS_Union
  <2>2. Cardinality(L) \in Nat /\ Cardinality(H) \in Nat /\ Cardinality(L \cap H) = 0
    BY <1>5, FS_EmptySet, FS_CardinalityType
  <2>3. Cardinality(L \cup H) = n
    BY <1>5
  <2> HIDE DEF n
  <2> QED
    BY <1>1, <2>1, <2>2, <2>3
<1>7. ASSUME NEW S \in SUBSET D, NEW a \in Nat, NEW b \in Nat, a <= b, \A i \in S : rank[i] \in a .. b - 1
      PROVE  Cardinality(S) <= b - a
  <2> DEFINE f == [i \in S |-> rank[i]]
             T == a .. b - 1
  <2>1. f \in Injection(S, T)
    BY <1>4, <1>7 DEF Injection, IsInjective
  <2>2. IsFiniteSet(T) /\ Cardinality(T) = b - a
    BY <1>7, FS_Interval
  <2> HIDE DEF f, T
  <2> QED
    BY <2>1, <2>2, FS_Injection
<1>8. Cardinality(L) <= k
  <2>1. L \in SUBSET D /\ \A i \in L : rank[i] \in 0 .. k - 1
    BY <1>1, <1>2
  <2> HIDE DEF L
  <2>2. Cardinality(L) <= k - 0
    BY <1>1, <1>7, <2>1
  <2> QED
    BY <1>1, <1>6, <2>2
<1>9. Cardinality(H) <= n - k
  <2>1. H \in SUBSET D /\ \A i \in H : rank[i] \in k .. n - 1
    BY <1>1, <1>2, <1>3
  <2> HIDE DEF H
  <2> QED
    BY <1>1, <1>7, <2>1
<1> QED
    BY <1>1, <1>6, <1>8, <1>9

\* A number is its quotient and its remainder.
LEMMA Division ==
    ASSUME NEW n \in Nat \ {0}, NEW a \in Nat
    PROVE  a \div n \in Nat /\ a % n \in 0 .. n - 1 /\ a = (a \div n) * n + (a % n)
  OBVIOUS

\* alloc shares the target out over D by the weights w: the whole part of each share,
\* and one more for those of the least rank in B, which goes by the remainder.
Apportions(alloc, D, w, whole, target, base, rem, rank, B) ==
    /\ \A i \in D : base[i] = (w[i] * target) \div whole /\ rem[i] = (w[i] * target) % whole
    /\ Orders(B, D) /\ \A i, j \in D : rem[i] > rem[j] => <<i, j>> \in B
    /\ \A i \in D : rank[i] = Cardinality(Below(B, D, i))
    /\ \A i \in D : alloc[i] = base[i] + IF rank[i] < target - Total(base, D) THEN 1 ELSE 0

\* Largest remainders: each of D gets the whole part of its share of the target, and
\* as many as are missing get one more, those with the largest remainders.  The shares
\* are the target, and no share is more than its weight.
LEMMA LargestRemainders ==
    ASSUME NEW D, IsFiniteSet(D), NEW w, \A i \in D : w[i] \in Nat,
           NEW whole, whole = Total(w, D), whole # 0, NEW target \in 0 .. whole,
           NEW base, NEW rem, NEW rank, NEW alloc, NEW B,
           Apportions(alloc, D, w, whole, target, base, rem, rank, B)
    PROVE  Total(alloc, D) = target /\ \A i \in D : alloc[i] \in Nat /\ alloc[i] <= w[i]
<1> DEFINE extra == target - Total(base, D)
           goal == [i \in D |-> w[i] * target]
           scaled == [i \in D |-> base[i] * whole]
           plus == [i \in D |-> IF rank[i] < extra THEN 1 ELSE 0]
           P == {i \in D : rem[i] > 0}
           L == {i \in D : rank[i] < extra}
<1>0. /\ \A i \in D : base[i] = (w[i] * target) \div whole /\ rem[i] = (w[i] * target) % whole
      /\ Orders(B, D) /\ \A i, j \in D : rem[i] > rem[j] => <<i, j>> \in B
      /\ \A i \in D : rank[i] = Cardinality(Below(B, D, i))
      /\ \A i \in D : alloc[i] = base[i] + IF rank[i] < target - Total(base, D) THEN 1 ELSE 0
    BY DEF Apportions
<1>1. whole \in Nat \ {0} /\ target \in Nat /\ target <= whole
  <2>1. Total(w, D) \in Nat
    <3>1. \A i \in D : w[i] \in Nat
      OBVIOUS
    <3> QED
      BY ONLY IsFiniteSet(D), <3>1, TotalAdds
  <2>2. whole \in Nat
    BY <2>1
  <2> QED
    BY <2>2
<1>2. \A i \in D : /\ w[i] * target \in Nat /\ base[i] \in Nat /\ rem[i] \in 0 .. whole - 1
                   /\ w[i] * target = base[i] * whole + rem[i]
  <2> SUFFICES ASSUME NEW i \in D
               PROVE  /\ w[i] * target \in Nat /\ base[i] \in Nat /\ rem[i] \in 0 .. whole - 1
                      /\ w[i] * target = base[i] * whole + rem[i]
    OBVIOUS
  <2>1. \A a, b \in Nat : a * b \in Nat
    OBVIOUS
  <2>2. w[i] * target \in Nat
    BY <1>1, <2>1
  <2>3. base[i] = (w[i] * target) \div whole /\ rem[i] = (w[i] * target) % whole
    BY <1>0
  <2> QED
    BY ONLY <1>1, <2>2, <2>3, Division
<1>3. \A i \in D : base[i] * whole \in Nat /\ rem[i] \in Nat /\ base[i] \in Nat
  <2>1. \A a, b \in Nat : a * b \in Nat
    OBVIOUS
  <2> QED
    BY ONLY <1>1, <1>2, <2>1
<1>4. Total(goal, D) = whole * target
  <2>1. \A i \in D : w[i] \in Nat /\ goal[i] = w[i] * target
    OBVIOUS
  <2> HIDE DEF goal
  <2>2. Total(goal, D) = Total(w, D) * target
    BY ONLY IsFiniteSet(D), <1>1, <2>1, TotalScales
  <2>3. whole = Total(w, D)
    OBVIOUS
  <2> QED
    BY ONLY <2>2, <2>3
<1>5. Total(scaled, D) = Total(base, D) * whole
  <2>1. \A i \in D : base[i] \in Nat /\ scaled[i] = base[i] * whole
    BY <1>3
  <2> HIDE DEF scaled
  <2> QED
    BY ONLY IsFiniteSet(D), <1>1, <2>1, TotalScales
<1>6. Total(goal, D) = Total(scaled, D) + Total(rem, D)
  <2>1. \A i \in D : scaled[i] \in Nat /\ rem[i] \in Nat /\ goal[i] = scaled[i] + rem[i]
    BY <1>2, <1>3
  <2> HIDE DEF scaled, goal
  <2> QED
    BY ONLY IsFiniteSet(D), <2>1, TotalPlus
<1>7. Total(base, D) \in Nat /\ Total(rem, D) \in Nat
    BY ONLY IsFiniteSet(D), <1>3, TotalAdds
<1>8. Total(rem, D) = extra * whole /\ extra \in Int
  <2>1. \A a, b, c, t \in Nat : c * t = a * c + b => b = (t - a) * c
    OBVIOUS
  <2>2. whole * target = Total(base, D) * whole + Total(rem, D)
    BY ONLY <1>4, <1>5, <1>6
  <2>3. Total(rem, D) = (target - Total(base, D)) * whole
    <3> DEFINE a == Total(base, D)
               b == Total(rem, D)
    <3>1. a \in Nat /\ b \in Nat /\ whole \in Nat /\ whole * target = a * whole + b
      BY ONLY <1>1, <1>7, <2>2
    <3> HIDE DEF a, b
    <3>2. b = (target - a) * whole
      BY ONLY <1>1, <2>1, <3>1
    <3> QED
      BY <3>2 DEF a, b
  <2> QED
    BY <1>1, <1>7, <2>3
<1>9. P \in SUBSET D /\ IsFiniteSet(P) /\ Cardinality(P) \in Nat /\ Cardinality(P) <= Cardinality(D)
  <2>1. P \in SUBSET D
    OBVIOUS
  <2> HIDE DEF P
  <2> QED
    BY <2>1, FS_Subset, FS_CardinalityType
<1>10. Total(rem, D) <= Cardinality(P) * whole
  <2> DEFINE one == [i \in P |-> 1]
             most == [i \in P |-> whole]
  <2>1. \A i \in P : one[i] = 1 /\ most[i] = whole /\ rem[i] \in Nat /\ rem[i] <= most[i]
    BY <1>1, <1>2
  <2>2. \A i \in P : one[i] \in Nat /\ most[i] \in Nat /\ most[i] = one[i] * whole
    BY <1>1
  <2>3. \A i \in D \ P : rem[i] = 0
    BY <1>2
  <2> HIDE DEF one, most, P
  <2>4. Total(one, P) = Cardinality(P)
    BY ONLY <1>9, <2>1, TotalCounts
  <2>5. Total(most, P) = Total(one, P) * whole
    BY ONLY <1>1, <1>9, <2>2, TotalScales
  <2>6. Total(rem, P) <= Total(most, P)
    BY ONLY <1>9, <2>1, <2>2, TotalGrows
  <2>7. Total(rem, D) = Total(rem, P)
    BY ONLY IsFiniteSet(D), <1>9, <2>1, <2>3, TotalPart
  <2> QED
    BY ONLY <2>4, <2>5, <2>6, <2>7
<1>11. extra \in 0 .. Cardinality(P)
  <2> DEFINE c == Cardinality(P)
  <2>1. \A e \in Int : \A n \in Nat : \A h \in Nat \ {0} : e * h >= 0 /\ e * h <= n * h => e \in 0 .. n
    <3> SUFFICES ASSUME NEW e \in Int, NEW n \in Nat, NEW h \in Nat \ {0}, e * h >= 0, e * h <= n * h
                 PROVE  e >= 0 /\ e <= n
      OBVIOUS
    <3>1. e >= 0
      OBVIOUS
    <3>2. e <= n
      <4>1. CASE e > n
        <5>1. (e - n) * h > 0
          BY <4>1
        <5>2. (e - n) * h = e * h - n * h
          OBVIOUS
        <5> QED
          BY <5>1, <5>2
      <4> QED
        BY <4>1
    <3> QED
      BY <3>1, <3>2
  <2>2. extra * whole >= 0 /\ extra * whole <= c * whole
    BY ONLY <1>7, <1>8, <1>10
  <2>3. extra \in Int /\ c \in Nat
    BY <1>8, <1>9
  <2> HIDE DEF extra, c
  <2>4. extra \in 0 .. c
    BY ONLY <1>1, <2>1, <2>2, <2>3
  <2> QED
    BY <2>4 DEF c
<1> HIDE DEF extra
<1>12. L \subseteq P
  <2> SUFFICES ASSUME NEW i \in D, rem[i] = 0 PROVE ~(rank[i] < extra)
    BY <1>2
  <2>1. P \in SUBSET Below(B, D, i)
    BY <1>0, <1>2 DEF Below
  <2>2. Below(B, D, i) \in SUBSET D /\ IsFiniteSet(Below(B, D, i))
    BY FS_Subset DEF Below
  <2>3. Cardinality(P) <= rank[i]
    <3> HIDE DEF P
    <3> QED
      BY <1>0, <2>1, <2>2, FS_Subset
  <2>4. rank[i] \in Nat
    BY <1>0, <2>2, FS_CardinalityType
  <2> QED
    BY <1>9, <1>11, <2>3, <2>4
<1>13. Cardinality(L) = extra
  <2>1. extra \in 0 .. Cardinality(D)
    BY <1>9, <1>11, FS_CardinalityType
  <2> QED
    BY ONLY IsFiniteSet(D), <1>0, <2>1, RankCounts
<1>14. Total(plus, D) = extra
  <2> DEFINE one == [i \in L |-> 1]
  <2>1. \A i \in L : one[i] \in Nat /\ one[i] = 1 /\ plus[i] = one[i]
    OBVIOUS
  <2>2. \A i \in D \ L : plus[i] = 0
    OBVIOUS
  <2>3. L \in SUBSET D /\ IsFiniteSet(L)
    BY FS_Subset
  <2> HIDE DEF one, plus, L
  <2>4. Total(one, L) = Cardinality(L)
    BY ONLY <2>1, <2>3, TotalCounts
  <2>5. Total(plus, D) = Total(one, L)
    BY ONLY IsFiniteSet(D), <2>1, <2>2, <2>3, TotalPart
  <2> QED
    BY <1>13, <2>4, <2>5
<1>15. Total(alloc, D) = target
  <2>1. \A i \in D : base[i] \in Nat /\ plus[i] \in Nat /\ alloc[i] = base[i] + plus[i]
    BY <1>0, <1>3 DEF extra
  <2> HIDE DEF plus
  <2>2. Total(alloc, D) = Total(base, D) + Total(plus, D)
    BY ONLY IsFiniteSet(D), <2>1, TotalPlus
  <2> QED
    BY <1>1, <1>7, <1>14, <2>2 DEF extra
<1>16. ASSUME NEW i \in D PROVE alloc[i] \in Nat /\ alloc[i] <= w[i]
  <2> DEFINE a == w[i]
             b == base[i]
             r == rem[i]
  <2>1. a \in Nat /\ b \in Nat /\ r \in Nat /\ a * target = b * whole + r
    BY <1>2, <1>3
  <2>2. alloc[i] = b \/ (alloc[i] = b + 1 /\ r > 0)
    <3>1. alloc[i] = base[i] + (IF rank[i] < extra THEN 1 ELSE 0)
      BY <1>0 DEF extra
    <3>2. rank[i] < extra => rem[i] > 0
      BY <1>12
    <3> QED
      BY <2>1, <3>1, <3>2
  <2> HIDE DEF a, b, r
  <2>3. a * target <= a * whole
    BY ONLY <1>1, <2>1
  <2>4. b * whole + r <= a * whole
    BY ONLY <2>1, <2>3
  <2>5. b <= a
    <3>1. CASE b > a
      <4>1. (b - a) * whole > 0
        BY ONLY <1>1, <2>1, <3>1
      <4>2. (b - a) * whole = b * whole - a * whole
        BY ONLY <1>1, <2>1
      <4> QED
        BY ONLY <1>1, <2>1, <2>4, <4>1, <4>2
    <3> QED
      BY ONLY <2>1, <3>1
  <2>6. r > 0 => b # a
    BY ONLY <1>1, <2>1, <2>4
  <2>7. alloc[i] \in Nat /\ alloc[i] <= a
    BY <2>1, <2>2, <2>5, <2>6
  <2> QED
    BY <2>7 DEF a
<1> QED
    BY <1>15, <1>16
=============================================================================
