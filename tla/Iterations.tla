----------------------------- MODULE Iterations -----------------------------
(***************************************************************************)
(* Induction over the natural numbers for sets and functions.  The         *)
(* theorems of the library take an operator, which the provers cannot      *)
(* instantiate; these take a set, or the function that a step applies.     *)
(***************************************************************************)
EXTENDS StepFold, Orders, Sequences, FiniteSets, FiniteSetTheorems, TLAPS

\* A set of naturals has a least one.
LEMMA LeastNatural ==
    ASSUME NEW T \in SUBSET Nat, T # {}
    PROVE  \E m \in T : \A n \in T : m <= n
<1> DEFINE F == {0..k : k \in T}
<1>1. F \subseteq FiniteSubsetsOf(Nat)
  <2> SUFFICES ASSUME NEW k \in T PROVE IsFiniteSet(0..k) /\ 0..k \in SUBSET Nat
    BY DEF FiniteSubsetsOf
  <2>1. IsFiniteSet(0..k)
    BY FS_Interval
  <2> QED BY <2>1
<1>2. F # {}
  OBVIOUS
<1>3. PICK X \in F : \A Y \in F : ~ (<<Y, X>> \in StrictSubsetOrdering(Nat))
  <2> HIDE DEF F
  <2> QED BY <1>1, <1>2, FS_StrictSubsetOrderingWellFounded, WFMin
<1>4. PICK m \in T : X = 0..m
  OBVIOUS
<1>5. ASSUME NEW n \in T, n < m PROVE FALSE
  <2>1. <<0..n, 0..m>> \in StrictSubsetOrdering(Nat)
    BY <1>5 DEF StrictSubsetOrdering
  <2> QED BY <2>1, <1>3, <1>4
<1> QED BY <1>4, <1>5

\* A bounded set of naturals has a greatest one.
LEMMA GreatestNatural ==
    ASSUME NEW T \in SUBSET Nat, T # {}, NEW N \in Nat, \A n \in T : n <= N
    PROVE  \E m \in T : \A n \in T : n <= m
<1> DEFINE U == {N - n : n \in T}
<1>1. U \in SUBSET Nat /\ U # {}
  <2>1. \A n \in T : N - n \in Nat
    OBVIOUS
  <2> QED BY <2>1
<1>2. PICK u \in U : \A v \in U : u <= v
  <2> HIDE DEF U
  <2> QED BY <1>1, LeastNatural
<1>3. PICK m \in T : u = N - m
  OBVIOUS
<1>4. ASSUME NEW n \in T PROVE n <= m
  <2>1. u <= N - n
    BY <1>2
  <2>2. n \in Nat /\ m \in Nat
    OBVIOUS
  <2> QED BY <1>3, <2>1, <2>2
<1> QED BY <1>4

\* A set of naturals that has 0 and, with each of its elements below N, the
\* next one, has all of 0..N.
LEMMA UpTo ==
    ASSUME NEW N \in Nat, NEW S, 0 \in S, \A n \in 1..N : n - 1 \in S => n \in S
    PROVE  \A n \in 0..N : n \in S
<1> DEFINE T == {n \in 0..N : n \notin S}
<1> SUFFICES ASSUME T # {} PROVE FALSE
  OBVIOUS
<1>1. PICK m \in T : \A n \in T : m <= n
  <2>1. T \in SUBSET Nat
    OBVIOUS
  <2> HIDE DEF T
  <2> QED BY <2>1, LeastNatural
<1>2. m # 0 /\ m - 1 \notin T
  BY <1>1
<1> QED BY <1>1, <1>2

\* f is given at 0, and at every n from 1 to N by step and its value at n - 1.
IsIteration(f, N, e, step) == f[0] = e /\ \A n \in 1..N : f[n] = step[n][f[n - 1]]

\* A function that is given at 0, and at n by its value at n - 1.
LEMMA Iterated ==
    ASSUME NEW N \in Nat, NEW V, NEW e \in V, NEW step \in [1..N -> [V -> V]]
    PROVE  \E f \in [0..N -> V] : IsIteration(f, N, e, step)
<1> DEFINE Is(f, n) == f[0] = e /\ \A k \in 1..n : f[k] = step[k][f[k - 1]]
           S == {n \in 0..N : \E f \in [0..n -> V] : Is(f, n)}
<1>1. 0 \in S
  <2> DEFINE f == [k \in 0..0 |-> e]
  <2>1. f \in [0..0 -> V]
    OBVIOUS
  <2>2. Is(f, 0)
    OBVIOUS
  <2> HIDE DEF f, Is
  <2> QED BY <2>1, <2>2
<1>2. ASSUME NEW n \in 1..N, n - 1 \in S PROVE n \in S
  <2>1. PICK f \in [0..(n - 1) -> V] : Is(f, n - 1)
    <3> HIDE DEF Is
    <3> QED BY <1>2
  <2>2. n - 1 \in 0..(n - 1) /\ f[n - 1] \in V
    OBVIOUS
  <2> DEFINE last == step[n][f[n - 1]]
             g == [k \in 0..n |-> IF k = n THEN last ELSE f[k]]
  <2>3. last \in V
    BY <2>2
  <2> HIDE DEF last
  <2>4. g \in [0..n -> V]
    BY <2>3
  <2>5. \A k \in 0..(n - 1) : g[k] = f[k]
    <3> SUFFICES ASSUME NEW k \in 0..(n - 1) PROVE g[k] = f[k]
      OBVIOUS
    <3>1. k # n /\ k \in 0..n
      OBVIOUS
    <3> QED BY <3>1
  <2>6. g[n] = last
    OBVIOUS
  <2>7. g[n] = step[n][g[n - 1]]
    <3> HIDE DEF g
    <3> QED BY <2>2, <2>5, <2>6 DEF last
  <2>8. \A k \in 1..n : g[k] = step[k][g[k - 1]]
    <3> SUFFICES ASSUME NEW k \in 1..n PROVE g[k] = step[k][g[k - 1]]
      OBVIOUS
    <3> HIDE DEF g
    <3>1. CASE k = n
      BY <3>1, <2>7
    <3>2. CASE k # n
      <4>1. k \in 1..(n - 1) /\ k - 1 \in 0..(n - 1) /\ k \in 0..(n - 1)
        BY <3>2
      <4> QED BY <4>1, <2>1, <2>5
    <3> QED BY <3>1, <3>2
  <2>9. g[0] = e
    <3>1. 0 \in 0..(n - 1)
      OBVIOUS
    <3> HIDE DEF g
    <3> QED BY <3>1, <2>1, <2>5
  <2> HIDE DEF g
  <2>10. Is(g, n)
    BY <2>8, <2>9
  <2> HIDE DEF Is
  <2> QED BY <2>4, <2>10
<1>3. \A n \in 0..N : n \in S
  <2> HIDE DEF S
  <2> QED BY <1>1, <1>2, UpTo
<1>4. N \in 0..N
  OBVIOUS
<1> QED BY <1>3, <1>4 DEF IsIteration

-----------------------------------------------------------------------------
(* Counting.                                                               *)

\* The numbers of an interval.
LEMMA FirstNumbers ==
    ASSUME NEW n \in Nat
    PROVE  IsFiniteSet(1..n) /\ Cardinality(1..n) = n
<1>1. 1 \in Int /\ n \in Int
  OBVIOUS
<1>2. IsFiniteSet(1..n) /\ Cardinality(1..n) = IF 1 > n THEN 0 ELSE n - 1 + 1
  BY <1>1, FS_Interval
<1> QED BY <1>2

\* A set that the first n numbers reach has no more than n elements.
LEMMA ReachedByNumbers ==
    ASSUME NEW n \in Nat, NEW S, NEW f \in [1..n -> S], \A x \in S : \E i \in 1..n : f[i] = x
    PROVE  IsFiniteSet(S) /\ Cardinality(S) \in Nat /\ Cardinality(S) <= n
<1> DEFINE I == 1..n
<1>1. IsFiniteSet(I) /\ Cardinality(I) = n
  BY FirstNumbers
<1>2. f \in Surjection(I, S)
  BY DEF Surjection
<1> HIDE DEF I
<1>3. IsFiniteSet(S) /\ Cardinality(S) <= Cardinality(I)
  BY <1>1, <1>2, FS_Surjection
<1>4. Cardinality(S) \in Nat
  BY <1>3, FS_CardinalityType
<1> QED BY <1>1, <1>3, <1>4

\* Different numbers for all elements of a set, up to their number, are all of
\* these numbers.
LEMMA NumberedIsReached ==
    ASSUME NEW S, IsFiniteSet(S), NEW n \in Nat, n = Cardinality(S), NEW f \in [S -> 1..n],
           \A x, y \in S : f[x] = f[y] => x = y
    PROVE  \A i \in 1..n : \E x \in S : f[x] = i
<1> DEFINE I == 1..n
<1>1. IsFiniteSet(I) /\ Cardinality(I) = n
  BY FirstNumbers
<1>2. f \in Injection(S, I)
  BY DEF Injection, IsInjective
<1> HIDE DEF I
<1>3. f \in Surjection(S, I)
  BY <1>1, <1>2, FS_Injection
<1> QED BY <1>3 DEF Surjection, I

\* A sequence without repetitions is no longer than there are values.
LEMMA DistinctAreFew ==
    ASSUME NEW S, IsFiniteSet(S), NEW c \in Seq(S),
           \A i, j \in 1..Len(c) : c[i] = c[j] => i = j
    PROVE  Len(c) <= Cardinality(S)
<1>1. Len(c) \in Nat /\ c \in [1..Len(c) -> S]
  OBVIOUS
<1>2. c \in Injection(1..Len(c), S)
  BY <1>1 DEF Injection, IsInjective
<1>3. Cardinality(1..Len(c)) <= Cardinality(S)
  BY <1>2, FS_Injection
<1>4. Cardinality(1..Len(c)) = Len(c)
  BY <1>1, FirstNumbers
<1> QED BY <1>3, <1>4

-----------------------------------------------------------------------------
(* StepFold.                                                               *)

\* A property of what a value may be after each number of steps, given as a
\* set for each: if it holds at the start and each step keeps it, it holds.
LEMMA AfterReaches ==
    ASSUME NEW n \in Nat, NEW Reached, NEW start \in Reached[0], NEW steps,
           \A i \in 1..n : \A v \in Reached[i - 1] : steps[i][v] \in Reached[i]
    PROVE  After(steps, start, n) \in Reached[n]
<1> DEFINE V == UNION {Reached[i] : i \in 0..n}
           step == [i \in 1..n |-> [v \in V |-> IF v \in Reached[i - 1] THEN steps[i][v] ELSE start]]
           Is(x) == [i \in 0..n |-> IF i = 0 THEN start ELSE steps[i][x[i - 1]]]
           value == CHOOSE x : x = Is(x)
<1>1. start \in V
  <2>1. 0 \in 0..n
    OBVIOUS
  <2> QED BY <2>1
<1>2. \A i \in 1..n : \A v \in V : (IF v \in Reached[i - 1] THEN steps[i][v] ELSE start) \in V
  <2> SUFFICES ASSUME NEW i \in 1..n, NEW v \in V
               PROVE  (IF v \in Reached[i - 1] THEN steps[i][v] ELSE start) \in V
    OBVIOUS
  <2>1. i \in 0..n
    OBVIOUS
  <2>2. v \in Reached[i - 1] => steps[i][v] \in V
    BY <2>1
  <2> HIDE DEF V
  <2> QED BY <1>1, <2>2
<1>3. step \in [1..n -> [V -> V]]
  <2> HIDE DEF V
  <2> QED BY <1>2
<1>4. PICK f \in [0..n -> V] : IsIteration(f, n, start, step)
  <2> HIDE DEF V, step
  <2> QED BY <1>1, <1>3, Iterated
<1>5. \A i \in 0..n : f[i] \in Reached[i]
  <2> DEFINE T == {i \in 0..n : f[i] \in Reached[i]}
  <2>1. 0 \in T
    BY <1>4 DEF IsIteration
  <2>2. ASSUME NEW i \in 1..n, i - 1 \in T PROVE i \in T
    <3>1. f[i - 1] \in Reached[i - 1] /\ f[i - 1] \in V /\ i \in 0..n
      <4> HIDE DEF V
      <4> QED BY <1>4, <2>2
    <3>2. f[i] = step[i][f[i - 1]]
      BY <1>4 DEF IsIteration
    <3>3. f[i] = steps[i][f[i - 1]]
      <4> HIDE DEF V
      <4> QED BY <3>1, <3>2
    <3> QED BY <3>1, <3>3
  <2>3. \A i \in 0..n : i \in T
    <3> HIDE DEF T
    <3> QED BY <2>1, <2>2, UpTo
  <2> QED BY <2>3
<1>6. f = Is(f)
  <2> SUFFICES ASSUME NEW i \in 0..n PROVE f[i] = Is(f)[i]
    BY <1>4
  <2>1. CASE i = 0
    BY <1>4, <2>1 DEF IsIteration
  <2>2. CASE i # 0
    <3>1. i \in 1..n /\ i - 1 \in 0..n
      BY <2>2
    <3>2. f[i] = step[i][f[i - 1]] /\ f[i - 1] \in Reached[i - 1] /\ f[i - 1] \in V
      <4> HIDE DEF V, step
      <4> QED BY <1>4, <1>5, <3>1 DEF IsIteration
    <3>3. f[i] = steps[i][f[i - 1]]
      <4> HIDE DEF V
      <4> QED BY <3>1, <3>2
    <3> QED BY <3>1, <3>3, <2>2
  <2> QED BY <2>1, <2>2
<1>7. value = Is(value)
  <2> HIDE DEF Is
  <2> QED BY <1>6
<1>8. \A i \in 0..n : value[i] \in Reached[i]
  <2> DEFINE T == {i \in 0..n : value[i] \in Reached[i]}
  <2>1. value[0] = start
    <3>1. Is(value)[0] = start
      OBVIOUS
    <3> HIDE DEF value, Is
    <3> QED BY <1>7, <3>1
  <2>2. ASSUME NEW i \in 1..n PROVE value[i] = steps[i][value[i - 1]]
    <3>1. Is(value)[i] = steps[i][value[i - 1]]
      OBVIOUS
    <3> HIDE DEF value, Is
    <3> QED BY <1>7, <3>1
  <2> HIDE DEF value, Is
  <2>3. 0 \in T
    BY <2>1
  <2>4. ASSUME NEW i \in 1..n, i - 1 \in T PROVE i \in T
    <3>1. i \in 0..n /\ value[i - 1] \in Reached[i - 1]
      BY <2>4
    <3>2. steps[i][value[i - 1]] \in Reached[i]
      BY <3>1
    <3> QED BY <2>2, <3>1, <3>2
  <2>5. \A i \in 0..n : i \in T
    <3> HIDE DEF T
    <3> QED BY <2>3, <2>4, UpTo
  <2> QED BY <2>5
<1>9. After(steps, start, n) = value[n]
  BY DEF After
<1> HIDE DEF value
<1> QED BY <1>8, <1>9

\* What is after n steps comes to by step m.
ComesTo(more, start, m, v) == After(more, start, m) = more[m][v]

\* One step more, after steps that stay in a set.
LEMMA AfterOneMore ==
    ASSUME NEW n \in Nat, NEW m, m = n + 1, NEW V, NEW start \in V, NEW steps, NEW more,
           \A i \in 1..n : more[i] = steps[i] /\ \A v \in V : steps[i][v] \in V
    PROVE  /\ After(steps, start, n) \in V
           /\ ComesTo(more, start, m, After(steps, start, n))
<1> DEFINE step == [i \in 1..n |-> [v \in V |-> steps[i][v]]]
<1>1. step \in [1..n -> [V -> V]]
  OBVIOUS
<1>2. PICK f \in [0..n -> V] : IsIteration(f, n, start, step)
  <2> HIDE DEF step
  <2> QED BY <1>1, Iterated
<1>3. f[0] = start /\ \A i \in 1..n : f[i] = steps[i][f[i - 1]]
  <2>1. \A i \in 1..n : f[i - 1] \in V
    OBVIOUS
  <2> QED BY <1>2, <2>1 DEF IsIteration
<1> DEFINE last == more[n + 1][f[n]]
           Reached == [i \in 0..(n + 1) |-> IF i <= n THEN {f[i]} ELSE {last}]
<1>4. \A i \in 0..n : Reached[i] = {f[i]}
  OBVIOUS
<1>5. Reached[n + 1] = {last}
  OBVIOUS
<1> HIDE DEF Reached, last
<1>6. After(steps, start, n) = f[n]
  <2>1. start \in Reached[0]
    BY <1>3, <1>4
  <2>2. \A i \in 1..n : \A v \in Reached[i - 1] : steps[i][v] \in Reached[i]
    <3> SUFFICES ASSUME NEW i \in 1..n PROVE steps[i][f[i - 1]] = f[i]
      BY <1>4
    <3> QED BY <1>3
  <2>3. After(steps, start, n) \in Reached[n]
    BY <2>1, <2>2, AfterReaches
  <2> QED BY <2>3, <1>4
<1>7. After(more, start, n + 1) = last
  <2>1. start \in Reached[0] /\ n + 1 \in Nat
    BY <1>3, <1>4
  <2>2. \A i \in 1..(n + 1) : \A v \in Reached[i - 1] : more[i][v] \in Reached[i]
    <3> SUFFICES ASSUME NEW i \in 1..(n + 1) PROVE more[i][f[i - 1]] \in Reached[i]
      BY <1>4
    <3>1. CASE i = n + 1
      BY <3>1, <1>5 DEF last
    <3>2. CASE i # n + 1
      <4>1. i \in 1..n
        BY <3>2
      <4> QED BY <4>1, <1>3, <1>4
    <3> QED BY <3>1, <3>2
  <2>3. After(more, start, n + 1) \in Reached[n + 1]
    BY <2>1, <2>2, AfterReaches
  <2> QED BY <2>3, <1>5
<1>8. f[n] \in V
  OBVIOUS
<1> QED BY <1>6, <1>7, <1>8 DEF last, ComesTo

-----------------------------------------------------------------------------
(* Short loops, and short sequences.                                       *)

\* One step, and two.
LEMMA AfterOne ==
    ASSUME NEW steps, NEW start, NEW one, one = steps[1][start]
    PROVE  /\ After(steps, start, 1) = one
           /\ \A two : two = steps[2][one] => After(steps, start, 2) = two
<1>1. After(steps, start, 1) = one
  <2> DEFINE Reached == [i \in 0..1 |-> IF i = 0 THEN {start} ELSE {one}]
  <2>1. start \in Reached[0] /\ \A i \in 1..1 : \A v \in Reached[i - 1] : steps[i][v] \in Reached[i]
      OBVIOUS
  <2>2. After(steps, start, 1) \in Reached[1]
    <3> HIDE DEF Reached
    <3> QED BY <2>1, AfterReaches
  <2> QED BY <2>2
<1>2. ASSUME NEW two, two = steps[2][one] PROVE After(steps, start, 2) = two
  <2> DEFINE Reached == [i \in 0..2 |-> IF i = 0 THEN {start} ELSE IF i = 1 THEN {one} ELSE {two}]
  <2>1. start \in Reached[0]
      OBVIOUS
  <2>2. ASSUME NEW i \in 1..2, NEW v \in Reached[i - 1] PROVE steps[i][v] \in Reached[i]
    <3>1. CASE i = 1
        BY <2>2, <3>1
    <3>2. CASE i = 2
        BY <1>2, <2>2, <3>2
    <3> QED BY <3>1, <3>2
  <2>3. After(steps, start, 2) \in Reached[2]
    <3> HIDE DEF Reached
    <3> QED BY <2>1, <2>2, AfterReaches
  <2> QED BY <2>3
<1> QED BY <1>1, <1>2

LEMMA PairOf ==
    ASSUME NEW a, NEW b
    PROVE  /\ Append(<<a>>, b) = <<a, b>> /\ <<a>> \o <<b>> = <<a, b>>
           /\ <<a, b>> # <<>> /\ <<a>> # <<>> /\ <<a>>[1] = a /\ <<a, b>>[1] = a
<1>1. <<a>> \in Seq({a, b}) /\ <<b>> \in Seq({a, b}) /\ <<a, b>> \in Seq({a, b})
    OBVIOUS
<1>2. \A s, t \in Seq({a, b}) : Len(s) = 2 /\ Len(t) = 2 /\ s[1] = t[1] /\ s[2] = t[2] => s = t
    OBVIOUS
<1>3. /\ Append(<<a>>, b) \in Seq({a, b}) /\ Len(Append(<<a>>, b)) = 2
      /\ Append(<<a>>, b)[1] = a /\ Append(<<a>>, b)[2] = b
    BY <1>1
<1>4. /\ <<a>> \o <<b>> \in Seq({a, b}) /\ Len(<<a>> \o <<b>>) = 2
      /\ (<<a>> \o <<b>>)[1] = a /\ (<<a>> \o <<b>>)[2] = b
    BY <1>1
<1>5. Append(<<a>>, b) = <<a, b>>
    BY <1>1, <1>2, <1>3
<1>6. <<a>> \o <<b>> = <<a, b>>
    BY <1>1, <1>2, <1>4
<1>7. <<a, b>> # <<>> /\ <<a>> # <<>>
    BY Len(<<a, b>>) = 2, Len(<<a>>) = 1, Len(<<>>) = 0
<1> QED BY <1>5, <1>6, <1>7

-----------------------------------------------------------------------------
(* Orders.                                                                 *)

\* A part of an ordered set is ordered.
LEMMA PartIsOrdered ==
    ASSUME NEW S, NEW before, IsOrder(S, before), NEW T \in SUBSET S
    PROVE  IsOrder(T, before)
BY DEF IsOrder

\* A finite ordered set has places from one up to its number of elements.
LEMMA PlacesOfOrdered ==
    ASSUME NEW S, IsFiniteSet(S), NEW before, IsOrder(S, before)
    PROVE  /\ Cardinality(S) \in Nat
           /\ \A x \in S : PlaceIn(S, before, x) \in 1..Cardinality(S)
           /\ \A x, y \in S : <<x, y>> \in before <=> PlaceIn(S, before, x) < PlaceIn(S, before, y)
           /\ \A x, y \in S : PlaceIn(S, before, x) = PlaceIn(S, before, y) => x = y
           /\ \A i \in 1..Cardinality(S) : \E x \in S : PlaceIn(S, before, x) = i
<1> DEFINE n == Cardinality(S)
           below(x) == {y \in S : <<y, x>> \in before}
           place == [x \in S |-> Cardinality(below(x)) + 1]
<1>1. n \in Nat
  BY FS_CardinalityType
<1>2. \A x \in S : PlaceIn(S, before, x) = place[x]
  BY DEF PlaceIn
<1>3. ASSUME NEW x \in S
      PROVE  IsFiniteSet(below(x)) /\ Cardinality(below(x)) \in Nat /\ place[x] \in 1..n
  <2> DEFINE B == below(x)
  <2>1. B \in SUBSET S /\ x \notin B
    BY DEF IsOrder
  <2>2. place[x] = Cardinality(B) + 1
    OBVIOUS
  <2> HIDE DEF B, place
  <2>3. IsFiniteSet(B) /\ Cardinality(B) <= n /\ (n = Cardinality(B) => S = B)
    BY <2>1, FS_Subset
  <2>4. Cardinality(B) \in Nat
    BY <2>3, FS_CardinalityType
  <2>5. Cardinality(B) < n
    BY <1>1, <2>1, <2>3, <2>4
  <2> HIDE DEF n
  <2> QED BY <1>1, <2>2, <2>3, <2>4, <2>5 DEF B
<1>4. ASSUME NEW x \in S, NEW y \in S, <<x, y>> \in before
      PROVE  place[x] < place[y]
  <2> DEFINE B == below(x)
             C == below(y)
  <2>1. B \in SUBSET C
    <3> SUFFICES ASSUME NEW z \in S, <<z, x>> \in before PROVE <<z, y>> \in before
      OBVIOUS
    <3> QED BY <1>4 DEF IsOrder
  <2>2. x \in C /\ x \notin B
    BY <1>4 DEF IsOrder
  <2>3. /\ IsFiniteSet(B) /\ Cardinality(B) \in Nat
        /\ IsFiniteSet(C) /\ Cardinality(C) \in Nat
    BY <1>3
  <2>4. place[x] = Cardinality(B) + 1 /\ place[y] = Cardinality(C) + 1
    OBVIOUS
  <2> HIDE DEF B, C, place
  <2>5. Cardinality(B) <= Cardinality(C) /\ (Cardinality(C) = Cardinality(B) => C = B)
    BY <2>1, <2>3, FS_Subset
  <2>6. Cardinality(B) < Cardinality(C)
    BY <2>2, <2>3, <2>5
  <2> QED BY <2>3, <2>4, <2>6
<1>5. DOMAIN place = S
  OBVIOUS
<1> HIDE DEF place, n
<1>6. \A x \in S : place[x] \in Nat
  <2>1. \A x \in S : place[x] \in 1..n
    BY <1>3
  <2> HIDE DEF below
  <2> QED BY <1>1, <2>1
<1>7. \A x, y \in S : x = y \/ place[x] < place[y] \/ place[y] < place[x]
  BY <1>4 DEF IsOrder
<1>8. \A x, y \in S : place[x] = place[y] => x = y
  <2> SUFFICES ASSUME NEW x \in S, NEW y \in S, place[x] = place[y] PROVE x = y
    OBVIOUS
  <2>1. place[x] \in Nat /\ ~(place[x] < place[y]) /\ ~(place[y] < place[x])
    BY <1>6
  <2> QED BY <1>7, <2>1
<1>9. \A x, y \in S : place[x] < place[y] => <<x, y>> \in before
  <2> SUFFICES ASSUME NEW x \in S, NEW y \in S, place[x] < place[y] PROVE <<x, y>> \in before
    OBVIOUS
  <2>1. x # y /\ ~(place[y] < place[x])
    BY <1>6
  <2>2. <<y, x>> \notin before
    BY <1>4, <2>1
  <2> QED BY <2>1, <2>2 DEF IsOrder
<1>10. \A i \in 1..n : \E x \in S : place[x] = i
  <2>1. place \in [S -> 1..n]
    <3>1. place = [x \in S |-> place[x]]
      BY DEF place
    <3> QED BY <1>3, <3>1
  <2>2. n = Cardinality(S)
    BY DEF n
  <2> QED BY <1>1, <1>8, <2>1, <2>2, NumberedIsReached
<1>11. \A x \in S : PlaceIn(S, before, x) \in 1..n
  BY <1>2, <1>3
<1>12. \A x, y \in S : <<x, y>> \in before <=> PlaceIn(S, before, x) < PlaceIn(S, before, y)
  BY <1>2, <1>4, <1>9
<1>13. \A x, y \in S : PlaceIn(S, before, x) = PlaceIn(S, before, y) => x = y
  BY <1>2, <1>8
<1>14. \A i \in 1..n : \E x \in S : PlaceIn(S, before, x) = i
  BY <1>2, <1>10
<1> QED BY <1>1, <1>11, <1>12, <1>13, <1>14 DEF n

\* Ordered lists every element once, in order.
LEMMA OrderedLists ==
    ASSUME NEW S, IsFiniteSet(S), NEW before, IsOrder(S, before)
    PROVE  LET list == Ordered(S, before)
           IN  /\ list \in Seq(S) /\ Len(list) = Cardinality(S) /\ Cardinality(S) \in Nat
               /\ \A x \in S : \E i \in 1..Len(list) : list[i] = x
               /\ \A i, j \in 1..Len(list) : list[i] = list[j] => i = j
               /\ \A i, j \in 1..Len(list) : i < j => <<list[i], list[j]>> \in before
<1> DEFINE n == Cardinality(S)
           place == [x \in S |-> PlaceIn(S, before, x)]
           list == Ordered(S, before)
<1>1. /\ n \in Nat
      /\ \A x \in S : place[x] \in 1..n
      /\ \A x, y \in S : <<x, y>> \in before <=> place[x] < place[y]
      /\ \A x, y \in S : place[x] = place[y] => x = y
      /\ \A i \in 1..n : \E x \in S : place[x] = i
  BY PlacesOfOrdered
<1>2. list = [i \in 1..n |-> CHOOSE x \in S : place[x] = i]
  BY DEF Ordered
<1> HIDE DEF n, place, list
<1>3. ASSUME NEW i \in 1..n PROVE list[i] \in S /\ place[list[i]] = i
  <2>1. \E x \in S : place[x] = i
    BY <1>1
  <2>2. list[i] = CHOOSE x \in S : place[x] = i
    BY <1>2
  <2> QED BY <2>1, <2>2
<1>4. list \in [1..n -> S]
  BY <1>2, <1>3
<1>5. list \in Seq(S) /\ Len(list) = n
  BY <1>1, <1>4
<1>6. \A x \in S : list[place[x]] = x /\ place[x] \in 1..n
  BY <1>1, <1>3
<1>7. \A i, j \in 1..n : list[i] = list[j] => i = j
  BY <1>3
<1>8. \A i, j \in 1..n : i < j => <<list[i], list[j]>> \in before
  BY <1>1, <1>3
<1> QED BY <1>1, <1>5, <1>6, <1>7, <1>8 DEF n, list

\* The foremost element is before all others.
LEMMA ForemostLeads ==
    ASSUME NEW S, IsFiniteSet(S), S # {}, NEW before, IsOrder(S, before)
    PROVE  /\ Foremost(S, before) \in S
           /\ \A y \in S \ {Foremost(S, before)} : <<Foremost(S, before), y>> \in before
<1>1. /\ Cardinality(S) \in Nat
      /\ \A x \in S : PlaceIn(S, before, x) \in 1..Cardinality(S)
      /\ \A x, y \in S : <<x, y>> \in before <=> PlaceIn(S, before, x) < PlaceIn(S, before, y)
      /\ \A x, y \in S : PlaceIn(S, before, x) = PlaceIn(S, before, y) => x = y
      /\ \A i \in 1..Cardinality(S) : \E x \in S : PlaceIn(S, before, x) = i
  BY PlacesOfOrdered
<1>2. 1 \in 1..Cardinality(S)
  BY <1>1
<1>3. PICK x \in S : PlaceIn(S, before, x) = 1
  BY <1>1, <1>2
<1>4. \A y \in S \ {x} : <<x, y>> \in before
  <2> SUFFICES ASSUME NEW y \in S, y # x PROVE <<x, y>> \in before
    OBVIOUS
  <2>1. PlaceIn(S, before, y) \in 1..Cardinality(S) /\ PlaceIn(S, before, y) # 1
    BY <1>1, <1>3
  <2>2. 1 < PlaceIn(S, before, y)
    BY <1>1, <2>1
  <2> QED BY <1>1, <1>3, <2>2
<1> QED BY <1>4 DEF Foremost
=============================================================================
