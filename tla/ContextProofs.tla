---------------------------- MODULE ContextProofs ----------------------------
(***************************************************************************)
(* Proofs about the contexts of a turn: the budgets of the official        *)
(* documents and of the workspaces, which are kept, and used, whatever is  *)
(* ranked or planned; the sources of the documents, which are the runs of  *)
(* the chosen chunks; the plan of a workspace context, which tells every   *)
(* unit once; and the packages that a workspace registry accepts.          *)
(***************************************************************************)
EXTENDS KnowledgeContext, RetrievalGates, WorkspaceContext, WorkspaceSources, Iterations

-----------------------------------------------------------------------------
(* Sequences and sums.                                                     *)

\* A sequence that is longer by one.
LEMMA Appended ==
    ASSUME NEW S, NEW s \in Seq(S), NEW x \in S
    PROVE  /\ Append(s, x) \in Seq(S) /\ Len(Append(s, x)) = Len(s) + 1 /\ Append(s, x) # <<>>
           /\ Append(s, x)[Len(s) + 1] = x
           /\ \A j \in 1..Len(s) : Append(s, x)[j] = s[j]
  OBVIOUS

\* A function from the first numbers is a sequence.
LEMMA InARow ==
    ASSUME NEW S, NEW n \in Nat, NEW f \in [1..n -> S]
    PROVE  f \in Seq(S) /\ Len(f) = n
  OBVIOUS

\* A sequence followed by another.
LEMMA Joined ==
    ASSUME NEW S, NEW s \in Seq(S), NEW t \in Seq(S)
    PROVE  /\ s \o t \in Seq(S) /\ Len(s \o t) = Len(s) + Len(t)
           /\ \A i \in 1..Len(s) : (s \o t)[i] = s[i]
           /\ \A i \in (Len(s) + 1)..(Len(s) + Len(t)) : (s \o t)[i] = t[i - Len(s)]
  OBVIOUS

\* The beginnings of a sequence, and of one that is longer by one.
LEMMA Beginnings ==
    ASSUME NEW S, NEW s \in Seq(S), NEW x \in S
    PROVE  /\ SubSeq(s, 1, Len(s)) = s
           /\ \A n \in 0..Len(s) : SubSeq(Append(s, x), 1, n) = SubSeq(s, 1, n)
           /\ ToSet(Append(s, x)) = ToSet(s) \cup {x}
           /\ Append(s, x) \in Seq(S) /\ Len(Append(s, x)) = Len(s) + 1
<1> DEFINE t == Append(s, x)
<1>1. t \in Seq(S) /\ Len(t) = Len(s) + 1 /\ Len(s) \in Nat /\ t[Len(s) + 1] = x
  OBVIOUS
<1>2. \A i \in 1..Len(s) : t[i] = s[i]
  OBVIOUS
<1>3. DOMAIN s = 1..Len(s) /\ DOMAIN t = 1..(Len(s) + 1)
  BY <1>1
<1>4. SubSeq(s, 1, Len(s)) = s
  OBVIOUS
<1>5. ASSUME NEW n \in 0..Len(s) PROVE SubSeq(t, 1, n) = SubSeq(s, 1, n)
  <2> HIDE DEF t
  <2>1. \A i \in 1..n : t[i] = s[i]
    BY <1>1, <1>2
  <2>2. SubSeq(t, 1, n) = [i \in 1..n |-> t[i]] /\ SubSeq(s, 1, n) = [i \in 1..n |-> s[i]]
    BY <1>1
  <2> QED BY <2>1, <2>2
<1>6. ToSet(t) = ToSet(s) \cup {x}
  <2> HIDE DEF t
  <2>1. ASSUME NEW y \in ToSet(t) PROVE y \in ToSet(s) \cup {x}
    <3>1. PICK i \in 1..(Len(s) + 1) : y = t[i]
      BY <1>3 DEF ToSet
    <3>2. CASE i = Len(s) + 1
      BY <3>1, <3>2, <1>1
    <3>3. CASE i # Len(s) + 1
      <4>1. i \in 1..Len(s)
        BY <3>3, <1>1
      <4> QED BY <4>1, <3>1, <1>2, <1>3 DEF ToSet
    <3> QED BY <3>2, <3>3
  <2>2. ASSUME NEW y \in ToSet(s) PROVE y \in ToSet(t)
    <3>1. PICK i \in 1..Len(s) : y = s[i]
      BY <1>3 DEF ToSet
    <3>2. i \in 1..(Len(s) + 1) /\ y = t[i]
      BY <3>1, <1>1, <1>2
    <3> QED BY <3>2, <1>3 DEF ToSet
  <2>3. x \in ToSet(t)
    <3>1. Len(s) + 1 \in 1..(Len(s) + 1)
      BY <1>1
    <3> QED BY <3>1, <1>1, <1>3 DEF ToSet
  <2> QED BY <2>1, <2>2, <2>3
<1> QED BY <1>1, <1>4, <1>5, <1>6

\* Sizes add up one by one.
LEMMA TotalAdds ==
    ASSUME NEW start \in Nat, NEW s \in Seq(Nat), NEW x \in Nat
    PROVE  /\ Total(start, s) \in Nat
           /\ Total(start, Append(s, x)) = Total(start, s) + x
<1> DEFINE t == Append(s, x)
           steps == [i \in DOMAIN s |-> [n \in Nat |-> n + s[i]]]
           more == [i \in DOMAIN t |-> [n \in Nat |-> n + t[i]]]
<1>1. Len(s) \in Nat /\ DOMAIN s = 1..Len(s) /\ DOMAIN t = 1..(Len(s) + 1) /\ Len(t) = Len(s) + 1
  OBVIOUS
<1>2. t[Len(s) + 1] = x /\ \A i \in 1..Len(s) : t[i] = s[i] /\ s[i] \in Nat
  OBVIOUS
<1> HIDE DEF t
<1>3. ASSUME NEW i \in 1..Len(s) PROVE more[i] = steps[i] /\ \A n \in Nat : steps[i][n] \in Nat
  <2>1. i \in DOMAIN s /\ i \in DOMAIN t
    BY <1>1
  <2>2. more[i] = [n \in Nat |-> n + t[i]] /\ steps[i] = [n \in Nat |-> n + s[i]]
    BY <2>1
  <2> HIDE DEF more, steps
  <2>3. more[i] = steps[i]
    BY <1>2, <2>2
  <2>4. ASSUME NEW n \in Nat PROVE steps[i][n] \in Nat
    <3>1. steps[i][n] = n + s[i] /\ s[i] \in Nat
      BY <1>2, <2>2
    <3> QED BY <3>1
  <2> QED BY <2>3, <2>4
<1>4. more[Len(s) + 1] = [n \in Nat |-> n + x]
  <2>1. Len(s) + 1 \in DOMAIN t
    BY <1>1
  <2> QED BY <2>1, <1>2
<1> HIDE DEF steps, more
<1> DEFINE V == Nat
           n == Len(s)
           m == Len(s) + 1
<1>5. n \in Nat /\ m = n + 1 /\ start \in V /\ \A i \in 1..n : more[i] = steps[i] /\ \A v \in V : steps[i][v] \in V
  BY <1>1, <1>3
<1> HIDE DEF V, n, m
<1>6. After(steps, start, n) \in V
  BY <1>5, AfterOneMore
<1>7. ComesTo(more, start, m, After(steps, start, n))
  BY <1>5, AfterOneMore
<1>8. Total(start, s) = After(steps, start, n) /\ Total(start, t) = After(more, start, m)
  BY <1>1 DEF Total, steps, more, n, m
<1>9. Total(start, t) = more[m][After(steps, start, n)]
  BY <1>7, <1>8 DEF ComesTo
<1>10. Total(start, t) = Total(start, s) + x /\ Total(start, s) \in Nat
  BY <1>4, <1>6, <1>8, <1>9 DEF V, m
<1> QED BY <1>10 DEF t

\* Sizes of what is in a sequence.
Sizes(size, s) == [i \in DOMAIN s |-> size[s[i]]]

LEMMA SizesAppended ==
    ASSUME NEW S, NEW size, \A y \in S : size[y] \in Nat, NEW s \in Seq(S), NEW x \in S
    PROVE  /\ Sizes(size, s) \in Seq(Nat)
           /\ Sizes(size, Append(s, x)) = Append(Sizes(size, s), size[x])
<1> DEFINE t == Append(s, x)
           sizes == [i \in DOMAIN s |-> size[s[i]]]
           more == [i \in DOMAIN t |-> size[t[i]]]
<1>1. Len(s) \in Nat /\ DOMAIN s = 1..Len(s) /\ DOMAIN t = 1..(Len(s) + 1)
  OBVIOUS
<1>2. t[Len(s) + 1] = x /\ \A i \in 1..Len(s) : t[i] = s[i] /\ s[i] \in S
  OBVIOUS
<1>3. sizes \in [1..Len(s) -> Nat]
  BY <1>1, <1>2
<1> HIDE DEF t
<1>4. sizes \in Seq(Nat) /\ Len(sizes) = Len(s)
  <2> HIDE DEF sizes
  <2> QED BY <1>1, <1>3
<1>5. \A i \in 1..(Len(s) + 1) : more[i] = size[t[i]]
  BY <1>1
<1>6. \A i \in 1..Len(s) : sizes[i] = size[s[i]]
  BY <1>1
<1>7. DOMAIN more = 1..(Len(s) + 1)
  BY <1>1
<1>8. more = [i \in DOMAIN more |-> more[i]]
  OBVIOUS
<1> HIDE DEF sizes, more
<1> DEFINE appended == Append(sizes, size[x])
<1>9. /\ DOMAIN appended = 1..(Len(s) + 1) /\ appended[Len(s) + 1] = size[x]
      /\ \A i \in 1..Len(s) : appended[i] = sizes[i]
      /\ appended = [i \in DOMAIN appended |-> appended[i]]
  BY <1>1, <1>4
<1> HIDE DEF appended
<1>10. \A i \in 1..(Len(s) + 1) : more[i] = appended[i]
  <2> SUFFICES ASSUME NEW i \in 1..(Len(s) + 1) PROVE more[i] = appended[i]
    OBVIOUS
  <2>1. CASE i = Len(s) + 1
    BY <2>1, <1>1, <1>2, <1>5, <1>9
  <2>2. CASE i # Len(s) + 1
    <3>1. i \in 1..Len(s)
      BY <2>2, <1>1
    <3> QED BY <3>1, <1>2, <1>5, <1>6, <1>9
  <2> QED BY <2>1, <2>2
<1>11. more = appended
  BY <1>7, <1>8, <1>9, <1>10
<1> QED BY <1>4, <1>11 DEF sizes, more, appended, t, Sizes

\* The largest of some of the first numbers.
LEMMA Largest ==
    ASSUME NEW N \in Nat, NEW T \in SUBSET (0..N), T # {}
    PROVE  Max(T) \in T /\ \A n \in T : n <= Max(T)
<1> DEFINE R == {N - n : n \in T}
<1>1. R \in SUBSET Nat /\ R # {}
  <2>1. PICK t \in T : TRUE
    OBVIOUS
  <2>2. N - t \in R
    OBVIOUS
  <2>3. \A n \in T : N - n \in Nat
    OBVIOUS
  <2> QED BY <2>2, <2>3
<1>2. PICK r \in R : \A n \in R : r <= n
  <2> HIDE DEF R
  <2> QED BY <1>1, LeastNatural
<1>3. PICK m \in T : r = N - m
  BY <1>2
<1>4. \A n \in T : m >= n
  <2> SUFFICES ASSUME NEW n \in T PROVE m >= n
    OBVIOUS
  <2>1. N - n \in R
    OBVIOUS
  <2>2. N - m <= N - n
    BY <1>2, <1>3, <2>1
  <2> QED BY <2>2
<1>5. Max(T) \in T /\ \A n \in T : Max(T) >= n
  BY <1>3, <1>4 DEF Max
<1> QED BY <1>5

\* The larger and the smaller of two.
LEMMA OfTwo ==
    ASSUME NEW a \in Int, NEW b \in Int
    PROVE  /\ Max({a, b}) = IF a <= b THEN b ELSE a
           /\ Min({a, b}) = IF a <= b THEN a ELSE b
<1>1. \E x \in {a, b} : \A y \in {a, b} : x >= y
  OBVIOUS
<1>2. \E x \in {a, b} : \A y \in {a, b} : x <= y
  OBVIOUS
<1>3. Max({a, b}) \in {a, b} /\ \A y \in {a, b} : Max({a, b}) >= y
  BY <1>1 DEF Max
<1>4. Min({a, b}) \in {a, b} /\ \A y \in {a, b} : Min({a, b}) <= y
  BY <1>2 DEF Min
<1> QED BY <1>3, <1>4

\* Nothing adds nothing.
LEMMA TotalOfOne ==
    ASSUME NEW start \in Nat, NEW x \in Nat
    PROVE  Total(start, <<x>>) = start + x
<1> DEFINE Reached == [i \in 0..0 |-> {start}]
           steps == [i \in DOMAIN <<>> |-> [n \in Nat |-> n + <<>>[i]]]
<1>1. After(steps, start, 0) \in Reached[0]
  <2>1. start \in Reached[0]
    OBVIOUS
  <2> HIDE DEF Reached, steps
  <2> QED BY <2>1, AfterReaches
<1>2. Total(start, <<>>) = start
  <2>1. Len(<<>>) = 0
    OBVIOUS
  <2>2. Total(start, <<>>) = After(steps, start, 0)
    BY <2>1 DEF Total
  <2> QED BY <1>1, <2>2
<1>3. <<>> \in Seq(Nat) /\ Append(<<>>, x) = <<x>>
  OBVIOUS
<1>4. Total(start, Append(<<>>, x)) = Total(start, <<>>) + x
  BY <1>3, TotalAdds
<1> QED BY <1>2, <1>3, <1>4

\* The image of a finite set is finite.
LEMMA ImageIsFinite ==
    ASSUME NEW S, IsFiniteSet(S), NEW f, DOMAIN f = S
    PROVE  IsFiniteSet({f[x] : x \in S})
<1> DEFINE T == {f[x] : x \in S}
           g == [x \in S |-> f[x]]
<1>1. g \in Surjection(S, T)
  BY DEF Surjection
<1> HIDE DEF T, g
<1>2. IsFiniteSet(T)
  BY <1>1, FS_Surjection
<1> QED BY <1>2 DEF T

\* A list has no more ids than places.
LEMMA ListIsFinite ==
    ASSUME NEW S, NEW s \in Seq(S)
    PROVE  IsFiniteSet(ToSet(s)) /\ Cardinality(ToSet(s)) \in Nat /\ Cardinality(ToSet(s)) <= Len(s)
<1>1. Len(s) \in Nat /\ DOMAIN s = 1..Len(s)
  OBVIOUS
<1>2. s \in [1..Len(s) -> ToSet(s)] /\ \A x \in ToSet(s) : \E i \in 1..Len(s) : s[i] = x
  BY <1>1 DEF ToSet
<1> DEFINE n == Len(s)
           T == ToSet(s)
<1>3. n \in Nat /\ s \in [1..n -> T] /\ \A x \in T : \E i \in 1..n : s[i] = x
  BY <1>1, <1>2
<1> HIDE DEF n, T
<1>4. IsFiniteSet(T) /\ Cardinality(T) \in Nat /\ Cardinality(T) <= n
  BY <1>3, ReachedByNumbers
<1> QED BY <1>4 DEF n, T

\* The least of a set of naturals.
LEMMA LeastIsMin ==
    ASSUME NEW T \in SUBSET Nat, T # {}
    PROVE  Min(T) \in T /\ \A n \in T : Min(T) <= n
<1>1. \E m \in T : \A n \in T : m <= n
  BY LeastNatural
<1> QED BY <1>1 DEF Min

-----------------------------------------------------------------------------
(* The budget of the official documents.                                   *)

FirstOf(ranked, i) == {ranked[j] : j \in 1..i}

\* What may be selected of the first i chunks of a ranking.
Selections(ranked, i) ==
    {s \in Seq(ToSet(ranked)) :
        /\ ToSet(s) \subseteq FirstOf(ranked, i)
        /\ \A m, n \in DOMAIN s : s[m] = s[n] => m = n
        /\ s # <<>> => TokensOf(s) <= Budget
        /\ \A j \in 1..i : Weighed(ranked, s, j)}

\* Taking chunk i, or passing it over, keeps to what may be selected.
LEMMA SelectionGrows ==
    ASSUME NEW S, NEW ranked \in Seq(S),
           \A j, k \in DOMAIN ranked : ranked[j] = ranked[k] => j = k,
           NEW i \in 1..Len(ranked), NEW s \in Selections(ranked, i - 1)
    PROVE  Take(ranked, i)[s] \in Selections(ranked, i)
<1> DEFINE R == ToSet(ranked)
           x == ranked[i]
           t == Append(s, x)
           new == Take(ranked, i)[s]
           fits == Len(s) < TopK /\ TokensOf(t) <= Budget
<1>1. DOMAIN ranked = 1..Len(ranked) /\ Len(ranked) \in Nat
  OBVIOUS
<1>2. /\ s \in Seq(R)
      /\ ToSet(s) \subseteq FirstOf(ranked, i - 1)
      /\ s # <<>> => TokensOf(s) <= Budget
      /\ \A j \in 1..(i - 1) : Weighed(ranked, s, j)
  BY DEF Selections
<1>3. x \in R
  BY <1>1 DEF ToSet
<1>4. \A j \in 1..i : x \notin FirstOf(ranked, j - 1)
  <2> SUFFICES ASSUME NEW j \in 1..i, NEW k \in 1..(j - 1), x = ranked[k] PROVE FALSE
    BY DEF FirstOf
  <2>1. k \in DOMAIN ranked /\ i \in DOMAIN ranked /\ k # i
    BY <1>1
  <2> QED BY <2>1
<1>5. \A j \in 1..(i - 1) : ranked[j] # x
  <2> SUFFICES ASSUME NEW j \in 1..(i - 1) PROVE ranked[j] # x
    OBVIOUS
  <2>1. j \in DOMAIN ranked /\ i \in DOMAIN ranked /\ j # i
    BY <1>1
  <2> QED BY <2>1
<1>6. new = IF fits THEN t ELSE s
  BY <1>2 DEF Take
<1>7. /\ SubSeq(s, 1, Len(s)) = s
      /\ \A n \in 0..Len(s) : SubSeq(t, 1, n) = SubSeq(s, 1, n)
      /\ ToSet(t) = ToSet(s) \cup {x}
      /\ t \in Seq(R) /\ Len(t) = Len(s) + 1
  <2> HIDE DEF R, x
  <2> QED BY <1>2, <1>3, Beginnings
<1>8. Len(s) \in Nat
  BY <1>2
<1>9. x \notin ToSet(s)
  BY <1>2, <1>4
<1>10. FirstOf(ranked, i) = FirstOf(ranked, i - 1) \cup {x}
  BY DEF FirstOf
<1>11. CASE fits
  <2>1. new = t
    BY <1>6, <1>11
  <2>2. ASSUME NEW j \in 1..(i - 1) PROVE Weighed(ranked, t, j)
    <3>1. PICK n \in 0..Len(s) :
            /\ ToSet(SubSeq(s, 1, n)) = ToSet(s) \cap FirstOf(ranked, j - 1)
            /\ ranked[j] \in ToSet(s) <=>
                    n < TopK /\ TokensOf(Append(SubSeq(s, 1, n), ranked[j])) <= Budget
      BY <1>2 DEF Weighed, FirstOf
    <3>2. n \in 0..Len(t) /\ SubSeq(t, 1, n) = SubSeq(s, 1, n)
      <4> HIDE DEF t
      <4> QED BY <1>7, <1>8
    <3>3. ToSet(t) \cap FirstOf(ranked, j - 1) = ToSet(s) \cap FirstOf(ranked, j - 1)
      <4> HIDE DEF t, x
      <4> QED BY <1>4, <1>7
    <3>4. ranked[j] \in ToSet(t) <=> ranked[j] \in ToSet(s)
      <4> HIDE DEF t, x
      <4> QED BY <1>5, <1>7
    <3> HIDE DEF t, x
    <3> QED BY <3>1, <3>2, <3>3, <3>4 DEF Weighed, FirstOf
  <2>3. Weighed(ranked, t, i)
    <3>1. Len(s) \in 0..Len(t) /\ SubSeq(t, 1, Len(s)) = s
      <4> HIDE DEF t
      <4> QED BY <1>7, <1>8
    <3>2. ToSet(s) = ToSet(t) \cap FirstOf(ranked, i - 1)
      <4> HIDE DEF t, x
      <4> QED BY <1>2, <1>4, <1>7
    <3>3. x \in ToSet(t)
      <4> HIDE DEF t, x
      <4> QED BY <1>7
    <3>4. Len(s) < TopK /\ TokensOf(Append(s, ranked[i])) <= Budget
      BY <1>11
    <3>5. ranked[i] \in ToSet(t)
      <4> HIDE DEF t
      <4> QED BY <3>3
    <3> HIDE DEF t, x
    <3> QED BY <3>1, <3>2, <3>4, <3>5 DEF Weighed, FirstOf
  <2>4. ToSet(t) \subseteq FirstOf(ranked, i)
    <3> HIDE DEF t, x
    <3> QED BY <1>2, <1>7, <1>10
  <2>5. \A j \in 1..i : Weighed(ranked, t, j)
    <3> SUFFICES ASSUME NEW j \in 1..i PROVE Weighed(ranked, t, j)
      OBVIOUS
    <3> HIDE DEF t
    <3>1. CASE j = i
      BY <3>1, <2>3
    <3>2. CASE j # i
      <4>1. j \in 1..(i - 1)
        BY <3>2
      <4> QED BY <4>1, <2>2
    <3> QED BY <3>1, <3>2
  <2>6. TokensOf(t) <= Budget
    BY <1>11
  <2>7. t \in Selections(ranked, i)
    <3>1. \A m, n \in DOMAIN t : t[m] = t[n] => m = n
      <4> SUFFICES ASSUME NEW m \in DOMAIN t, NEW n \in DOMAIN t, t[m] = t[n], m < n PROVE FALSE
        <5>1. DOMAIN t \subseteq Int
          BY <1>2, <1>3
        <5> HIDE DEF t
        <5> QED BY <5>1
      <4>1. m \in DOMAIN s /\ t[m] = s[m] /\ s[m] \in ToSet(s)
        <5>1. m \in 1..Len(s) /\ DOMAIN s = 1..Len(s)
          BY <1>2, <1>3
        <5>2. t[m] = s[m]
          BY <1>2, <1>3, <5>1
        <5> QED BY <5>1, <5>2 DEF ToSet
      <4>2. CASE n \in DOMAIN s
        <5>1. t[n] = s[n]
          BY <1>2, <1>3, <4>2
        <5>2. s[m] = s[n] => m = n
          BY <1>2, <4>1, <4>2 DEF Selections
        <5>3. m # n
          BY <1>2, <4>1, <4>2
        <5> HIDE DEF t
        <5> QED BY <4>1, <5>1, <5>2, <5>3
      <4>3. CASE n \notin DOMAIN s
        <5>1. DOMAIN s = 1..Len(s) /\ DOMAIN t = 1..(Len(s) + 1) /\ t[Len(s) + 1] = x
          BY <1>2, <1>3
        <5>2. n = Len(s) + 1
          BY <1>8, <4>3, <5>1
        <5> HIDE DEF t, x
        <5> QED BY <1>9, <4>1, <5>1, <5>2
      <4> QED BY <4>2, <4>3
    <3> HIDE DEF t
    <3> QED BY <2>4, <2>5, <2>6, <1>7, <3>1 DEF Selections
  <2> HIDE DEF t
  <2> QED BY <2>1, <2>7
<1>12. CASE ~ fits
  <2>1. new = s
    BY <1>6, <1>12
  <2>2. Weighed(ranked, s, i)
    <3>1. Len(s) \in 0..Len(s)
      BY <1>8
    <3>2. ToSet(s) = ToSet(s) \cap FirstOf(ranked, i - 1)
      BY <1>2
    <3>3. ~ (Len(s) < TopK /\ TokensOf(Append(s, ranked[i])) <= Budget)
      BY <1>12
    <3>4. ranked[i] \notin ToSet(s)
      BY <1>9
    <3> QED BY <3>1, <3>2, <3>3, <3>4, <1>7 DEF Weighed, FirstOf
  <2>3. \A j \in 1..i : Weighed(ranked, s, j)
    <3> SUFFICES ASSUME NEW j \in 1..i PROVE Weighed(ranked, s, j)
      OBVIOUS
    <3>1. CASE j = i
      BY <3>1, <2>2
    <3>2. CASE j # i
      <4>1. j \in 1..(i - 1)
        BY <3>2
      <4> QED BY <4>1, <1>2
    <3> QED BY <3>1, <3>2
  <2>4. ToSet(s) \subseteq FirstOf(ranked, i)
    BY <1>2, <1>10
  <2>5. s \in Selections(ranked, i)
    BY <2>3, <2>4, <1>2 DEF Selections
  <2> QED BY <2>1, <2>5
<1> QED BY <1>11, <1>12

\* What is built is a selection of all chunks.
LEMMA BuildSelects ==
    ASSUME NEW S, NEW ranked \in Seq(S),
           \A j, k \in DOMAIN ranked : ranked[j] = ranked[k] => j = k
    PROVE  Build(ranked) \in Selections(ranked, Len(ranked))
<1> DEFINE Reached == [i \in 0..Len(ranked) |-> Selections(ranked, i)]
           steps == [i \in DOMAIN ranked |-> Take(ranked, i)]
           selected == Build(ranked)
<1>1. Len(ranked) \in Nat /\ DOMAIN ranked = 1..Len(ranked)
  OBVIOUS
<1>2. <<>> \in Reached[0]
  <2>1. <<>> \in Seq(ToSet(ranked)) /\ ToSet(<<>>) = {}
    BY DEF ToSet
  <2>2. <<>> \in Selections(ranked, 0)
    BY <2>1 DEF Selections
  <2> QED BY <2>2, <1>1
<1>3. \A i \in 1..Len(ranked) : \A s \in Reached[i - 1] : steps[i][s] \in Reached[i]
  <2> SUFFICES ASSUME NEW i \in 1..Len(ranked), NEW s \in Reached[i - 1]
               PROVE  steps[i][s] \in Reached[i]
    OBVIOUS
  <2>1. i \in 0..Len(ranked) /\ i - 1 \in 0..Len(ranked) /\ i \in DOMAIN ranked
    BY <1>1
  <2>2. s \in Selections(ranked, i - 1)
    BY <2>1
  <2>3. Take(ranked, i)[s] \in Selections(ranked, i)
    BY <2>2, SelectionGrows
  <2> QED BY <2>1, <2>3
<1>4. After(steps, <<>>, Len(ranked)) \in Reached[Len(ranked)]
  <2> HIDE DEF steps, Reached
  <2> QED BY <1>1, <1>2, <1>3, AfterReaches
<1>5. Len(ranked) \in 0..Len(ranked)
  BY <1>1
<1> QED BY <1>4, <1>5 DEF Build

\* Whatever is ranked, each chunk once, the text keeps the budget, and every
\* chunk that is left out did not fit when its turn came.
LEMMA NothingIsLeftOut ==
    ASSUME NEW S, NEW ranked \in Seq(S),
           \A j, k \in DOMAIN ranked : ranked[j] = ranked[k] => j = k
    PROVE  LeavesNothingOut(ranked)
<1> DEFINE selected == Build(ranked)
<1>1. DOMAIN ranked = 1..Len(ranked)
  OBVIOUS
<1>2. selected \in Selections(ranked, Len(ranked))
  BY BuildSelects
<1> HIDE DEF selected
<1>3. /\ selected # <<>> => TokensOf(selected) <= Budget
      /\ \A i \in DOMAIN ranked : Weighed(ranked, selected, i)
  BY <1>1, <1>2 DEF Selections
<1> QED BY <1>3 DEF LeavesNothingOut, selected

-----------------------------------------------------------------------------
(* The runs of chunks.                                                     *)

\* Chunks, as a ranking lists them.
IsRanking(selected) ==
    /\ selected \in Seq(ToSet(selected))
    /\ \A i \in DOMAIN selected : IsChunk(selected[i])
    /\ \A i, j \in DOMAIN selected : selected[i].id = selected[j].id => i = j

\* A set of such chunks.
Chunked(S) ==
    /\ IsFiniteSet(S)
    /\ \A c \in S : IsChunk(c)
    /\ \A c, d \in S : c.id = d.id => c = d

LEMMA ChunksAreRanked ==
    ASSUME NEW selected, IsRanking(selected)
    PROVE  /\ Chunked(ToSet(selected))
           /\ \A i \in DOMAIN selected : selected[i] \in ToSet(selected) /\ RankOf(selected, selected[i]) = i
           /\ \A c \in ToSet(selected) :
                RankOf(selected, c) \in DOMAIN selected /\ selected[RankOf(selected, c)] = c
<1>1. /\ selected \in Seq(ToSet(selected)) /\ DOMAIN selected = 1..Len(selected) /\ Len(selected) \in Nat
      /\ ToSet(selected) = {selected[i] : i \in DOMAIN selected}
  BY DEF IsRanking, ToSet
<1>2. IsFiniteSet(DOMAIN selected)
  BY <1>1, FirstNumbers
<1>3. IsFiniteSet(ToSet(selected))
  BY <1>1, <1>2, ImageIsFinite
<1>4. \A i, j \in DOMAIN selected : selected[i] = selected[j] => i = j
  BY DEF IsRanking
<1>5. \A i \in DOMAIN selected : RankOf(selected, selected[i]) = i
  BY <1>4 DEF RankOf
<1>6. \A c \in ToSet(selected) : \E i \in DOMAIN selected : selected[i] = c
  BY <1>1
<1>7. \A c \in ToSet(selected) :
        RankOf(selected, c) \in DOMAIN selected /\ selected[RankOf(selected, c)] = c
  BY <1>5, <1>6
<1>8. \A c \in ToSet(selected) : IsChunk(c)
  BY <1>6 DEF IsRanking
<1>9. \A c, d \in ToSet(selected) : c.id = d.id => c = d
  BY <1>6 DEF IsRanking
<1>10. \A i \in DOMAIN selected : selected[i] \in ToSet(selected)
  BY <1>1
<1> QED BY <1>3, <1>5, <1>7, <1>8, <1>9, <1>10 DEF Chunked

LEMMA PlacesAreOrder ==
    ASSUME NEW S, Chunked(S)
    PROVE  /\ IsOrder(S, ByPlace(S))
           /\ \A c, d \in S : <<c, d>> \in ByPlace(S) <=> Precedes(c, d)
<1>1. \A c, d \in S : <<c, d>> \in ByPlace(S) <=> Precedes(c, d)
  BY DEF ByPlace
<1>2. \A c \in S : c.doc \in Nat /\ c.heading \in Nat /\ c.index \in Nat /\ c.id \in Nat
  BY DEF Chunked, IsChunk
<1>3. \A c \in S : <<c, c>> \notin ByPlace(S)
  BY <1>1, <1>2 DEF Precedes
<1>4. ASSUME NEW c \in S, NEW d \in S
      PROVE  c = d \/ <<c, d>> \in ByPlace(S) \/ <<d, c>> \in ByPlace(S)
  <2>1. c = d \/ c.id # d.id
    BY DEF Chunked
  <2>2. c = d \/ Precedes(c, d) \/ Precedes(d, c)
    BY <1>2, <2>1 DEF Precedes
  <2> QED BY <1>1, <2>2
<1>5. ASSUME NEW c \in S, NEW d \in S, NEW e \in S,
             <<c, d>> \in ByPlace(S), <<d, e>> \in ByPlace(S)
      PROVE  <<c, e>> \in ByPlace(S)
  <2>1. Precedes(c, d) /\ Precedes(d, e)
    BY <1>1, <1>5
  <2>2. Precedes(c, e)
    BY <1>2, <2>1 DEF Precedes
  <2> QED BY <1>1, <2>2
<1>6. IsOrder(S, ByPlace(S))
  BY <1>3, <1>4, <1>5 DEF IsOrder
<1> QED BY <1>1, <1>6

\* A list of chunks, in order.
Listed(S, placed) ==
    /\ placed \in Seq(S) /\ Len(placed) \in Nat /\ DOMAIN placed = 1..Len(placed)
    /\ \A c \in S : \E i \in 1..Len(placed) : placed[i] = c
    /\ \A i, j \in 1..Len(placed) : placed[i] = placed[j] => i = j
    /\ \A i, j \in 1..Len(placed) : i < j => Precedes(placed[i], placed[j])

LEMMA ChunksAreListed ==
    ASSUME NEW S, Chunked(S)
    PROVE  Listed(S, Ordered(S, ByPlace(S)))
<1> DEFINE placed == Ordered(S, ByPlace(S))
<1>1. IsFiniteSet(S) /\ IsOrder(S, ByPlace(S)) /\ \A c, d \in S : <<c, d>> \in ByPlace(S) <=> Precedes(c, d)
  BY PlacesAreOrder DEF Chunked
<1>2. /\ placed \in Seq(S) /\ Len(placed) = Cardinality(S) /\ Cardinality(S) \in Nat
      /\ \A c \in S : \E i \in 1..Len(placed) : placed[i] = c
      /\ \A i, j \in 1..Len(placed) : placed[i] = placed[j] => i = j
      /\ \A i, j \in 1..Len(placed) : i < j => <<placed[i], placed[j]>> \in ByPlace(S)
  BY <1>1, OrderedLists
<1> HIDE DEF placed
<1>3. DOMAIN placed = 1..Len(placed) /\ \A i \in 1..Len(placed) : placed[i] \in S
  BY <1>2
<1>4. \A i, j \in 1..Len(placed) : i < j => Precedes(placed[i], placed[j])
  BY <1>1, <1>2, <1>3
<1>5. Listed(S, placed)
  BY <1>2, <1>3, <1>4 DEF Listed
<1> QED BY <1>5 DEF placed

\* Every place of a list is in one run, and a run goes on as long as chunks are
\* adjacent.
LEMMA RunsDivide ==
    ASSUME NEW placed, NEW N \in Nat, DOMAIN placed = 1..N
    PROVE  /\ Starts(placed) \subseteq 1..N
           /\ \A i \in Starts(placed) :
                EndOfRun(placed, i) \in i..N /\ \A k \in (i + 1)..EndOfRun(placed, i) : k \notin Starts(placed)
           /\ \A p \in 1..N : \E i \in Starts(placed) : p \in i..EndOfRun(placed, i)
           /\ \A i, j \in Starts(placed), p \in 1..N :
                p \in i..EndOfRun(placed, i) /\ p \in j..EndOfRun(placed, j) => i = j
           /\ \A i \in Starts(placed), q \in 1..N :
                (\A k \in (i + 1)..q : k \notin Starts(placed)) => q <= EndOfRun(placed, i)
<1> DEFINE T == Starts(placed)
           end(i) == EndOfRun(placed, i)
           reach(i) == {j \in 1..N : \A k \in (i + 1)..j : k \notin T}
<1>1. T \subseteq 1..N /\ (N > 0 => 1 \in T)
  BY DEF Starts
<1>2. \A i \in T : end(i) = Max(reach(i))
  BY DEF EndOfRun
<1> HIDE DEF T, end
<1>3. ASSUME NEW i \in T
      PROVE  /\ end(i) \in i..N /\ \A k \in (i + 1)..end(i) : k \notin T
             /\ \A q \in 1..N : (\A k \in (i + 1)..q : k \notin T) => q <= end(i)
  <2>1. i \in 1..N
    BY <1>1
  <2>2. reach(i) \in SUBSET (0..N) /\ i \in reach(i)
    BY <2>1
  <2>3. Max(reach(i)) \in reach(i) /\ \A n \in reach(i) : n <= Max(reach(i))
    <3> HIDE DEF reach
    <3> QED BY <2>2, Largest
  <2>4. end(i) \in reach(i) /\ \A n \in reach(i) : n <= end(i)
    BY <1>2, <2>3
  <2> QED BY <2>1, <2>2, <2>4
<1>4. ASSUME NEW p \in 1..N PROVE \E i \in T : p \in i..end(i)
  <2> DEFINE B == {s \in T : s <= p}
  <2>1. B \in SUBSET (0..N) /\ 1 \in B
    <3>1. N > 0 /\ 1 <= p
      OBVIOUS
    <3>2. 1 \in T
      BY <1>1, <3>1
    <3>3. B \subseteq 1..N
      BY <1>1
    <3> QED BY <3>1, <3>2, <3>3
  <2>2. Max(B) \in B /\ \A n \in B : n <= Max(B)
    <3> HIDE DEF B
    <3> QED BY <2>1, Largest
  <2>3. PICK i \in T : i <= p /\ \A n \in B : n <= i
    BY <2>2
  <2>4. i \in 1..N
    BY <1>1
  <2>5. \A k \in (i + 1)..p : k \notin T
    <3> SUFFICES ASSUME NEW k \in (i + 1)..p, k \in T PROVE FALSE
      OBVIOUS
    <3>1. k \in B
      OBVIOUS
    <3>2. k <= i
      BY <2>3, <3>1
    <3> QED BY <2>4, <3>2
  <2>6. p <= end(i) /\ end(i) \in i..N
    BY <1>3, <2>5
  <2> QED BY <2>3, <2>4, <2>6
<1>5. ASSUME NEW i \in T, NEW j \in T, NEW p \in 1..N, p \in i..end(i), p \in j..end(j)
      PROVE  ~(i < j)
  <2> SUFFICES ASSUME i < j PROVE FALSE
    OBVIOUS
  <2>1. i \in 1..N /\ j \in 1..N /\ end(i) \in i..N /\ \A k \in (i + 1)..end(i) : k \notin T
    BY <1>1, <1>3
  <2>2. j \in (i + 1)..end(i)
    BY <1>5, <2>1
  <2> QED BY <2>1, <2>2
<1>6. ASSUME NEW i \in T, NEW j \in T, NEW p \in 1..N, p \in i..end(i), p \in j..end(j)
      PROVE  i = j
  <2>1. i \in 1..N /\ j \in 1..N
    BY <1>1
  <2>2. ~(i < j) /\ ~(j < i)
    BY <1>5, <1>6
  <2> QED BY <2>1, <2>2
<1>7. /\ \A i \in T : end(i) \in i..N /\ \A k \in (i + 1)..end(i) : k \notin T
      /\ \A i \in T, q \in 1..N : (\A k \in (i + 1)..q : k \notin T) => q <= end(i)
  BY <1>3
<1>8. \A i, j \in T, p \in 1..N : p \in i..end(i) /\ p \in j..end(j) => i = j
  BY <1>6
<1> QED BY <1>1, <1>4, <1>7, <1>8 DEF T, end

\* What chunks of one run have in common, and their numbers on the page.
LEMMA RunGoesOn ==
    ASSUME NEW S, Chunked(S), NEW placed, Listed(S, placed),
           NEW p \in DOMAIN placed, NEW q \in DOMAIN placed, p <= q,
           \A k \in (p + 1)..q : Adjacent(placed[k - 1], placed[k])
    PROVE  \A k \in p..q : /\ placed[k].doc = placed[p].doc /\ placed[k].heading = placed[p].heading
                           /\ placed[k].index = placed[p].index + (k - p)
<1> DEFINE Alike == {n \in 0..(q - p) :
                /\ placed[p + n].doc = placed[p].doc /\ placed[p + n].heading = placed[p].heading
                /\ placed[p + n].index = placed[p].index + n}
<1>1. /\ DOMAIN placed = 1..Len(placed) /\ Len(placed) \in Nat /\ p \in Nat /\ q \in Nat
      /\ \A k \in DOMAIN placed : placed[k] \in S
  BY DEF Listed
<1>2. \A k \in DOMAIN placed : placed[k].index \in Nat
  BY <1>1 DEF Chunked, IsChunk
<1>3. 0 \in Alike
  <2>1. p + 0 = p /\ 0 \in 0..(q - p) /\ placed[p].index + 0 = placed[p].index
    BY <1>1, <1>2
  <2> QED BY <2>1
<1>4. ASSUME NEW n \in 1..(q - p), n - 1 \in Alike PROVE n \in Alike
  <2>1. p + n \in (p + 1)..q /\ (p + n) - 1 = p + (n - 1)
    BY <1>1
  <2>2. Adjacent(placed[p + (n - 1)], placed[p + n])
    BY <2>1
  <2>3. /\ placed[p + (n - 1)].doc = placed[p].doc /\ placed[p + (n - 1)].heading = placed[p].heading
        /\ placed[p + (n - 1)].index = placed[p].index + (n - 1)
    BY <1>4
  <2>4. placed[p + n].doc = placed[p].doc /\ placed[p + n].heading = placed[p].heading
    BY <2>2, <2>3 DEF Adjacent
  <2>5. placed[p + n].index = placed[p].index + (n - 1) + 1
    BY <2>2, <2>3 DEF Adjacent
  <2>6. placed[p + n].index = placed[p].index + n
    BY <1>2, <2>5
  <2>7. n \in 0..(q - p)
    BY <1>1
  <2> QED BY <2>4, <2>6, <2>7
<1>5. q - p \in Nat
  BY <1>1
<1>6. \A n \in 0..(q - p) : n \in Alike
  <2> HIDE DEF Alike
  <2> QED BY <1>3, <1>4, <1>5, UpTo
<1> SUFFICES ASSUME NEW k \in p..q
             PROVE  /\ placed[k].doc = placed[p].doc /\ placed[k].heading = placed[p].heading
                    /\ placed[k].index = placed[p].index + (k - p)
  OBVIOUS
<1>7. k - p \in Alike /\ p + (k - p) = k
  BY <1>1, <1>6
<1> QED BY <1>7

\* The chunks under a heading of a page that come between two of them.
Amid(S, c, d) ==
    {e \in S : e.doc = c.doc /\ e.heading = c.heading /\ c.index <= e.index /\ e.index <= d.index}

\* Two chunks are of one run just if none between them is missing.
LEMMA RunsAreWhole ==
    ASSUME NEW S, Chunked(S), OfOneVersion(S), NEW placed, Listed(S, placed),
           NEW p \in DOMAIN placed, NEW q \in DOMAIN placed, p <= q
    PROVE  (\A k \in (p + 1)..q : Adjacent(placed[k - 1], placed[k]))
           <=> /\ placed[p].doc = placed[q].doc /\ placed[p].heading = placed[q].heading
               /\ {e.index : e \in Amid(S, placed[p], placed[q])} = placed[p].index..placed[q].index
<1> DEFINE c == placed[p]
           d == placed[q]
           Told == {e.index : e \in Amid(S, c, d)}
<1>1. /\ DOMAIN placed = 1..Len(placed) /\ Len(placed) \in Nat /\ p \in Nat /\ q \in Nat
      /\ \A k \in DOMAIN placed : placed[k] \in S
  BY DEF Listed
<1>2. \A e \in S : e.doc \in Nat /\ e.heading \in Nat /\ e.index \in Nat /\ e.id \in Nat
  BY DEF Chunked, IsChunk
<1>3. c \in S /\ d \in S
  BY <1>1
<1>4. ASSUME \A k \in (p + 1)..q : Adjacent(placed[k - 1], placed[k])
      PROVE  c.doc = d.doc /\ c.heading = d.heading /\ Told = c.index..d.index
  <2>1. \A k \in p..q : /\ placed[k].doc = c.doc /\ placed[k].heading = c.heading
                        /\ placed[k].index = c.index + (k - p)
    BY <1>4, RunGoesOn
  <2>2. q \in p..q
    BY <1>1
  <2>3. c.doc = d.doc /\ c.heading = d.heading /\ d.index = c.index + (q - p)
    BY <2>1, <2>2
  <2>4. Told \subseteq c.index..d.index
    BY <1>2, <1>3 DEF Amid
  <2>5. ASSUME NEW m \in c.index..d.index PROVE m \in Told
    <3>1. c.index \in Nat /\ d.index \in Nat /\ m \in Nat
      BY <1>2, <1>3
    <3>2. PICK k \in p..q : k = p + (m - c.index)
      BY <1>1, <2>3, <3>1
    <3>3. k \in DOMAIN placed /\ placed[k] \in S
      BY <1>1
    <3>4. placed[k].index = m
      BY <1>1, <2>1, <3>1, <3>2
    <3>5. placed[k] \in Amid(S, c, d)
      BY <2>1, <3>1, <3>3, <3>4 DEF Amid
    <3> QED BY <3>4, <3>5
  <2> QED BY <2>3, <2>4, <2>5
<1>5. ASSUME c.doc = d.doc, c.heading = d.heading, Told = c.index..d.index, NEW k \in (p + 1)..q
      PROVE  Adjacent(placed[k - 1], placed[k])
  <2> DEFINE x == placed[k - 1]
             y == placed[k]
  <2>1. k \in DOMAIN placed /\ k - 1 \in DOMAIN placed /\ k \in Nat /\ p <= k - 1 /\ k <= q /\ k - 1 < k
    BY <1>1
  <2>2. x \in S /\ y \in S
    BY <1>1, <2>1
  <2>3. \A m \in DOMAIN placed : p <= m /\ m <= q =>
            /\ placed[m].doc = c.doc /\ placed[m].heading = c.heading
            /\ c.index <= placed[m].index /\ placed[m].index <= d.index
    <3> SUFFICES ASSUME NEW m \in DOMAIN placed, p <= m, m <= q
                 PROVE  /\ placed[m].doc = c.doc /\ placed[m].heading = c.heading
                        /\ c.index <= placed[m].index /\ placed[m].index <= d.index
      OBVIOUS
    <3>1. (p = m \/ Precedes(c, placed[m])) /\ (m = q \/ Precedes(placed[m], d))
      BY <1>1 DEF Listed
    <3>2. placed[m] \in S
      BY <1>1
    <3> HIDE DEF c, d
    <3>3. (c = placed[m] \/ Precedes(c, placed[m])) /\ (placed[m] = d \/ Precedes(placed[m], d))
      BY <3>1 DEF c, d
    <3> QED BY <1>2, <1>3, <1>5, <3>2, <3>3 DEF Precedes
  <2>4. /\ x.doc = c.doc /\ x.heading = c.heading /\ c.index <= x.index
        /\ y.doc = c.doc /\ y.heading = c.heading /\ y.index <= d.index
    BY <1>1, <2>1, <2>3
  <2>5. Precedes(x, y) /\ x # y
    BY <2>1 DEF Listed
  <2>6. x.index < y.index
    <3> HIDE DEF x, y
    <3>1. x.index # y.index
      BY <2>2, <2>4, <2>5 DEF OfOneVersion
    <3> QED BY <1>2, <2>2, <2>4, <2>5, <3>1 DEF Precedes
  <2>7. x.index + 1 >= y.index
    <3> SUFFICES ASSUME x.index + 1 < y.index PROVE FALSE
      BY <1>2, <2>2
    <3>1. x.index + 1 \in c.index..d.index
      BY <1>2, <1>3, <2>2, <2>4
    <3>2. PICK e \in Amid(S, c, d) : e.index = x.index + 1
      BY <1>5, <3>1
    <3>3. e \in S /\ e.doc = c.doc /\ e.heading = c.heading
      BY DEF Amid
    <3>4. PICK m \in DOMAIN placed : placed[m] = e
      BY <1>1, <3>3 DEF Listed
    <3>5. ~(m <= k - 1)
      <4> SUFFICES ASSUME m <= k - 1 PROVE FALSE
        OBVIOUS
      <4>1. e = x \/ Precedes(e, x)
        BY <1>1, <2>1, <3>4 DEF Listed
      <4> HIDE DEF x, y
      <4> QED BY <1>2, <2>2, <2>4, <3>2, <3>3, <4>1 DEF Precedes
    <3>6. ~(k <= m)
      <4> SUFFICES ASSUME k <= m PROVE FALSE
        OBVIOUS
      <4>1. e = y \/ Precedes(y, e)
        BY <1>1, <2>1, <3>4 DEF Listed
      <4> HIDE DEF x, y
      <4> QED BY <1>2, <2>2, <2>4, <3>2, <3>3, <4>1 DEF Precedes
    <3> QED BY <1>1, <2>1, <3>5, <3>6
  <2>8. y.index = x.index + 1
    BY <1>2, <2>2, <2>6, <2>7
  <2> QED BY <2>4, <2>8 DEF Adjacent
<1> QED BY <1>4, <1>5

\* A part of a sequence.
LEMMA PartOf ==
    ASSUME NEW S, NEW s \in Seq(S), NEW m \in 1..Len(s), NEW n \in m..Len(s)
    PROVE  /\ SubSeq(s, m, n) \in Seq(S) /\ DOMAIN SubSeq(s, m, n) = 1..(n - m + 1)
           /\ \A k \in 1..(n - m + 1) : SubSeq(s, m, n)[k] = s[m + k - 1]
           /\ ToSet(SubSeq(s, m, n)) = {s[k] : k \in m..n}
<1>1. /\ SubSeq(s, m, n) \in Seq(S) /\ Len(SubSeq(s, m, n)) = n - m + 1
      /\ \A k \in 1..(n - m + 1) : SubSeq(s, m, n)[k] = s[m + k - 1]
  OBVIOUS
<1>2. DOMAIN SubSeq(s, m, n) = 1..(n - m + 1)
  BY <1>1
<1> DEFINE t == SubSeq(s, m, n)
<1>3. ToSet(t) = {t[k] : k \in DOMAIN t}
  BY DEF ToSet
<1>4. \A k \in DOMAIN t : t[k] \in {s[i] : i \in m..n}
  BY <1>1, <1>2
<1>5. \A i \in m..n : i - m + 1 \in DOMAIN t /\ t[i - m + 1] = s[i]
  <2> SUFFICES ASSUME NEW i \in m..n PROVE i - m + 1 \in DOMAIN t /\ t[i - m + 1] = s[i]
    OBVIOUS
  <2>1. i - m + 1 \in 1..(n - m + 1) /\ m + (i - m + 1) - 1 = i
    OBVIOUS
  <2> QED BY <1>1, <1>2, <2>1
<1> HIDE DEF t
<1>6. ToSet(t) = {s[k] : k \in m..n}
  BY <1>3, <1>4, <1>5
<1> QED BY <1>1, <1>2, <1>6 DEF t

\* The groups divide the chunks, and each is a run.
Divided(S, placed, groups) ==
    /\ IsFiniteSet(groups)
    /\ \A g \in groups : g \in Seq(S) /\ g # <<>>
    /\ \A c \in S : \E g \in groups : c \in ToSet(g)
    /\ \A g, h \in groups, c \in S : c \in ToSet(g) /\ c \in ToSet(h) => g = h
    /\ \A p, q \in DOMAIN placed : p <= q =>
        ((\E g \in groups : placed[p] \in ToSet(g) /\ placed[q] \in ToSet(g))
            <=> \A k \in (p + 1)..q : Adjacent(placed[k - 1], placed[k]))
    /\ \A g \in groups : \A n \in DOMAIN g :
        g[n].doc = g[1].doc /\ g[n].index = g[1].index + n - 1

LEMMA GroupsDivide ==
    ASSUME NEW S, Chunked(S), NEW placed, Listed(S, placed)
    PROVE  Divided(S, placed, {SubSeq(placed, i, EndOfRun(placed, i)) : i \in Starts(placed)})
<1> DEFINE N == Len(placed)
           T == Starts(placed)
           end(i) == EndOfRun(placed, i)
           group == [i \in T |-> SubSeq(placed, i, end(i))]
           G == {group[i] : i \in T}
<1>1. N \in Nat /\ placed \in Seq(S) /\ DOMAIN placed = 1..N /\ \A k \in 1..N : placed[k] \in S
  BY DEF Listed
<1>2. /\ T \subseteq 1..N
      /\ \A i \in T : end(i) \in i..N /\ \A k \in (i + 1)..end(i) : k \notin T
      /\ \A p \in 1..N : \E i \in T : p \in i..end(i)
      /\ \A i, j \in T, p \in 1..N : p \in i..end(i) /\ p \in j..end(j) => i = j
      /\ \A i \in T, q \in 1..N : (\A k \in (i + 1)..q : k \notin T) => q <= end(i)
  <2>1. N \in Nat /\ DOMAIN placed = 1..N
    BY <1>1
  <2> QED BY <2>1, RunsDivide
<1>3. \A k \in 1..N : k \in T <=> (k = 1 \/ ~Adjacent(placed[k - 1], placed[k]))
  BY <1>1 DEF Starts
<1>4. G = {SubSeq(placed, i, EndOfRun(placed, i)) : i \in Starts(placed)}
  OBVIOUS
<1>5. \A i \in T : group[i] = SubSeq(placed, i, end(i))
  OBVIOUS
<1>6. DOMAIN group = T
  OBVIOUS
<1> HIDE DEF T, end, group, N
<1>7. ASSUME NEW i \in T
      PROVE  /\ i \in 1..N /\ end(i) \in i..N
             /\ group[i] \in Seq(S) /\ DOMAIN group[i] = 1..(end(i) - i + 1)
             /\ \A k \in 1..(end(i) - i + 1) : group[i][k] = placed[i + k - 1]
             /\ ToSet(group[i]) = {placed[k] : k \in i..end(i)}
  <2>1. i \in 1..N /\ end(i) \in i..N
    BY <1>2
  <2>2. i \in 1..Len(placed) /\ end(i) \in i..Len(placed) /\ placed \in Seq(S)
    BY <1>1, <2>1 DEF N
  <2> DEFINE e == end(i)
             g == SubSeq(placed, i, e)
  <2>3. /\ g \in Seq(S) /\ DOMAIN g = 1..(e - i + 1)
        /\ \A k \in 1..(e - i + 1) : g[k] = placed[i + k - 1]
        /\ ToSet(g) = {placed[k] : k \in i..e}
    <3>1. i \in 1..Len(placed) /\ e \in i..Len(placed) /\ placed \in Seq(S)
      BY <2>2
    <3> HIDE DEF e
    <3> QED BY <3>1, PartOf
  <2>4. group[i] = g
    BY <1>5
  <2> HIDE DEF g
  <2> QED BY <2>1, <2>3, <2>4
<1>8. IsFiniteSet(G)
  <2>1. IsFiniteSet(1..N)
    BY <1>1, FirstNumbers
  <2>2. IsFiniteSet(T)
    BY <1>2, <2>1, FS_Subset
  <2> QED BY <1>6, <2>2, ImageIsFinite
<1>9. ASSUME NEW i \in T PROVE group[i] # <<>>
  <2>1. 1 \in DOMAIN group[i]
    BY <1>1, <1>7
  <2> QED BY <2>1
<1>10. \A i \in T, p \in 1..N : placed[p] \in ToSet(group[i]) <=> p \in i..end(i)
  <2> SUFFICES ASSUME NEW i \in T, NEW p \in 1..N
               PROVE  placed[p] \in ToSet(group[i]) <=> p \in i..end(i)
    OBVIOUS
  <2>1. \A k \in 1..N : placed[k] = placed[p] => k = p
    BY DEF Listed, N
  <2>2. \A k \in i..end(i) : k \in 1..N
    BY <1>1, <1>7
  <2>3. ToSet(group[i]) = {placed[k] : k \in i..end(i)}
    BY <1>7
  <2> QED BY <2>1, <2>2, <2>3
<1>11. \A c \in S : \E p \in 1..N : placed[p] = c
  BY DEF Listed, N
<1>12. ASSUME NEW c \in S PROVE \E g \in G : c \in ToSet(g)
  <2>1. PICK p \in 1..N : placed[p] = c
    BY <1>11
  <2>2. PICK i \in T : p \in i..end(i)
    BY <1>2
  <2> QED BY <1>10, <2>1, <2>2
<1>13. ASSUME NEW i \in T, NEW j \in T, NEW c \in S, c \in ToSet(group[i]), c \in ToSet(group[j])
       PROVE  i = j
  <2>1. PICK p \in 1..N : placed[p] = c
    BY <1>11
  <2>2. p \in i..end(i) /\ p \in j..end(j)
    BY <1>10, <1>13, <2>1
  <2> QED BY <1>2, <2>2
<1>14. ASSUME NEW p \in 1..N, NEW q \in 1..N, p <= q
       PROVE  (\E g \in G : placed[p] \in ToSet(g) /\ placed[q] \in ToSet(g))
                <=> \A k \in (p + 1)..q : Adjacent(placed[k - 1], placed[k])
  <2>1. ASSUME NEW i \in T, placed[p] \in ToSet(group[i]), placed[q] \in ToSet(group[i]),
               NEW k \in (p + 1)..q
        PROVE  Adjacent(placed[k - 1], placed[k])
    <3>1. p \in i..end(i) /\ q \in i..end(i) /\ i \in 1..N /\ end(i) \in i..N
      BY <1>7, <1>10, <2>1
    <3>2. k \in (i + 1)..end(i) /\ k \in 1..N /\ k # 1
      BY <1>1, <3>1
    <3>3. k \notin T
      BY <1>2, <3>2
    <3> QED BY <1>3, <3>2, <3>3
  <2>2. ASSUME \A k \in (p + 1)..q : Adjacent(placed[k - 1], placed[k])
        PROVE  \E g \in G : placed[p] \in ToSet(g) /\ placed[q] \in ToSet(g)
    <3>1. PICK i \in T : p \in i..end(i)
      BY <1>2
    <3>2. i \in 1..N /\ end(i) \in i..N /\ \A k \in (i + 1)..end(i) : k \notin T
      BY <1>2
    <3>3. ASSUME NEW k \in (i + 1)..q PROVE k \notin T
      <4>1. CASE k <= p
        <5>1. k \in (i + 1)..end(i)
          BY <1>1, <3>1, <3>2, <4>1
        <5> QED BY <3>2, <5>1
      <4>2. CASE ~(k <= p)
        <5>1. k \in (p + 1)..q /\ k \in 1..N /\ k # 1
          BY <1>1, <3>2, <4>2
        <5> QED BY <1>3, <2>2, <5>1
      <4> QED BY <4>1, <4>2
    <3>4. q <= end(i)
      BY <1>2, <3>3
    <3>5. q \in i..end(i)
      BY <1>1, <1>14, <3>1, <3>2, <3>4
    <3>6. placed[p] \in ToSet(group[i]) /\ placed[q] \in ToSet(group[i])
      BY <1>10, <3>1, <3>5
    <3> QED BY <3>6
  <2> QED BY <2>1, <2>2
<1>15. ASSUME NEW i \in T, NEW n \in DOMAIN group[i]
       PROVE  group[i][n].doc = group[i][1].doc /\ group[i][n].index = group[i][1].index + n - 1
  <2>1. i \in 1..N /\ end(i) \in i..N /\ n \in 1..(end(i) - i + 1)
    BY <1>7
  <2>2. group[i][n] = placed[i + n - 1] /\ 1 \in 1..(end(i) - i + 1)
    BY <1>1, <1>7, <2>1
  <2>3. group[i][1] = placed[i + 1 - 1] /\ i + 1 - 1 = i
    BY <1>7, <2>1, <2>2
  <2>4. ASSUME NEW k \in (i + 1)..end(i) PROVE k \in 1..N /\ k # 1 /\ k \notin T
    <3>1. k \notin T
      BY <1>2
    <3>2. PICK e \in i..N : e = end(i)
      BY <2>1
    <3>3. k \in (i + 1)..e /\ i \in 1..N
      BY <2>1, <3>2
    <3>4. k \in 1..N /\ k # 1
      BY <1>1, <3>2, <3>3
    <3> QED BY <3>1, <3>4
  <2>5. \A k \in (i + 1)..end(i) : Adjacent(placed[k - 1], placed[k])
    BY <1>3, <2>4
  <2>6. i \in DOMAIN placed /\ end(i) \in DOMAIN placed /\ i <= end(i) /\ i + n - 1 \in i..end(i)
    BY <1>1, <2>1
  <2>7. /\ placed[i + n - 1].doc = placed[i].doc
        /\ placed[i + n - 1].index = placed[i].index + (i + n - 1 - i)
    <3> DEFINE e == end(i)
    <3>1. i \in DOMAIN placed /\ e \in DOMAIN placed /\ i <= e /\ \A k \in (i + 1)..e : Adjacent(placed[k - 1], placed[k])
      BY <2>5, <2>6
    <3> HIDE DEF e
    <3>2. \A k \in i..e : placed[k].doc = placed[i].doc /\ placed[k].index = placed[i].index + (k - i)
      BY <3>1, RunGoesOn
    <3>3. i + n - 1 \in i..e
      BY <2>6 DEF e
    <3>4. PICK m \in i..e : m = i + n - 1
      BY <3>3
    <3>5. placed[m].doc = placed[i].doc /\ placed[m].index = placed[i].index + (m - i)
      BY <3>2
    <3>6. i \in Int /\ n \in Int /\ m - i = i + n - 1 - i
      BY <2>1, <3>4
    <3> QED BY <3>4, <3>5, <3>6
  <2>8. placed[i].index \in Nat
    BY <1>1, <2>6 DEF Chunked, IsChunk
  <2>9. placed[i].index + (i + n - 1 - i) = placed[i].index + n - 1
    BY <2>1, <2>8
  <2> QED BY <2>2, <2>3, <2>7, <2>9
<1>16. \A g \in G : \E i \in T : g = group[i]
  OBVIOUS
<1> HIDE DEF G
<1>17. \A g \in G : g \in Seq(S) /\ g # <<>>
  BY <1>7, <1>9, <1>16
<1>18. \A g, h \in G, c \in S : c \in ToSet(g) /\ c \in ToSet(h) => g = h
  BY <1>13, <1>16
<1>19. \A g \in G : \A n \in DOMAIN g : g[n].doc = g[1].doc /\ g[n].index = g[1].index + n - 1
  BY <1>15, <1>16
<1>20. \A p, q \in DOMAIN placed : p <= q =>
        ((\E g \in G : placed[p] \in ToSet(g) /\ placed[q] \in ToSet(g))
            <=> \A k \in (p + 1)..q : Adjacent(placed[k - 1], placed[k]))
  BY <1>1, <1>14
<1>21. Divided(S, placed, G)
  BY <1>8, <1>12, <1>17, <1>18, <1>19, <1>20 DEF Divided
<1> QED BY <1>4, <1>21

\* The best chunk of a group.
LEMMA BestOfGroup ==
    ASSUME NEW selected, IsRanking(selected), NEW g \in Seq(ToSet(selected)), g # <<>>
    PROVE  /\ FirstRank(selected, g) \in DOMAIN selected
           /\ selected[FirstRank(selected, g)] \in ToSet(g)
           /\ RankOf(selected, selected[FirstRank(selected, g)]) = FirstRank(selected, g)
           /\ \A c \in ToSet(g) : FirstRank(selected, g) <= RankOf(selected, c)
<1> DEFINE S == ToSet(selected)
           T == {RankOf(selected, c) : c \in ToSet(g)}
<1>1. /\ \A i \in DOMAIN selected : selected[i] \in S /\ RankOf(selected, selected[i]) = i
      /\ \A c \in S : RankOf(selected, c) \in DOMAIN selected /\ selected[RankOf(selected, c)] = c
  BY ChunksAreRanked
<1>2. DOMAIN selected = 1..Len(selected) /\ Len(selected) \in Nat
  BY DEF IsRanking
<1>3. ToSet(g) \subseteq S /\ g[1] \in ToSet(g)
  <2>1. ToSet(g) = {g[i] : i \in DOMAIN g} /\ 1 \in DOMAIN g /\ \A i \in DOMAIN g : g[i] \in S
    BY DEF ToSet
  <2> HIDE DEF S
  <2> QED BY <2>1
<1> HIDE DEF S
<1>4. \A c \in ToSet(g) : RankOf(selected, c) \in DOMAIN selected
  BY <1>1, <1>3
<1>5. T \in SUBSET Nat /\ T # {}
  BY <1>2, <1>3, <1>4
<1>6. FirstRank(selected, g) = Min(T)
  BY DEF FirstRank
<1>7. Min(T) \in T /\ \A n \in T : Min(T) <= n
  <2> HIDE DEF T
  <2> QED BY <1>5, LeastIsMin
<1>8. PICK c \in ToSet(g) : FirstRank(selected, g) = RankOf(selected, c)
  BY <1>6, <1>7
<1>9. \A d \in ToSet(g) : FirstRank(selected, g) <= RankOf(selected, d)
  BY <1>6, <1>7
<1>10. c \in S
  BY <1>3
<1>11. FirstRank(selected, g) \in DOMAIN selected /\ selected[FirstRank(selected, g)] = c
  BY <1>1, <1>8, <1>10
<1> QED BY <1>8, <1>9, <1>11

\* The groups are listed in the order of their best chunks.
GroupsListed(selected, groups, raw) ==
    /\ groups \in Seq(raw) /\ DOMAIN groups = 1..Len(groups) /\ Len(groups) \in Nat
    /\ \A g \in raw : \E i \in DOMAIN groups : groups[i] = g
    /\ \A i, j \in DOMAIN groups : groups[i] = groups[j] => i = j
    /\ \A i, j \in DOMAIN groups :
        i < j => FirstRank(selected, groups[i]) < FirstRank(selected, groups[j])

LEMMA GroupsAreListed ==
    ASSUME NEW selected, IsRanking(selected)
    PROVE  /\ GroupsListed(selected, Groups(selected), RawGroups(selected))
           /\ Listed(ToSet(selected), Ordered(ToSet(selected), ByPlace(ToSet(selected))))
           /\ Divided(ToSet(selected), Ordered(ToSet(selected), ByPlace(ToSet(selected))), RawGroups(selected))
<1> DEFINE S == ToSet(selected)
           placed == Ordered(S, ByPlace(S))
           raw == RawGroups(selected)
           before == ByRank(selected, raw)
           groups == Groups(selected)
           first(g) == FirstRank(selected, g)
<1>1. Chunked(S)
  BY ChunksAreRanked
<1>2. Listed(S, placed)
  <2> HIDE DEF S
  <2> QED BY <1>1, ChunksAreListed
<1>3. raw = {SubSeq(placed, i, EndOfRun(placed, i)) : i \in Starts(placed)}
  BY DEF RawGroups
<1>4. Divided(S, placed, raw)
  <2>1. Divided(S, placed, {SubSeq(placed, i, EndOfRun(placed, i)) : i \in Starts(placed)})
    <3> HIDE DEF placed, S
    <3> QED BY <1>1, <1>2, GroupsDivide
  <2> QED BY <1>3, <2>1
<1> HIDE DEF placed
<1>5. groups = Ordered(raw, before)
  BY DEF Groups
<1> HIDE DEF raw, groups
<1>6. IsFiniteSet(raw) /\ \A g \in raw : g \in Seq(ToSet(selected)) /\ g # <<>>
  BY <1>4 DEF Divided
<1>7. ASSUME NEW g \in raw
      PROVE  first(g) \in DOMAIN selected /\ selected[first(g)] \in ToSet(g) /\ selected[first(g)] \in S
  <2>1. first(g) \in DOMAIN selected /\ selected[first(g)] \in ToSet(g)
    BY <1>6, BestOfGroup
  <2>2. \A i \in DOMAIN selected : selected[i] \in S
    BY ChunksAreRanked
  <2> QED BY <2>1, <2>2
<1>8. \A g \in raw : first(g) \in Nat
  <2>1. DOMAIN selected = 1..Len(selected) /\ Len(selected) \in Nat
    BY DEF IsRanking
  <2> QED BY <1>7, <2>1
<1>9. \A g, h \in raw : first(g) = first(h) => g = h
  <2> SUFFICES ASSUME NEW g \in raw, NEW h \in raw, first(g) = first(h) PROVE g = h
    OBVIOUS
  <2>1. selected[first(g)] \in ToSet(g) /\ selected[first(g)] \in ToSet(h) /\ selected[first(g)] \in S
    BY <1>7
  <2> QED BY <1>4, <2>1 DEF Divided
<1> HIDE DEF first
<1>10. \A g, h \in raw : <<g, h>> \in before <=> first(g) < first(h)
  BY DEF ByRank, first
<1> HIDE DEF before
<1>11. IsOrder(raw, before)
  <2>1. \A g \in raw : <<g, g>> \notin before
    BY <1>8, <1>10
  <2>2. ASSUME NEW g \in raw, NEW h \in raw
        PROVE  g = h \/ <<g, h>> \in before \/ <<h, g>> \in before
    <3>1. first(g) \in Nat /\ first(h) \in Nat
      BY <1>8
    <3>2. first(g) = first(h) \/ first(g) < first(h) \/ first(h) < first(g)
      BY <3>1
    <3>3. first(g) = first(h) => g = h
      BY <1>9
    <3> QED BY <1>10, <3>2, <3>3
  <2>3. \A g, h, k \in raw : <<g, h>> \in before /\ <<h, k>> \in before => <<g, k>> \in before
    BY <1>8, <1>10
  <2> QED BY <2>1, <2>2, <2>3 DEF IsOrder
<1>12. /\ groups \in Seq(raw) /\ Len(groups) = Cardinality(raw) /\ Cardinality(raw) \in Nat
       /\ \A g \in raw : \E i \in 1..Len(groups) : groups[i] = g
       /\ \A i, j \in 1..Len(groups) : groups[i] = groups[j] => i = j
       /\ \A i, j \in 1..Len(groups) : i < j => <<groups[i], groups[j]>> \in before
  <2>1. IsFiniteSet(raw)
    BY <1>6
  <2>2. LET list == Ordered(raw, before)
        IN  /\ list \in Seq(raw) /\ Len(list) = Cardinality(raw) /\ Cardinality(raw) \in Nat
            /\ \A x \in raw : \E i \in 1..Len(list) : list[i] = x
            /\ \A i, j \in 1..Len(list) : list[i] = list[j] => i = j
            /\ \A i, j \in 1..Len(list) : i < j => <<list[i], list[j]>> \in before
    BY <1>11, <2>1, OrderedLists
  <2> QED BY <1>5, <2>2
<1>13. DOMAIN groups = 1..Len(groups) /\ \A i \in 1..Len(groups) : groups[i] \in raw
  BY <1>12
<1>14. \A i, j \in 1..Len(groups) : i < j => first(groups[i]) < first(groups[j])
  BY <1>10, <1>12, <1>13
<1>15. GroupsListed(selected, groups, raw)
  BY <1>12, <1>13, <1>14 DEF GroupsListed, first
<1> QED BY <1>2, <1>4, <1>15 DEF S, placed, raw, groups

\* Whatever is selected, the sources are the runs of its chunks.
LEMMA RunsAreCited ==
    ASSUME NEW selected, IsRanking(selected)
    PROVE  CitesRuns(selected)
<1> DEFINE S == ToSet(selected)
           placed == Ordered(S, ByPlace(S))
           raw == RawGroups(selected)
           groups == Groups(selected)
           GroupOf(c) == {i \in DOMAIN groups : c \in ToSet(groups[i])}
           Best(i) == RankOf(selected, Citations(selected)[i])
           Between(c, d) == {e \in S :
               e.doc = c.doc /\ e.heading = c.heading /\ c.index <= e.index /\ e.index <= d.index}
<1>1. GroupsListed(selected, groups, raw) /\ Listed(S, placed) /\ Divided(S, placed, raw)
  BY GroupsAreListed
<1>2. Chunked(S)
  BY ChunksAreRanked
<1>3. Citations(selected) = [i \in DOMAIN groups |-> selected[FirstRank(selected, groups[i])]]
  BY DEF Citations
<1> HIDE DEF placed, raw, groups
<1>4. \A i \in DOMAIN groups : groups[i] \in raw
  BY <1>1 DEF GroupsListed
<1>5. ASSUME NEW i \in DOMAIN groups
      PROVE  /\ Citations(selected)[i] = selected[FirstRank(selected, groups[i])]
             /\ Citations(selected)[i] \in ToSet(groups[i])
             /\ Best(i) = FirstRank(selected, groups[i])
             /\ \A c \in ToSet(groups[i]) : Best(i) <= RankOf(selected, c)
  <2>1. groups[i] \in Seq(ToSet(selected)) /\ groups[i] # <<>>
    BY <1>1, <1>4 DEF Divided
  <2>2. /\ selected[FirstRank(selected, groups[i])] \in ToSet(groups[i])
        /\ RankOf(selected, selected[FirstRank(selected, groups[i])]) = FirstRank(selected, groups[i])
        /\ \A c \in ToSet(groups[i]) : FirstRank(selected, groups[i]) <= RankOf(selected, c)
    BY <2>1, BestOfGroup
  <2>3. Citations(selected)[i] = selected[FirstRank(selected, groups[i])]
    BY <1>3
  <2> QED BY <2>2, <2>3
<1>6. ASSUME NEW c \in S PROVE \E i \in DOMAIN groups : GroupOf(c) = {i}
  <2>1. PICK g \in raw : c \in ToSet(g)
    BY <1>1 DEF Divided
  <2>2. PICK i \in DOMAIN groups : groups[i] = g
    BY <1>1 DEF GroupsListed
  <2>3. \A j \in DOMAIN groups : c \in ToSet(groups[j]) => groups[j] = g
    BY <1>1, <1>4, <2>1 DEF Divided
  <2>4. \A j \in DOMAIN groups : groups[j] = groups[i] => j = i
    BY <1>1 DEF GroupsListed
  <2> QED BY <2>1, <2>2, <2>3, <2>4
<1>7. \A c, d \in S : GroupOf(c) = GroupOf(d) <=> \E g \in raw : c \in ToSet(g) /\ d \in ToSet(g)
  <2> SUFFICES ASSUME NEW c \in S, NEW d \in S
               PROVE  GroupOf(c) = GroupOf(d) <=> \E g \in raw : c \in ToSet(g) /\ d \in ToSet(g)
    OBVIOUS
  <2>1. PICK i \in DOMAIN groups : GroupOf(c) = {i}
    BY <1>6
  <2>2. PICK j \in DOMAIN groups : GroupOf(d) = {j}
    BY <1>6
  <2>3. ASSUME GroupOf(c) = GroupOf(d) PROVE \E g \in raw : c \in ToSet(g) /\ d \in ToSet(g)
    <3>1. i \in GroupOf(c) /\ i \in GroupOf(d)
      BY <2>1, <2>3
    <3>2. c \in ToSet(groups[i]) /\ d \in ToSet(groups[i]) /\ groups[i] \in raw
      BY <1>4, <3>1
    <3> QED BY <3>2
  <2>4. ASSUME NEW g \in raw, c \in ToSet(g), d \in ToSet(g) PROVE GroupOf(c) = GroupOf(d)
    <3>1. PICK k \in DOMAIN groups : groups[k] = g
      BY <1>1 DEF GroupsListed
    <3>2. k \in GroupOf(c) /\ k \in GroupOf(d)
      BY <2>4, <3>1
    <3> HIDE DEF GroupOf
    <3> QED BY <2>1, <2>2, <3>2
  <2> QED BY <2>3, <2>4
<1>8. ASSUME OfOneVersion(S), NEW c \in S, NEW d \in S, c.index <= d.index
      PROVE  GroupOf(c) = GroupOf(d) <=>
                /\ c.doc = d.doc /\ c.heading = d.heading
                /\ {e.index : e \in Between(c, d)} = c.index..d.index
  <2>1. PICK p \in DOMAIN placed : placed[p] = c
    BY <1>1 DEF Listed
  <2>2. PICK q \in DOMAIN placed : placed[q] = d
    BY <1>1 DEF Listed
  <2>3. p \in Nat /\ q \in Nat
    BY <1>1 DEF Listed
  <2>4. CASE p <= q
    <3>1. (\E g \in raw : placed[p] \in ToSet(g) /\ placed[q] \in ToSet(g))
            <=> \A k \in (p + 1)..q : Adjacent(placed[k - 1], placed[k])
      BY <1>1, <2>4 DEF Divided
    <3>2. (\A k \in (p + 1)..q : Adjacent(placed[k - 1], placed[k]))
           <=> /\ placed[p].doc = placed[q].doc /\ placed[p].heading = placed[q].heading
               /\ {e.index : e \in Amid(S, placed[p], placed[q])} = placed[p].index..placed[q].index
      <4> HIDE DEF S
      <4> QED BY <1>1, <1>2, <1>8, <2>4, RunsAreWhole
    <3>3. Amid(S, c, d) = Between(c, d)
      BY DEF Amid
    <3> HIDE DEF S, GroupOf, Between
    <3> QED BY <1>7, <2>1, <2>2, <3>1, <3>2, <3>3
  <2>5. CASE ~(p <= q)
    <3>1. q < p /\ q <= p
      BY <2>3, <2>5
    <3>2. Precedes(d, c) /\ c # d
      <4>1. Precedes(placed[q], placed[p]) /\ placed[q] # placed[p]
        BY <1>1, <2>3, <3>1 DEF Listed
      <4> QED BY <2>1, <2>2, <4>1
    <3>3. c.doc \in Nat /\ c.heading \in Nat /\ c.index \in Nat /\ d.doc \in Nat /\ d.heading \in Nat /\ d.index \in Nat
      BY <1>2 DEF Chunked, IsChunk
    <3>4. ~(c.doc = d.doc /\ c.index = d.index)
      BY <1>8, <3>2 DEF OfOneVersion
    <3>5. ~(c.doc = d.doc /\ c.heading = d.heading)
      BY <1>8, <3>2, <3>3, <3>4 DEF Precedes
    <3>6. (\E g \in raw : placed[q] \in ToSet(g) /\ placed[p] \in ToSet(g))
            <=> \A k \in (q + 1)..p : Adjacent(placed[k - 1], placed[k])
      BY <1>1, <3>1 DEF Divided
    <3>7. (\A k \in (q + 1)..p : Adjacent(placed[k - 1], placed[k]))
           => placed[q].doc = placed[p].doc /\ placed[q].heading = placed[p].heading
      <4> HIDE DEF S
      <4> QED BY <1>1, <1>2, <1>8, <3>1, RunsAreWhole
    <3> HIDE DEF S, GroupOf, Between
    <3>8. GroupOf(c) # GroupOf(d)
      BY <1>7, <2>1, <2>2, <3>5, <3>6, <3>7
    <3> QED BY <3>5, <3>8
  <2> QED BY <2>4, <2>5
<1>9. ASSUME NEW i \in DOMAIN groups
      PROVE  /\ \A j \in DOMAIN groups : i < j => Best(i) < Best(j)
             /\ \A n \in DOMAIN groups[i] : groups[i][n].index = groups[i][1].index + n - 1
  <2>1. \A j \in DOMAIN groups : i < j => FirstRank(selected, groups[i]) < FirstRank(selected, groups[j])
    BY <1>1 DEF GroupsListed
  <2>2. \A j \in DOMAIN groups : Best(j) = FirstRank(selected, groups[j])
    BY <1>5
  <2>3. \A n \in DOMAIN groups[i] : groups[i][n].index = groups[i][1].index + n - 1
    BY <1>1, <1>4 DEF Divided
  <2> HIDE DEF Best
  <2> QED BY <2>1, <2>2, <2>3
<1> HIDE DEF S, GroupOf, Best, Between
<1>10. \A i \in DOMAIN groups :
        /\ Citations(selected)[i] \in ToSet(groups[i])
        /\ \A c \in ToSet(groups[i]) : Best(i) <= RankOf(selected, c)
        /\ \A j \in DOMAIN groups : i < j => Best(i) < Best(j)
        /\ \A n \in DOMAIN groups[i] : groups[i][n].index = groups[i][1].index + n - 1
  BY <1>5, <1>9
<1> QED BY <1>6, <1>8, <1>10 DEF CitesRuns, S, groups, GroupOf, Best, Between

-----------------------------------------------------------------------------
(* The pages of ranked chunks.                                             *)

PagesOf(ranked) == {ranked[i].doc : i \in DOMAIN ranked}

ByFirst(ranked) ==
    {e \in PagesOf(ranked) \X PagesOf(ranked) : FirstOn(ranked, e[1]) < FirstOn(ranked, e[2])}

\* A page comes first where its best chunk is.
LEMMA PageComesFirst ==
    ASSUME NEW ranked, NEW N \in Nat, DOMAIN ranked = 1..N, NEW d \in PagesOf(ranked)
    PROVE  /\ FirstOn(ranked, d) \in 1..N /\ ranked[FirstOn(ranked, d)].doc = d
           /\ \A i \in 1..N : ranked[i].doc = d => FirstOn(ranked, d) <= i
<1> DEFINE T == {i \in DOMAIN ranked : ranked[i].doc = d}
<1>1. T \in SUBSET Nat /\ T # {}
  BY DEF PagesOf
<1>2. FirstOn(ranked, d) = Min(T)
  BY DEF FirstOn
<1>3. Min(T) \in T /\ \A n \in T : Min(T) <= n
  <2> HIDE DEF T
  <2> QED BY <1>1, LeastIsMin
<1> QED BY <1>2, <1>3

LEMMA PagesAreOrdered ==
    ASSUME NEW ranked, NEW N \in Nat, DOMAIN ranked = 1..N
    PROVE  /\ IsFiniteSet(PagesOf(ranked)) /\ IsOrder(PagesOf(ranked), ByFirst(ranked))
           /\ \A d, e \in PagesOf(ranked) :
                <<d, e>> \in ByFirst(ranked) <=> FirstOn(ranked, d) < FirstOn(ranked, e)
<1> DEFINE P == PagesOf(ranked)
           before == ByFirst(ranked)
           first == [d \in P |-> FirstOn(ranked, d)]
           docs == [i \in 1..N |-> ranked[i].doc]
<1>1. IsFiniteSet(1..N)
  BY FirstNumbers
<1>2. IsFiniteSet(P)
  <2>1. P = {docs[i] : i \in 1..N}
    BY DEF PagesOf
  <2>2. DOMAIN docs = 1..N
    OBVIOUS
  <2> HIDE DEF docs, P
  <2> QED BY <1>1, <2>1, <2>2, ImageIsFinite
<1>3. \A d, e \in P : <<d, e>> \in before <=> first[d] < first[e]
  BY DEF ByFirst
<1>4. \A d \in P : first[d] \in Nat /\ ranked[first[d]].doc = d
  BY PageComesFirst
<1>5. \A d, e \in P : first[d] = first[e] => d = e
  BY <1>4
<1>6. \A d, e \in P : <<d, e>> \in before <=> FirstOn(ranked, d) < FirstOn(ranked, e)
  BY <1>3
<1> HIDE DEF P, before, first
<1>7. \A d \in P : <<d, d>> \notin before
  BY <1>3, <1>4
<1>8. ASSUME NEW d \in P, NEW e \in P PROVE d = e \/ <<d, e>> \in before \/ <<e, d>> \in before
  <2>1. first[d] \in Nat /\ first[e] \in Nat
    BY <1>4
  <2>2. first[d] = first[e] \/ first[d] < first[e] \/ first[e] < first[d]
    BY <2>1
  <2> QED BY <1>3, <1>5, <2>2
<1>9. \A d, e, f \in P : <<d, e>> \in before /\ <<e, f>> \in before => <<d, f>> \in before
  BY <1>3, <1>4
<1>10. IsOrder(P, before)
  BY <1>7, <1>8, <1>9 DEF IsOrder
<1> QED BY <1>2, <1>6, <1>10 DEF P, before

\* The sources name the same pages as the chunks, in the same order.
LEMMA PagesAreTold ==
    ASSUME NEW selected, IsRanking(selected), NEW limit
    PROVE  TopSources(Citations(selected), limit) = TopSources(selected, limit)
<1> DEFINE S == ToSet(selected)
           placed == Ordered(S, ByPlace(S))
           raw == RawGroups(selected)
           groups == Groups(selected)
           cited == Citations(selected)
           best == [i \in DOMAIN groups |-> FirstRank(selected, groups[i])]
           N == Len(selected)
           M == Len(groups)
<1>1. GroupsListed(selected, groups, raw) /\ Divided(S, placed, raw)
  BY GroupsAreListed
<1>2. DOMAIN selected = 1..N /\ N \in Nat
  BY DEF IsRanking
<1>3. cited = [i \in DOMAIN groups |-> selected[best[i]]]
  BY DEF Citations
<1>4. /\ \A i \in DOMAIN selected : selected[i] \in S /\ RankOf(selected, selected[i]) = i
      /\ \A c \in S : RankOf(selected, c) \in DOMAIN selected /\ selected[RankOf(selected, c)] = c
  BY ChunksAreRanked
<1>5. \A i \in DOMAIN groups : best[i] = FirstRank(selected, groups[i])
  OBVIOUS
<1> HIDE DEF placed, raw, groups, cited, best
<1>6. DOMAIN groups = 1..M /\ M \in Nat /\ \A i \in 1..M : groups[i] \in raw
  BY <1>1 DEF GroupsListed
<1>7. ASSUME NEW i \in 1..M
      PROVE  /\ best[i] \in 1..N /\ selected[best[i]] \in ToSet(groups[i]) /\ selected[best[i]] \in S
             /\ \A c \in ToSet(groups[i]) : best[i] <= RankOf(selected, c)
  <2>1. groups[i] \in Seq(ToSet(selected)) /\ groups[i] # <<>>
    BY <1>1, <1>6 DEF Divided
  <2>2. /\ FirstRank(selected, groups[i]) \in DOMAIN selected
        /\ selected[FirstRank(selected, groups[i])] \in ToSet(groups[i])
        /\ \A c \in ToSet(groups[i]) : FirstRank(selected, groups[i]) <= RankOf(selected, c)
    BY <2>1, BestOfGroup
  <2>3. best[i] = FirstRank(selected, groups[i])
    BY <1>5, <1>6
  <2> HIDE DEF S
  <2> QED BY <1>2, <1>4, <2>2, <2>3
<1>8. \A i, j \in 1..M : i < j => best[i] < best[j]
  BY <1>1, <1>5, <1>6 DEF GroupsListed
<1>9. DOMAIN cited = 1..M /\ \A i \in 1..M : cited[i] = selected[best[i]]
  BY <1>3, <1>6
<1>10. ASSUME NEW g \in raw, NEW c \in ToSet(g), NEW d \in ToSet(g) PROVE c.doc = d.doc
  <2>1. \A n \in DOMAIN g : g[n].doc = g[1].doc
    BY <1>1 DEF Divided
  <2>2. ToSet(g) = {g[n] : n \in DOMAIN g}
    BY DEF ToSet
  <2> QED BY <2>1, <2>2
<1> HIDE DEF N, M
<1>11. ASSUME NEW d \in PagesOf(selected)
       PROVE  d \in PagesOf(cited) /\ FirstOn(cited, d) \in 1..M /\ best[FirstOn(cited, d)] = FirstOn(selected, d)
  <2> DEFINE r == FirstOn(selected, d)
             c == selected[r]
  <2>1. r \in 1..N /\ c.doc = d /\ \A i \in 1..N : selected[i].doc = d => r <= i
    BY <1>2, PageComesFirst
  <2> HIDE DEF r
  <2>2. c \in S /\ RankOf(selected, c) = r
    BY <1>2, <1>4, <2>1
  <2> HIDE DEF c
  <2>3. PICK g \in raw : c \in ToSet(g)
    BY <1>1, <2>2 DEF Divided
  <2>4. PICK i \in 1..M : groups[i] = g
    BY <1>1, <1>6 DEF GroupsListed
  <2>5. best[i] \in 1..N /\ selected[best[i]] \in ToSet(g) /\ best[i] <= r
    BY <1>7, <2>2, <2>3, <2>4
  <2>6. selected[best[i]].doc = d
    <3>1. selected[best[i]].doc = c.doc
      BY <1>10, <2>3, <2>5
    <3> QED BY <2>1, <3>1
  <2>7. best[i] = r
    <3>1. r <= best[i]
      BY <2>1, <2>5, <2>6
    <3> QED BY <1>2, <2>1, <2>5, <3>1
  <2>8. cited[i].doc = d
    BY <1>9, <2>6
  <2>9. d \in PagesOf(cited)
    BY <1>9, <2>8 DEF PagesOf
  <2> DEFINE k == FirstOn(cited, d)
  <2>10. k \in 1..M /\ cited[k].doc = d /\ k <= i
    BY <1>6, <1>9, <2>8, <2>9, PageComesFirst
  <2> HIDE DEF k
  <2>11. best[k] \in 1..N /\ selected[best[k]].doc = d
    BY <1>7, <1>9, <2>10
  <2>12. r <= best[k]
    BY <2>1, <2>11
  <2>13. k = i
    <3>1. ~(k < i)
      <4>1. k < i => best[k] < best[i]
        BY <1>8, <2>10
      <4> QED BY <1>2, <2>1, <2>7, <2>11, <2>12, <4>1
    <3> QED BY <1>6, <2>10, <3>1
  <2> QED BY <2>7, <2>9, <2>10, <2>13 DEF k, r
<1>12. ASSUME NEW d \in PagesOf(cited) PROVE d \in PagesOf(selected)
  <2>1. PICK i \in 1..M : cited[i].doc = d
    BY <1>9 DEF PagesOf
  <2>2. best[i] \in DOMAIN selected /\ selected[best[i]].doc = d
    BY <1>2, <1>7, <1>9, <2>1
  <2> QED BY <2>2 DEF PagesOf
<1>13. PagesOf(cited) = PagesOf(selected)
  BY <1>11, <1>12
<1>14. ASSUME NEW d \in PagesOf(selected), NEW e \in PagesOf(selected)
       PROVE  FirstOn(cited, d) < FirstOn(cited, e) <=> FirstOn(selected, d) < FirstOn(selected, e)
  <2> DEFINE k == FirstOn(cited, d)
             m == FirstOn(cited, e)
  <2>1. /\ k \in 1..M /\ best[k] = FirstOn(selected, d)
        /\ m \in 1..M /\ best[m] = FirstOn(selected, e)
    BY <1>11
  <2> HIDE DEF k, m
  <2>2. k < m => best[k] < best[m]
    BY <1>8, <2>1
  <2>3. m < k => best[m] < best[k]
    BY <1>8, <2>1
  <2>4. best[k] \in Nat /\ best[m] \in Nat /\ k \in Nat /\ m \in Nat
    BY <1>6, <1>7, <2>1
  <2>5. k < m <=> best[k] < best[m]
    BY <2>2, <2>3, <2>4
  <2> QED BY <2>1, <2>5 DEF k, m
<1>15. ByFirst(cited) = ByFirst(selected)
  BY <1>13, <1>14 DEF ByFirst
<1>16. \A q : TopSources(q, limit) =
            SubSeq(Ordered(PagesOf(q), ByFirst(q)), 1, Min({limit, Len(Ordered(PagesOf(q), ByFirst(q)))}))
  BY DEF TopSources, PagesOf, ByFirst
<1> QED BY <1>13, <1>15, <1>16 DEF cited

\* The first relevant page is no further down than the chunk it is for.
LEMMA RelevantIsFound ==
    ASSUME NEW ranked, NEW N \in Nat, DOMAIN ranked = 1..N,
           NEW limit \in Nat, NEW i \in 1..N, i <= limit
    PROVE  FirstRelevantRank({ranked[i].doc}, TopSources(ranked, limit)) \in 1..i
<1> DEFINE P == PagesOf(ranked)
           before == ByFirst(ranked)
           list == Ordered(P, before)
           d == ranked[i].doc
           top == SubSeq(list, 1, Min({limit, Len(list)}))
<1>1. TopSources(ranked, limit) = top
  BY DEF TopSources, PagesOf, ByFirst
<1>2. IsFiniteSet(P) /\ IsOrder(P, before)
  BY PagesAreOrdered
<1>3. \A e, f \in P : <<e, f>> \in before <=> FirstOn(ranked, e) < FirstOn(ranked, f)
  BY PagesAreOrdered
<1>4. d \in P
  BY DEF PagesOf
<1>5. \A e \in P : FirstOn(ranked, e) \in 1..N
  BY PageComesFirst
<1>6. FirstOn(ranked, d) <= i
  BY <1>4, PageComesFirst
<1> HIDE DEF P, before
<1>7. /\ list \in Seq(P) /\ \A x \in P : \E j \in 1..Len(list) : list[j] = x
      /\ \A j, k \in 1..Len(list) : j < k => <<list[j], list[k]>> \in before
  BY <1>2, OrderedLists
<1> HIDE DEF list, d
<1>8. DOMAIN list = 1..Len(list) /\ Len(list) \in Nat /\ \A j \in 1..Len(list) : list[j] \in P
  BY <1>7
<1>9. PICK k \in 1..Len(list) : list[k] = d
  BY <1>4, <1>7
<1> DEFINE place == [j \in 1..Len(list) |-> FirstOn(ranked, list[j])]
           Past == {n \in 0..Len(list) : n = 0 \/ n <= place[n]}
<1>10. \A j \in 1..Len(list) : place[j] \in 1..N
  BY <1>5, <1>8
<1>11. \A j, m \in 1..Len(list) : j < m => place[j] < place[m]
  BY <1>3, <1>7, <1>8
<1>12. place[k] <= i
  BY <1>6, <1>9
<1> HIDE DEF place
<1>13. \A n \in 0..Len(list) : n \in Past
  <2>1. 0 \in Past
    BY <1>8
  <2>2. ASSUME NEW n \in 1..Len(list), n - 1 \in Past PROVE n \in Past
    <3>1. CASE n = 1
      BY <1>10, <3>1
    <3>2. CASE n # 1
      <4>1. n - 1 \in 1..Len(list) /\ n - 1 < n
        BY <1>8, <3>2
      <4>2. place[n - 1] < place[n] /\ n - 1 <= place[n - 1]
        BY <1>11, <2>2, <4>1
      <4>3. place[n - 1] \in Nat /\ place[n] \in Nat
        BY <1>10, <4>1
      <4> QED BY <4>2, <4>3
    <3> QED BY <3>1, <3>2
  <2> HIDE DEF Past
  <2> QED BY <1>8, <2>1, <2>2, UpTo
<1>14. k <= i
  <2>1. k \in Past /\ k # 0
    BY <1>8, <1>13
  <2>2. k <= place[k] /\ place[k] \in Nat
    BY <1>10, <2>1
  <2> QED BY <1>12, <2>2
<1> DEFINE n == Min({limit, Len(list)})
<1>15. n \in Nat /\ k <= n /\ n <= Len(list)
  <2>1. {limit, Len(list)} \in SUBSET Nat /\ {limit, Len(list)} # {}
    BY <1>8
  <2>2. Min({limit, Len(list)}) \in {limit, Len(list)} /\ \A m \in {limit, Len(list)} : Min({limit, Len(list)}) <= m
    BY <2>1, LeastIsMin
  <2> QED BY <1>8, <1>14, <2>2
<1>16. top = SubSeq(list, 1, n)
  OBVIOUS
<1> HIDE DEF n, top
<1>17. DOMAIN top = 1..n /\ k \in DOMAIN top /\ top[k] = d
  <2>1. DOMAIN top = 1..n /\ \A j \in 1..n : top[j] = list[j]
    BY <1>7, <1>8, <1>15, <1>16
  <2> QED BY <1>9, <1>15, <2>1
<1> DEFINE ranks == {j \in DOMAIN top : top[j] \in {d}}
<1>18. FirstRelevantRank({d}, top) = IF ranks = {} THEN 0 ELSE Min(ranks)
  BY DEF FirstRelevantRank
<1>19. ranks \in SUBSET Nat /\ k \in ranks
  BY <1>17
<1>20. ranks \subseteq 1..n
  BY <1>17
<1>21. Min(ranks) \in ranks /\ Min(ranks) <= k
  <2> HIDE DEF ranks
  <2> QED BY <1>19, LeastIsMin
<1> HIDE DEF ranks
<1>22. Min(ranks) \in 1..i
  <2>1. PICK m \in 1..n : m = Min(ranks)
    BY <1>20, <1>21
  <2>2. m <= k /\ k <= i /\ 1 <= m /\ m \in Int
    BY <1>14, <1>21, <2>1
  <2>3. m \in 1..i
    BY <1>8, <2>2
  <2> QED BY <2>1, <2>3
<1>23. FirstRelevantRank({d}, top) = Min(ranks)
  <2>1. ranks # {}
    BY <1>19
  <2> QED BY <1>18, <2>1
<1>24. FirstRelevantRank({d}, TopSources(ranked, limit)) \in 1..i
  BY <1>1, <1>22, <1>23
<1> QED BY <1>24 DEF d

\* What is built of a ranking is one.
LEMMA BuildIsRanking ==
    ASSUME NEW ranked, IsRanking(ranked)
    PROVE  IsRanking(Build(ranked))
<1> DEFINE s == Build(ranked)
<1>1. /\ ranked \in Seq(ToSet(ranked)) /\ DOMAIN ranked = 1..Len(ranked)
      /\ \A j, k \in DOMAIN ranked : ranked[j] = ranked[k] => j = k
  BY DEF IsRanking
<1>2. s \in Selections(ranked, Len(ranked))
  BY <1>1, BuildSelects
<1> HIDE DEF s
<1>3. /\ s \in Seq(ToSet(ranked))
      /\ \A m, n \in DOMAIN s : s[m] = s[n] => m = n
  BY <1>2 DEF Selections
<1>4. Chunked(ToSet(ranked))
  BY ChunksAreRanked
<1>5. \A m \in DOMAIN s : s[m] \in ToSet(ranked)
  BY <1>3
<1>6. \A m, n \in DOMAIN s : s[m].id = s[n].id => m = n
  BY <1>3, <1>4, <1>5 DEF Chunked
<1>7. \A m \in DOMAIN s : IsChunk(s[m])
  BY <1>4, <1>5 DEF Chunked
<1>8. s \in Seq(ToSet(s))
  <2>1. s \in [1..Len(s) -> ToSet(s)] /\ Len(s) \in Nat
    BY <1>3 DEF ToSet
  <2> QED BY <2>1
<1> QED BY <1>6, <1>7, <1>8 DEF IsRanking, s

-----------------------------------------------------------------------------
(* The budget of a workspace context.                                      *)

\* The tokens of a context are those of the header and of every block.
LEMMA TokensAdd ==
    ASSUME NEW S, \A x \in S : x.unit.size \in Nat, NEW s \in Seq(S), NEW x \in S
    PROVE  /\ TokensUsed(s) \in Nat
           /\ TokensUsed(Append(s, x)) = TokensUsed(s) + x.unit.size
<1> DEFINE size == [y \in S |-> y.unit.size]
           t == Append(s, x)
<1>1. \A y \in S : size[y] = y.unit.size /\ size[y] \in Nat
  OBVIOUS
<1>2. t \in Seq(S) /\ HeaderTokens \in Nat
  BY WorkspaceAssumption
<1> HIDE DEF size, t
<1>3. ASSUME NEW p \in Seq(S) PROVE TokensUsed(p) = Total(HeaderTokens, Sizes(size, p))
  <2>1. \A i \in DOMAIN p : p[i] \in S
    OBVIOUS
  <2>2. [i \in DOMAIN p |-> p[i].unit.size] = Sizes(size, p)
    BY <1>1, <2>1 DEF Sizes
  <2> QED BY <2>2 DEF TokensUsed
<1>4. Sizes(size, s) \in Seq(Nat) /\ Sizes(size, t) = Append(Sizes(size, s), size[x])
  BY <1>1, SizesAppended DEF t
<1>5. /\ Total(HeaderTokens, Sizes(size, s)) \in Nat
      /\ Total(HeaderTokens, Append(Sizes(size, s), size[x])) = Total(HeaderTokens, Sizes(size, s)) + size[x]
  BY <1>1, <1>2, <1>4, TotalAdds
<1>6. TokensUsed(s) \in Nat /\ TokensUsed(t) = TokensUsed(s) + x.unit.size
  BY <1>1, <1>2, <1>3, <1>4, <1>5
<1> QED BY <1>6 DEF t

\* What may be selected of the first i units of a plan.
Fitted(plan, i) ==
    {s \in Seq(ToSet(plan)) :
        /\ Len(s) <= UnitLimit
        /\ s # <<>> => TokensUsed(s) <= TokenLimit
        /\ \A j \in 1..i : \/ plan[j] \in ToSet(s)
                           \/ Len(s) = UnitLimit
                           \/ TokensUsed(Append(s, plan[j])) > TokenLimit}

\* Taking a unit, or skipping it, keeps to what may be selected: what did not
\* fit before fits even less with one more.
LEMMA FittedGrows ==
    ASSUME NEW S, \A x \in S : x.unit.size \in Nat, NEW plan \in Seq(S),
           NEW i \in 1..Len(plan), NEW s \in Fitted(plan, i - 1)
    PROVE  FitUnit(plan, i)[s] \in Fitted(plan, i)
<1> DEFINE R == ToSet(plan)
           x == plan[i]
           t == Append(s, x)
           new == FitUnit(plan, i)[s]
           fits == ~ (Len(s) >= UnitLimit \/ TokensUsed(t) > TokenLimit)
<1>1. DOMAIN plan = 1..Len(plan) /\ Len(plan) \in Nat /\ UnitLimit \in Nat \ {0} /\ TokenLimit \in Nat
  BY WorkspaceAssumption
<1>2. /\ s \in Seq(R)
      /\ Len(s) <= UnitLimit
      /\ s # <<>> => TokensUsed(s) <= TokenLimit
      /\ \A j \in 1..(i - 1) : \/ plan[j] \in ToSet(s)
                               \/ Len(s) = UnitLimit
                               \/ TokensUsed(Append(s, plan[j])) > TokenLimit
  BY DEF Fitted
<1>3. \A j \in 1..i : plan[j] \in R
  BY <1>1 DEF ToSet
<1>4. \A y \in R : y.unit.size \in Nat
  BY <1>1 DEF ToSet
<1>5. x \in R
  BY <1>3
<1>6. new = IF fits THEN t ELSE s
  BY <1>2 DEF FitUnit
<1>7. ToSet(t) = ToSet(s) \cup {x} /\ t \in Seq(R) /\ Len(t) = Len(s) + 1
  <2> HIDE DEF R, x
  <2> QED BY <1>2, <1>5, Beginnings
<1>8. Len(s) \in Nat
  BY <1>2
<1>9. CASE fits
  <2>1. Len(s) < UnitLimit /\ TokensUsed(t) <= TokenLimit
    <3>1. TokensUsed(t) \in Nat
      <4> HIDE DEF R, x, t
      <4> QED BY <1>4, <1>5, <1>7, TokensAdd
    <3> HIDE DEF t
    <3> QED BY <1>1, <1>8, <1>9, <3>1
  <2>2. ASSUME NEW j \in 1..i, plan[j] \notin ToSet(t)
        PROVE  TokensUsed(Append(t, plan[j])) > TokenLimit
    <3> DEFINE y == plan[j]
    <3>1. y # x /\ y \notin ToSet(s)
      <4> HIDE DEF t, x
      <4> QED BY <1>7, <2>2
    <3>2. j \in 1..(i - 1)
      BY <3>1
    <3>3. TokensUsed(Append(s, y)) > TokenLimit
      <4>1. Len(s) # UnitLimit
        BY <2>1, <1>1, <1>8
      <4> QED BY <1>2, <3>1, <3>2, <4>1
    <3>4. y \in R
      BY <1>3
    <3> HIDE DEF R, x, t, y
    <3>5. TokensUsed(s) \in Nat /\ TokensUsed(Append(s, y)) = TokensUsed(s) + y.unit.size
      BY <1>2, <1>4, <3>4, TokensAdd
    <3>6. TokensUsed(t) = TokensUsed(s) + x.unit.size
      BY <1>2, <1>4, <1>5, TokensAdd DEF t
    <3>7. TokensUsed(Append(t, y)) = TokensUsed(t) + y.unit.size
      BY <1>4, <1>7, <3>4, TokensAdd
    <3>8. x.unit.size \in Nat /\ y.unit.size \in Nat
      BY <1>4, <1>5, <3>4
    <3>9. PICK a, b, c \in Nat : a = TokensUsed(s) /\ b = x.unit.size /\ c = y.unit.size
      BY <3>5, <3>8
    <3>10. a + c > TokenLimit
      BY <3>3, <3>5, <3>9
    <3>11. TokensUsed(Append(t, y)) = (a + b) + c
      BY <3>6, <3>7, <3>9
    <3>12. TokenLimit \in Nat
      BY <1>1
    <3>13. (a + b) + c > TokenLimit
      BY <3>10, <3>12
    <3> QED BY <3>11, <3>13 DEF y
  <2>3. Len(t) <= UnitLimit
    <3> HIDE DEF t
    <3> QED BY <1>1, <1>7, <1>8, <2>1
  <2>4. t \in Fitted(plan, i)
    <3> HIDE DEF t
    <3> QED BY <1>7, <2>1, <2>2, <2>3 DEF Fitted
  <2>5. new = t
    BY <1>6, <1>9
  <2> QED BY <2>4, <2>5
<1>10. CASE ~ fits
  <2>1. Len(s) = UnitLimit \/ TokensUsed(t) > TokenLimit
    BY <1>1, <1>2, <1>8, <1>10
  <2>2. \A j \in 1..i : \/ plan[j] \in ToSet(s)
                        \/ Len(s) = UnitLimit
                        \/ TokensUsed(Append(s, plan[j])) > TokenLimit
    <3> SUFFICES ASSUME NEW j \in 1..i, plan[j] \notin ToSet(s), Len(s) # UnitLimit
                 PROVE  TokensUsed(Append(s, plan[j])) > TokenLimit
      OBVIOUS
    <3>1. CASE j = i
      BY <2>1, <3>1
    <3>2. CASE j # i
      <4>1. j \in 1..(i - 1)
        BY <3>2
      <4> QED BY <4>1, <1>2
    <3> QED BY <3>1, <3>2
  <2>3. s \in Fitted(plan, i)
    BY <1>2, <2>2 DEF Fitted
  <2>4. new = s
    BY <1>6, <1>10
  <2> QED BY <2>3, <2>4
<1> QED BY <1>9, <1>10

\* Whatever the plan, and whatever the sizes of its units, the context keeps
\* its budgets, and what is left out would not fit even at the end.
THEOREM WorkspaceIsAlwaysUsed ==
    ASSUME NEW S, \A x \in S : x.unit.size \in Nat, NEW plan \in Seq(S)
    PROVE  LeavesNoUnitOut(plan)
<1> DEFINE Reached == [i \in 0..Len(plan) |-> Fitted(plan, i)]
           steps == [i \in DOMAIN plan |-> FitUnit(plan, i)]
           selected == FitUnits(plan)
<1>1. Len(plan) \in Nat /\ DOMAIN plan = 1..Len(plan)
  OBVIOUS
<1>2. <<>> \in Reached[0]
  <2>1. <<>> \in Seq(ToSet(plan)) /\ Len(<<>>) <= UnitLimit
    BY WorkspaceAssumption
  <2>2. <<>> \in Fitted(plan, 0)
    BY <2>1 DEF Fitted
  <2> QED BY <2>2, <1>1
<1>3. \A i \in 1..Len(plan) : \A s \in Reached[i - 1] : steps[i][s] \in Reached[i]
  <2> SUFFICES ASSUME NEW i \in 1..Len(plan), NEW s \in Reached[i - 1]
               PROVE  steps[i][s] \in Reached[i]
    OBVIOUS
  <2>1. i \in 0..Len(plan) /\ i - 1 \in 0..Len(plan) /\ i \in DOMAIN plan
    BY <1>1
  <2>2. s \in Fitted(plan, i - 1)
    BY <2>1
  <2>3. FitUnit(plan, i)[s] \in Fitted(plan, i)
    BY <2>2, FittedGrows
  <2> QED BY <2>1, <2>3
<1>4. After(steps, <<>>, Len(plan)) \in Reached[Len(plan)]
  <2> HIDE DEF steps, Reached
  <2> QED BY <1>1, <1>2, <1>3, AfterReaches
<1>5. selected \in Fitted(plan, Len(plan))
  <2>1. Len(plan) \in 0..Len(plan)
    BY <1>1
  <2> QED BY <1>4, <2>1 DEF FitUnits
<1> HIDE DEF selected
<1>6. selected # <<>> => TokensUsed(selected) <= TokenLimit
  BY <1>5 DEF Fitted
<1>7. ASSUME NEW x \in ToSet(plan) \ ToSet(selected)
      PROVE  Len(selected) = UnitLimit \/ TokensUsed(Append(selected, x)) > TokenLimit
  <2>1. PICK j \in 1..Len(plan) : x = plan[j]
    BY <1>1 DEF ToSet
  <2> QED BY <1>5, <2>1 DEF Fitted
<1> QED BY <1>6, <1>7 DEF LeavesNoUnitOut, selected

\* More of the first numbers are counted up to a later one.
LEMMA CountedUpTo ==
    ASSUME NEW n \in Nat, NEW S \in SUBSET (1..n), NEW i \in S, NEW j \in S,
           Cardinality(S \cap 1..i) = Cardinality(S \cap 1..j)
    PROVE  i = j
<1>1. ASSUME NEW a \in S, NEW b \in S, a < b
      PROVE  Cardinality(S \cap 1..a) # Cardinality(S \cap 1..b)
  <2> DEFINE A == S \cap 1..a
             B == S \cap 1..b
  <2>1. A \in SUBSET B /\ b \in B /\ b \notin A
    BY <1>1
  <2>2. IsFiniteSet(1..b)
    BY FirstNumbers
  <2>3. IsFiniteSet(B)
    BY <2>2, FS_Intersection
  <2> HIDE DEF A, B
  <2>4. Cardinality(A) # Cardinality(B)
    BY <2>1, <2>3, FS_Subset
  <2> QED BY <2>4 DEF A, B
<1> QED BY <1>1

-----------------------------------------------------------------------------
(* The units of a workspace.                                               *)

ProperSource(s) ==
    /\ s.id \in Nat /\ s.kind \in ToSet(AllKinds) /\ s.parts \in Seq(ToSet(s.parts))
    /\ \A i \in DOMAIN s.parts : s.parts[i].score \in Nat /\ s.parts[i].size \in Nat

ProperSources(sources) ==
    /\ IsFiniteSet(sources)
    /\ \A s \in sources : ProperSource(s)
    /\ \A s, t \in sources : s.id = t.id => s = t

\* Units of the kinds there are, told apart by their sources and orders.
ProperUnits(units) ==
    /\ IsFiniteSet(units)
    /\ \A u \in units :
        /\ u.source \in Nat /\ u.order \in Nat /\ u.kind \in ToSet(AllKinds)
        /\ u.score \in Nat /\ u.size \in Nat
    /\ \A u, v \in units : u.source = v.source /\ u.order = v.order => u = v

\* The units of a source are of that source, and its orders tell them apart.
UnitsOf(s, units) ==
    /\ IsFiniteSet(units)
    /\ \A u \in units :
        u.source = s.id /\ u.order \in Nat /\ u.kind = s.kind /\ u.score \in Nat /\ u.size \in Nat
    /\ \A u, v \in units : u.order = v.order => u = v

LEMMA SqlUnitsAreProper ==
    ASSUME NEW s, ProperSource(s)
    PROVE  UnitsOf(s, SqlUnits(s))
<1> DEFINE I == DOMAIN s.parts
           unit == [n \in I |-> Unit(s, n, s.parts[n].title, AnyTitle, s.parts[n])]
           units == {unit[n] : n \in I}
<1>1. I = 1..Len(s.parts) /\ Len(s.parts) \in Nat
  BY DEF ProperSource
<1>2. IsFiniteSet(I)
  BY <1>1, FirstNumbers
<1>3. SqlUnits(s) = units
  BY DEF SqlUnits
<1>4. \A n \in I : /\ unit[n].source = s.id /\ unit[n].order = n /\ unit[n].kind = s.kind
                   /\ unit[n].score \in Nat /\ unit[n].size \in Nat
  BY DEF Unit, ProperSource
<1>5. DOMAIN unit = I
  OBVIOUS
<1> HIDE DEF unit, I
<1>6. IsFiniteSet(units)
  BY <1>2, <1>5, ImageIsFinite
<1>7. \A n \in I : n \in Nat
  BY <1>1
<1> QED BY <1>3, <1>4, <1>6, <1>7 DEF UnitsOf

LEMMA MarkdownUnitsAreProper ==
    ASSUME NEW s, ProperSource(s)
    PROVE  UnitsOf(s, MarkdownUnits(s))
<1> DEFINE parts == s.parts
           above(i) == {j \in 1..i : parts[j].level = 2}
           sections == {i \in DOMAIN parts : above(i) # {}}
           I == {j \in sections : parts[j].body}
           number == [i \in I |-> Cardinality(sections \cap 1..i)]
           unit == [i \in I |-> Unit(s, number[i], parts[Max(above(i))].title,
                        IF parts[i].level = 2 THEN AnyTitle ELSE parts[i].title, parts[i])]
           units == {unit[i] : i \in I}
<1>1. DOMAIN parts = 1..Len(parts) /\ Len(parts) \in Nat
  BY DEF ProperSource
<1>2. sections \in SUBSET (1..Len(parts)) /\ I \in SUBSET (1..Len(parts))
  BY <1>1
<1>3. IsFiniteSet(I)
  <2> HIDE DEF I
  <2>1. IsFiniteSet(1..Len(parts))
    BY <1>1, FirstNumbers
  <2> QED BY <1>2, <2>1, FS_Subset
<1>4. MarkdownUnits(s) = units
  BY DEF MarkdownUnits
<1>5. \A i, j \in I : number[i] = number[j] => i = j
  <2> SUFFICES ASSUME NEW i \in I, NEW j \in I, number[i] = number[j] PROVE i = j
    OBVIOUS
  <2>1. i \in sections /\ j \in sections /\ Cardinality(sections \cap 1..i) = Cardinality(sections \cap 1..j)
    OBVIOUS
  <2> HIDE DEF sections
  <2> QED BY <1>1, <1>2, <2>1, CountedUpTo
<1>6. \A i \in I : number[i] \in Nat
  <2> SUFFICES ASSUME NEW i \in I PROVE Cardinality(sections \cap 1..i) \in Nat
    OBVIOUS
  <2>1. IsFiniteSet(1..i)
    BY <1>2, FirstNumbers
  <2> HIDE DEF sections
  <2> QED BY <2>1, FS_Intersection, FS_CardinalityType
<1>7. \A i \in I : parts[i].score \in Nat /\ parts[i].size \in Nat
  BY <1>1, <1>2 DEF ProperSource
<1>8. \A i \in I : /\ unit[i].source = s.id /\ unit[i].order = number[i] /\ unit[i].kind = s.kind
                   /\ unit[i].score = parts[i].score /\ unit[i].size = parts[i].size
  BY DEF Unit
<1>9. DOMAIN unit = I
  OBVIOUS
<1> HIDE DEF unit, I, number
<1>10. IsFiniteSet(units)
  BY <1>3, <1>9, ImageIsFinite
<1> QED BY <1>4, <1>5, <1>6, <1>7, <1>8, <1>10 DEF UnitsOf

LEMMA UnitsAreProper ==
    ASSUME NEW sources, ProperSources(sources)
    PROVE  ProperUnits(Units(sources))
<1> DEFINE of == [s \in sources |-> IF s.kind = SourceDdl THEN SqlUnits(s) ELSE MarkdownUnits(s)]
           sets == {of[s] : s \in sources}
           units == UNION sets
<1>1. Units(sources) = units
  BY DEF Units
<1>2. \A s \in sources : ProperSource(s) /\ UnitsOf(s, of[s])
  BY SqlUnitsAreProper, MarkdownUnitsAreProper DEF ProperSources
<1>3. DOMAIN of = sources /\ IsFiniteSet(sources)
  BY DEF ProperSources
<1> HIDE DEF of
<1>4. IsFiniteSet(sets)
  BY <1>3, ImageIsFinite
<1>5. \A T \in sets : IsFiniteSet(T)
  BY <1>2 DEF UnitsOf
<1>6. IsFiniteSet(units)
  <2> HIDE DEF sets
  <2> QED BY <1>4, <1>5, FS_UNION
<1>7. ASSUME NEW u \in units
      PROVE  \E s \in sources : u \in of[s] /\ u.source = s.id
  BY <1>2 DEF UnitsOf
<1>8. \A u \in units : /\ u.source \in Nat /\ u.order \in Nat /\ u.kind \in ToSet(AllKinds)
                       /\ u.score \in Nat /\ u.size \in Nat
  BY <1>2 DEF UnitsOf, ProperSource
<1>9. ASSUME NEW u \in units, NEW v \in units, u.source = v.source, u.order = v.order
      PROVE  u = v
  <2>1. PICK s \in sources : u \in of[s] /\ u.source = s.id
    BY <1>7
  <2>2. PICK t \in sources : v \in of[t] /\ v.source = t.id
    BY <1>7
  <2>3. s = t
    BY <1>9, <2>1, <2>2 DEF ProperSources
  <2> HIDE DEF units
  <2> QED BY <1>2, <1>9, <2>1, <2>2, <2>3 DEF UnitsOf
<1> HIDE DEF units
<1> QED BY <1>1, <1>6, <1>8, <1>9 DEF ProperUnits

-----------------------------------------------------------------------------
(* The orders of units.                                                    *)

LEMMA UnitsAreRankedByScore ==
    ASSUME NEW units, ProperUnits(units)
    PROVE  /\ IsOrder(units, ByScore(units))
           /\ \A u, v \in units : <<u, v>> \in ByScore(units) <=> Better(u, v)
<1>1. \A u, v \in units : <<u, v>> \in ByScore(units) <=> Better(u, v)
  BY DEF ByScore
<1>2. \A u \in units : u.source \in Nat /\ u.order \in Nat /\ u.score \in Nat
  BY DEF ProperUnits
<1>3. \A u \in units : <<u, u>> \notin ByScore(units)
  BY <1>1, <1>2 DEF Better, InOrder
<1>4. ASSUME NEW u \in units, NEW v \in units
      PROVE  u = v \/ <<u, v>> \in ByScore(units) \/ <<v, u>> \in ByScore(units)
  <2>1. u = v \/ u.source # v.source \/ u.order # v.order
    BY DEF ProperUnits
  <2>2. u = v \/ Better(u, v) \/ Better(v, u)
    BY <1>2, <2>1 DEF Better, InOrder
  <2> QED BY <1>1, <2>2
<1>5. ASSUME NEW u \in units, NEW v \in units, NEW w \in units,
             <<u, v>> \in ByScore(units), <<v, w>> \in ByScore(units)
      PROVE  <<u, w>> \in ByScore(units)
  <2>1. Better(u, v) /\ Better(v, w)
    BY <1>1, <1>5
  <2>2. Better(u, w)
    BY <1>2, <2>1 DEF Better, InOrder
  <2> QED BY <1>1, <2>2
<1>6. IsOrder(units, ByScore(units))
  BY <1>3, <1>4, <1>5 DEF IsOrder
<1> QED BY <1>1, <1>6

LEMMA RankIsNatural ==
    ASSUME NEW p \in DOMAIN Seeds, NEW units, ProperUnits(units), NEW u \in units
    PROVE  FallbackRank(p, units, u) \in Nat
<1> DEFINE kinds == [i \in DOMAIN Seeds[p] |-> Seeds[p][i].kind]
           order == kinds \o AllKinds
           M == ToSet(AllKinds)
           T == {i \in DOMAIN order : order[i] = u.kind}
<1>1. /\ AllKinds \in Seq(M) /\ Seeds[p] \in Seq(ToSet(Seeds[p]))
      /\ \A i \in DOMAIN Seeds[p] : Seeds[p][i].kind \in M
  BY WorkspaceAssumption
<1>2. DOMAIN Seeds[p] = 1..Len(Seeds[p]) /\ Len(Seeds[p]) \in Nat
  BY <1>1
<1>3. kinds \in Seq(M) /\ Len(kinds) = Len(Seeds[p])
  <2>1. kinds \in [1..Len(Seeds[p]) -> M]
    BY <1>1, <1>2
  <2> HIDE DEF kinds, M
  <2> QED BY <1>2, <2>1, InARow
<1>4. u.kind \in M
  BY DEF ProperUnits
<1>5. PICK j \in 1..Len(AllKinds) : AllKinds[j] = u.kind
  <2>1. DOMAIN AllKinds = 1..Len(AllKinds)
    BY <1>1
  <2> QED BY <1>4, <2>1 DEF ToSet
<1>6. T \in SUBSET Nat /\ T # {}
  <2> HIDE DEF kinds, M
  <2> DEFINE i == Len(kinds) + j
  <2>1. /\ order \in Seq(M) /\ Len(order) = Len(kinds) + Len(AllKinds)
        /\ \A n \in (Len(kinds) + 1)..(Len(kinds) + Len(AllKinds)) : order[n] = AllKinds[n - Len(kinds)]
    BY <1>1, <1>3, Joined
  <2>2. Len(kinds) \in Nat /\ Len(AllKinds) \in Nat
    BY <1>1, <1>3
  <2>3. i \in (Len(kinds) + 1)..(Len(kinds) + Len(AllKinds)) /\ i - Len(kinds) = j
    BY <2>2
  <2>4. order[i] = u.kind
    BY <1>5, <2>1, <2>3
  <2>5. DOMAIN order = 1..Len(order)
    BY <2>1
  <2> HIDE DEF order
  <2>6. i \in DOMAIN order
    BY <2>1, <2>2, <2>3, <2>5
  <2>7. DOMAIN order \subseteq Nat
    BY <2>5
  <2> QED BY <2>4, <2>6, <2>7
<1>7. KindRank(p, u.kind) \in Nat
  <2>1. KindRank(p, u.kind) = Min(T)
    BY DEF KindRank
  <2> HIDE DEF T
  <2> QED BY <1>6, <2>1, LeastIsMin
<1> DEFINE F == {i \in DOMAIN Seeds[p] :
                    /\ MatchesSeed(u, Seeds[p][i])
                    /\ ~ \E v \in units : MatchesSeed(v, Seeds[p][i]) /\ InOrder(v, u)}
<1>8. FallbackRank(p, units, u) = IF F # {} THEN Min(F) ELSE Len(Seeds[p]) + KindRank(p, u.kind)
  BY DEF FallbackRank
<1>9. F \in SUBSET Nat
  BY <1>2
<1> HIDE DEF F
<1>10. F # {} => Min(F) \in Nat
  BY <1>9, LeastIsMin
<1> QED BY <1>2, <1>7, <1>8, <1>10

LEMMA UnitsAreRankedByFallback ==
    ASSUME NEW p \in DOMAIN Seeds, NEW units, ProperUnits(units)
    PROVE  IsOrder(units, ByFallback(p, units))
<1> DEFINE rank == [u \in units |-> FallbackRank(p, units, u)]
           before == ByFallback(p, units)
           Less(u, v) == rank[u] < rank[v] \/ (rank[u] = rank[v] /\ InOrder(u, v))
<1>1. \A u, v \in units : <<u, v>> \in before <=> Less(u, v)
  BY DEF ByFallback
<1>2. \A u \in units : u.source \in Nat /\ u.order \in Nat
  BY DEF ProperUnits
<1>3. \A u \in units : rank[u] \in Nat
  BY RankIsNatural
<1> HIDE DEF rank, before
<1>4. \A u \in units : <<u, u>> \notin before
  BY <1>1, <1>2, <1>3 DEF InOrder
<1>5. ASSUME NEW u \in units, NEW v \in units
      PROVE  u = v \/ <<u, v>> \in before \/ <<v, u>> \in before
  <2>1. u = v \/ u.source # v.source \/ u.order # v.order
    BY DEF ProperUnits
  <2>2. u = v \/ Less(u, v) \/ Less(v, u)
    BY <1>2, <1>3, <2>1 DEF InOrder
  <2> QED BY <1>1, <2>2
<1>6. ASSUME NEW u \in units, NEW v \in units, NEW w \in units,
             <<u, v>> \in before, <<v, w>> \in before
      PROVE  <<u, w>> \in before
  <2>1. Less(u, v) /\ Less(v, w)
    BY <1>1, <1>6
  <2>2. Less(u, w)
    BY <1>2, <1>3, <2>1 DEF InOrder
  <2> QED BY <1>1, <2>2
<1>7. IsOrder(units, before)
  BY <1>4, <1>5, <1>6 DEF IsOrder
<1> QED BY <1>7 DEF before

-----------------------------------------------------------------------------
(* The plan of a workspace context.                                        *)

Truthful(plan) == \A i \in DOMAIN plan : plan[i].reason = "lexical" <=> plan[i].unit.score > 0

Once(plan) == \A i, j \in DOMAIN plan : plan[i].unit = plan[j].unit => i = j

\* Plans that have no unit twice, and give true reasons.
Plans(units) == {plan \in Seq(Entries(units)) : Truthful(plan) /\ Once(plan)}

LEMMA EntriesAreOfUnits ==
    ASSUME NEW units
    PROVE  /\ \A e \in Entries(units) : e.unit \in units
           /\ \A u \in units : \A reason \in {"lexical", "fallback"} :
                /\ Entry(u, reason) \in Entries(units)
                /\ Entry(u, reason).unit = u /\ Entry(u, reason).reason = reason
<1>1. \A u, reason : Entry(u, reason).unit = u /\ Entry(u, reason).reason = reason
  BY DEF Entry
<1>2. \A e \in Entries(units) : \E u \in units, reason \in {"lexical", "fallback"} : e = Entry(u, reason)
  BY DEF Entries
<1>3. \A u \in units : \A reason \in {"lexical", "fallback"} : Entry(u, reason) \in Entries(units)
  BY DEF Entries
<1> QED BY <1>1, <1>2, <1>3

LEMMA ChosenAreUnits ==
    ASSUME NEW units, NEW plan \in Seq(Entries(units))
    PROVE  /\ Chosen(plan) \subseteq units
           /\ \A u \in Chosen(plan) : \E i \in 1..Len(plan) : plan[i].unit = u
           /\ \A i \in 1..Len(plan) : plan[i].unit \in Chosen(plan)
           /\ DOMAIN plan = 1..Len(plan) /\ Len(plan) \in Nat
<1>1. DOMAIN plan = 1..Len(plan) /\ Len(plan) \in Nat
  OBVIOUS
<1>2. \A i \in 1..Len(plan) : plan[i] \in Entries(units)
  OBVIOUS
<1>3. \A i \in 1..Len(plan) : plan[i].unit \in units
  BY <1>2, EntriesAreOfUnits
<1> QED BY <1>1, <1>3 DEF Chosen

\* An empty plan.
LEMMA EmptyPlan ==
    ASSUME NEW units
    PROVE  <<>> \in Plans(units) /\ Chosen(<<>>) = {} /\ Len(<<>>) = 0
<1>1. DOMAIN <<>> = {} /\ Len(<<>>) = 0
  OBVIOUS
<1> QED BY <1>1 DEF Plans, Truthful, Once, Chosen

\* The units of a kind are counted.
LEMMA CountIsNatural ==
    ASSUME NEW units, NEW plan \in Seq(Entries(units)), NEW k
    PROVE  /\ CountOf(plan, k) \in Nat
           /\ (\E u \in Chosen(plan) : u.kind = k) => CountOf(plan, k) > 0
<1> DEFINE J == {j \in DOMAIN plan : plan[j].unit.kind = k}
<1>1. J \in SUBSET (1..Len(plan)) /\ Len(plan) \in Nat
  BY ChosenAreUnits
<1>2. (\E u \in Chosen(plan) : u.kind = k) => J # {}
  BY DEF Chosen
<1>3. CountOf(plan, k) = Cardinality(J)
  BY DEF CountOf
<1> HIDE DEF J
<1>4. IsFiniteSet(J)
  <2>1. IsFiniteSet(1..Len(plan))
    BY <1>1, FirstNumbers
  <2> QED BY <1>1, <2>1, FS_Subset
<1>5. Cardinality(J) \in Nat /\ (Cardinality(J) = 0 <=> J = {})
  BY <1>4, FS_CardinalityType, FS_EmptySet
<1> QED BY <1>2, <1>3, <1>5

\* One unit more, for its reason.
LEMMA UnitAdded ==
    ASSUME NEW units, NEW plan \in Plans(units), NEW u \in units \ Chosen(plan),
           NEW reason \in {"lexical", "fallback"}, reason = "lexical" <=> u.score > 0
    PROVE  LET more == Append(plan, Entry(u, reason))
           IN  /\ more \in Plans(units) /\ Chosen(more) = Chosen(plan) \cup {u}
               /\ \A k : CountOf(more, k) = CountOf(plan, k) + (IF u.kind = k THEN 1 ELSE 0)
               /\ plan \o <<Entry(u, reason)>> = more
<1> DEFINE e == Entry(u, reason)
           more == Append(plan, e)
           E == Entries(units)
<1>1. plan \in Seq(E) /\ Truthful(plan) /\ Once(plan)
  BY DEF Plans
<1>2. e \in E /\ e.unit = u /\ e.reason = reason
  BY EntriesAreOfUnits
<1> HIDE DEF e, E
<1>3. /\ more \in Seq(E) /\ Len(more) = Len(plan) + 1 /\ more[Len(plan) + 1] = e
      /\ \A j \in 1..Len(plan) : more[j] = plan[j]
  BY <1>1, <1>2, Appended
<1>4. plan \o <<e>> = more
  BY <1>1, <1>2
<1> HIDE DEF more
<1>5. Len(plan) \in Nat /\ DOMAIN plan = 1..Len(plan) /\ DOMAIN more = 1..(Len(plan) + 1)
  BY <1>1, <1>3
<1>6. \A j \in DOMAIN more : j = Len(plan) + 1 \/ j \in DOMAIN plan
  BY <1>5
<1>7. Truthful(more)
  BY <1>1, <1>2, <1>3, <1>5, <1>6 DEF Truthful
<1>8. \A j \in DOMAIN plan : plan[j].unit # u
  BY DEF Chosen
<1>9. Once(more)
  <2> SUFFICES ASSUME NEW i \in DOMAIN more, NEW j \in DOMAIN more, more[i].unit = more[j].unit
               PROVE  i = j
    BY DEF Once
  <2>1. CASE i \in DOMAIN plan /\ j \in DOMAIN plan
    BY <1>1, <1>3, <1>5, <2>1 DEF Once
  <2>2. CASE i \in DOMAIN plan /\ j = Len(plan) + 1
    BY <1>2, <1>3, <1>5, <1>8, <2>2
  <2>3. CASE i = Len(plan) + 1 /\ j \in DOMAIN plan
    BY <1>2, <1>3, <1>5, <1>8, <2>3
  <2> QED BY <1>6, <2>1, <2>2, <2>3
<1>10. Chosen(more) = Chosen(plan) \cup {u}
  <2>1. Len(plan) + 1 \in DOMAIN more /\ DOMAIN plan \subseteq DOMAIN more
    BY <1>5
  <2>2. Chosen(more) \subseteq Chosen(plan) \cup {u}
    BY <1>2, <1>3, <1>5, <1>6 DEF Chosen
  <2>3. Chosen(plan) \subseteq Chosen(more)
    BY <1>3, <1>5, <2>1 DEF Chosen
  <2>4. u \in Chosen(more)
    BY <1>2, <1>3, <2>1 DEF Chosen
  <2> QED BY <2>2, <2>3, <2>4
<1>11. ASSUME NEW k PROVE CountOf(more, k) = CountOf(plan, k) + (IF u.kind = k THEN 1 ELSE 0)
  <2> DEFINE J == {j \in DOMAIN plan : plan[j].unit.kind = k}
             M == {j \in DOMAIN more : more[j].unit.kind = k}
             n == Len(plan) + 1
  <2>1. CountOf(plan, k) = Cardinality(J) /\ CountOf(more, k) = Cardinality(M)
    BY DEF CountOf
  <2>2. n \in DOMAIN more /\ DOMAIN plan \subseteq DOMAIN more /\ n \notin DOMAIN plan
    BY <1>5
  <2>3. more[n].unit = u /\ \A j \in DOMAIN plan : more[j] = plan[j]
    BY <1>2, <1>3, <1>5
  <2>4. \A j \in DOMAIN more : j = n \/ j \in DOMAIN plan
    BY <1>6
  <2> HIDE DEF n
  <2>5. n \notin J /\ M = IF u.kind = k THEN J \cup {n} ELSE J
    BY <2>2, <2>3, <2>4
  <2>6. IsFiniteSet(J)
    <3>1. J \in SUBSET (1..Len(plan))
      BY <1>5
    <3> HIDE DEF J
    <3>2. IsFiniteSet(1..Len(plan))
      BY <1>5, FirstNumbers
    <3> QED BY <3>1, <3>2, FS_Subset
  <2> HIDE DEF J, M
  <2>7. Cardinality(J) \in Nat
    BY <2>6, FS_CardinalityType
  <2>8. Cardinality(J \cup {n}) = Cardinality(J) + 1
    BY <2>5, <2>6, FS_AddElement
  <2> QED BY <2>1, <2>5, <2>7, <2>8
<1>12. more \in Plans(units)
  BY <1>3, <1>7, <1>9 DEF Plans, E
<1> QED BY <1>4, <1>10, <1>11, <1>12 DEF more, e

\* A plan has as many entries as it chooses units.
LEMMA ChosenAreCounted ==
    ASSUME NEW units, IsFiniteSet(units), NEW plan \in Plans(units)
    PROVE  Len(plan) = Cardinality(Chosen(plan)) /\ IsFiniteSet(Chosen(plan))
<1> DEFINE n == Len(plan)
           C == Chosen(plan)
           f == [i \in 1..n |-> plan[i].unit]
<1>1. plan \in Seq(Entries(units)) /\ Once(plan)
  BY DEF Plans
<1>2. /\ C \in SUBSET units /\ n \in Nat /\ DOMAIN plan = 1..n
      /\ \A u \in C : \E i \in 1..n : plan[i].unit = u
      /\ \A i \in 1..n : plan[i].unit \in C
  BY <1>1, ChosenAreUnits
<1>3. f \in [1..n -> C]
  <2> HIDE DEF C, n
  <2> QED BY <1>2
<1>4. \A i \in 1..n : f[i] = plan[i].unit
  OBVIOUS
<1> HIDE DEF f, n, C
<1>5. f \in Surjection(1..n, C) /\ f \in Injection(1..n, C)
  BY <1>1, <1>2, <1>3, <1>4 DEF Surjection, Injection, IsInjective, Once
<1>6. IsFiniteSet(1..n) /\ Cardinality(1..n) = n
  BY <1>2, FirstNumbers
<1>7. IsFiniteSet(C) /\ Cardinality(C) = Cardinality(1..n)
  BY <1>5, <1>6, FS_Surjection
<1> QED BY <1>6, <1>7 DEF n, C

-----------------------------------------------------------------------------
(* The rounds.                                                             *)

LEMMA PartsAreRanked ==
    ASSUME NEW units, ProperUnits(units), NEW T \in SUBSET units
    PROVE  IsFiniteSet(T) /\ IsOrder(T, ByScore(units))
<1>1. IsFiniteSet(T)
  BY FS_Subset DEF ProperUnits
<1>2. IsOrder(T, ByScore(units))
  BY UnitsAreRankedByScore, PartIsOrdered
<1> QED BY <1>1, <1>2

\* The first round plans what has a score.
LEMMA FirstRoundPlans ==
    ASSUME NEW p \in DOMAIN Seeds, NEW units, ProperUnits(units)
    PROVE  FirstRound(p, units) \in Plans(units)
<1> DEFINE before == ByScore(units)
           ranked == Ordered(Positive(units), before)
           n == Len(ranked)
           Reached == [i \in 0..n |-> {plan \in Plans(units) : \A u \in Chosen(plan) : \E j \in 1..i : ranked[j] = u}]
           steps == [i \in DOMAIN ranked |-> TakeBest(p, units, ranked[i])]
<1>1. Positive(units) \in SUBSET units /\ \A u \in Positive(units) : u.score > 0
  BY DEF Positive
<1>2. IsFiniteSet(Positive(units)) /\ IsOrder(Positive(units), before)
  BY <1>1, PartsAreRanked
<1>3. /\ ranked \in Seq(Positive(units))
      /\ \A i, j \in 1..n : ranked[i] = ranked[j] => i = j
  <2> HIDE DEF before
  <2> QED BY <1>2, OrderedLists
<1> HIDE DEF ranked
<1>4. n \in Nat /\ DOMAIN ranked = 1..n /\ \A i \in 1..n : ranked[i] \in units /\ ranked[i].score > 0
  BY <1>1, <1>3
<1> HIDE DEF n
<1>5. <<>> \in Reached[0]
  <2>1. 0 \in 0..n
    BY <1>4
  <2> QED BY <2>1, EmptyPlan
<1>6. ASSUME NEW i \in 1..n, NEW plan \in Reached[i - 1] PROVE steps[i][plan] \in Reached[i]
  <2> DEFINE u == ranked[i]
             more == Append(plan, Entry(u, "lexical"))
  <2>1. i \in 0..n /\ i - 1 \in 0..n /\ i \in Nat
    BY <1>4
  <2>2. plan \in Plans(units) /\ \A v \in Chosen(plan) : \E j \in 1..(i - 1) : ranked[j] = v
    BY <2>1
  <2>3. u \in units /\ u.score > 0
    BY <1>4
  <2>4. u \notin Chosen(plan)
    <3> SUFFICES ASSUME u \in Chosen(plan) PROVE FALSE
      OBVIOUS
    <3>1. PICK j \in 1..(i - 1) : ranked[j] = u
      BY <2>2
    <3>2. j \in 1..n /\ j # i
      BY <1>4, <2>1
    <3>3. \A a, b \in 1..n : ranked[a] = ranked[b] => a = b
      BY <1>3
    <3> QED BY <3>1, <3>2, <3>3
  <2>5. steps[i] = TakeBest(p, units, u)
    BY <1>4
  <2>6. plan \in Seq(Entries(units))
    BY <2>2 DEF Plans
  <2>7. TakeBest(p, units, u)[plan] \in {plan, more}
    <3> HIDE DEF u
    <3> QED BY <2>6 DEF TakeBest
  <2> HIDE DEF u, steps
  <2>8. more \in Plans(units) /\ Chosen(more) = Chosen(plan) \cup {u}
    BY <2>2, <2>3, <2>4, UnitAdded
  <2> HIDE DEF more
  <2>9. \A v \in Chosen(plan) : \E j \in 1..i : ranked[j] = v
    <3>1. \A j \in 1..(i - 1) : j \in 1..i
      BY <2>1
    <3> QED BY <2>2, <3>1
  <2>10. \A v \in Chosen(more) : \E j \in 1..i : ranked[j] = v
    <3>1. i \in 1..i /\ ranked[i] = u
      BY <2>1 DEF u
    <3> QED BY <2>8, <2>9, <3>1
  <2>11. Reached[i] = {q \in Plans(units) : \A v \in Chosen(q) : \E j \in 1..i : ranked[j] = v}
    BY <2>1
  <2> HIDE DEF Reached
  <2> QED BY <2>2, <2>5, <2>7, <2>8, <2>9, <2>10, <2>11
<1>7. After(steps, <<>>, n) \in Reached[n]
  <2> HIDE DEF steps, Reached
  <2> QED BY <1>4, <1>5, <1>6, AfterReaches
<1>8. n \in 0..n
  BY <1>4
<1>9. FirstRound(p, units) = After(steps, <<>>, n)
  BY DEF FirstRound, ranked, n
<1> HIDE DEF steps
<1> QED BY <1>7, <1>8, <1>9

\* The kinds have their shares of the seeds up to i, or all that has a score;
\* and a seed up to i that has a section finds its kind represented.
Shared(p, units, i, plan) ==
    /\ \A k : \/ CountOf(plan, k) >= Share(p, i, k)
              \/ {u \in Positive(units) : u.kind = k} \subseteq Chosen(plan)
    /\ \A j \in 1..i :
        (\E u \in units : MatchesSeed(u, Seeds[p][j]) /\ u.sub = AnyTitle) => CountOf(plan, Seeds[p][j].kind) > 0

LEMMA ShareGrows ==
    ASSUME NEW p \in DOMAIN Seeds, NEW i \in 1..Len(Seeds[p]), NEW k
    PROVE  /\ Share(p, i, k) \in Nat /\ Share(p, i - 1, k) \in Nat
           /\ Share(p, i, k) = Share(p, i - 1, k) + (IF Seeds[p][i].kind = k THEN 1 ELSE 0)
<1> DEFINE J == {j \in 1..(i - 1) : Seeds[p][j].kind = k}
           M == {j \in 1..i : Seeds[p][j].kind = k}
<1>1. Len(Seeds[p]) \in Nat /\ i \in Nat /\ i - 1 \in Nat
  <2>1. Seeds[p] \in Seq(ToSet(Seeds[p]))
    BY WorkspaceAssumption
  <2>2. Len(Seeds[p]) \in Nat
    BY <2>1
  <2> QED BY <2>2
<1>2. i \notin J /\ M = IF Seeds[p][i].kind = k THEN J \cup {i} ELSE J
  BY <1>1
<1>3. IsFiniteSet(J)
  <2>1. J \in SUBSET (1..(i - 1))
    BY <1>1
  <2> HIDE DEF J
  <2>2. IsFiniteSet(1..(i - 1))
    BY <1>1, FirstNumbers
  <2> QED BY <2>1, <2>2, FS_Subset
<1>4. Share(p, i - 1, k) = Cardinality(J) /\ Share(p, i, k) = Cardinality(M)
  BY DEF Share
<1> HIDE DEF J, M
<1>5. Cardinality(J) \in Nat
  BY <1>3, FS_CardinalityType
<1>6. Cardinality(J \cup {i}) = Cardinality(J) + 1
  BY <1>2, <1>3, FS_AddElement
<1> QED BY <1>2, <1>4, <1>5, <1>6

\* What a seed adds is a unit of its kind that was not planned, unless there
\* is no such unit with a score, and none of just its title.
LEMMA AdditionIsNew ==
    ASSUME NEW p \in DOMAIN Seeds, NEW units, ProperUnits(units), NEW i \in 1..Len(Seeds[p]),
           NEW planned
    PROVE  LET k == Seeds[p][i].kind
               scored == {u \in Positive(units) \ planned : u.kind = k}
           IN  \/ \E u \in units \ planned, reason \in {"lexical", "fallback"} :
                    /\ u.kind = k /\ (reason = "lexical" <=> u.score > 0)
                    /\ Addition(p, units, i, planned) = <<Entry(u, reason)>>
               \/ /\ Addition(p, units, i, planned) = <<>> /\ scored = {}
                  /\ \A u \in units : MatchesSeed(u, Seeds[p][i]) /\ u.sub = AnyTitle => u \in planned
<1> DEFINE seed == Seeds[p][i]
           again == \E j \in 1..(i - 1) : Seeds[p][j].kind = seed.kind
           ofKind == {u \in Positive(units) \ planned : u.kind = seed.kind}
           matching == {u \in ofKind : MatchesSeed(u, seed)}
           exact == {u \in units \ planned :
                       MatchesSeed(u, seed) /\ (seed.title = AnyTitle \/ u.sub = AnyTitle)}
           best(S) == Foremost(S, ByScore(units))
           fits == matching # {} /\ (again \/ 10 * best(matching).score >= 6 * best(ofKind).score)
           adds == Addition(p, units, i, planned)
<1>1. adds = IF fits THEN <<Entry(best(matching), "lexical")>>
             ELSE IF ofKind # {} THEN <<Entry(best(ofKind), "lexical")>>
             ELSE IF exact # {} THEN <<Entry(Foremost(exact, ByFallback(p, units)), "fallback")>>
             ELSE <<>>
  BY DEF Addition
<1>2. /\ matching \in SUBSET units /\ ofKind \in SUBSET units /\ exact \in SUBSET units
      /\ matching \subseteq ofKind
  BY DEF Positive
<1>3. \A u \in ofKind : u \in units \ planned /\ u.kind = seed.kind /\ u.score > 0
  BY DEF Positive
<1>4. \A u \in exact : u \in units \ planned /\ u.kind = seed.kind
  BY DEF MatchesSeed
<1>5. ofKind = {} => \A u \in exact : ~ (u.score > 0)
  BY <1>4 DEF Positive
<1>6. fits => matching # {}
  OBVIOUS
<1>7. exact = {} => \A u \in units : MatchesSeed(u, seed) /\ u.sub = AnyTitle => u \in planned
  OBVIOUS
<1>8. \A T \in SUBSET units : T # {} => best(T) \in T
  BY PartsAreRanked, ForemostLeads
<1>9. exact # {} => Foremost(exact, ByFallback(p, units)) \in exact
  <2> HIDE DEF exact
  <2>1. IsFiniteSet(exact)
    BY <1>2, FS_Subset DEF ProperUnits
  <2>2. IsOrder(exact, ByFallback(p, units))
    BY <1>2, UnitsAreRankedByFallback, PartIsOrdered
  <2> QED BY <2>1, <2>2, ForemostLeads
<1> HIDE DEF fits, matching, ofKind, exact, best, adds
<1>10. CASE fits
  <2>1. best(matching) \in ofKind
    BY <1>2, <1>6, <1>8, <1>10
  <2> QED BY <1>1, <1>3, <1>10, <2>1 DEF adds, seed
<1>11. CASE ~fits /\ ofKind # {}
  <2>1. best(ofKind) \in ofKind
    BY <1>2, <1>8, <1>11
  <2> QED BY <1>1, <1>3, <1>11, <2>1 DEF adds, seed
<1>12. CASE ~fits /\ ofKind = {} /\ exact # {}
  <2> DEFINE u == Foremost(exact, ByFallback(p, units))
  <2>1. u \in exact
    BY <1>9, <1>12
  <2>2. adds = <<Entry(u, "fallback")>>
    BY <1>1, <1>12
  <2> HIDE DEF u
  <2>3. u \in units \ planned /\ u.kind = seed.kind /\ ~ (u.score > 0)
    BY <1>4, <1>5, <1>12, <2>1
  <2> QED BY <2>2, <2>3 DEF adds, seed
<1>13. CASE ~fits /\ ofKind = {} /\ exact = {}
  <2>1. adds = <<>>
    BY <1>1, <1>13
  <2>2. {u \in Positive(units) \ planned : u.kind = seed.kind} = {}
    BY <1>13 DEF ofKind
  <2> QED BY <1>7, <1>13, <2>1, <2>2 DEF adds, seed
<1> QED BY <1>10, <1>11, <1>12, <1>13

LEMMA SeedsAreFinite ==
    ASSUME NEW p \in DOMAIN Seeds
    PROVE  Len(Seeds[p]) \in Nat /\ DOMAIN Seeds[p] = 1..Len(Seeds[p])
<1>1. Seeds[p] \in Seq(ToSet(Seeds[p]))
  BY WorkspaceAssumption
<1> QED BY <1>1

LEMMA SupplementShares ==
    ASSUME NEW p \in DOMAIN Seeds, NEW units, ProperUnits(units), NEW i \in 1..Len(Seeds[p]),
           NEW plan \in Plans(units), Shared(p, units, i - 1, plan)
    PROVE  /\ Supplement(p, units, i)[plan] \in Plans(units)
           /\ Shared(p, units, i, Supplement(p, units, i)[plan])
<1> DEFINE k == Seeds[p][i].kind
           new == Supplement(p, units, i)[plan]
           adds == Addition(p, units, i, Chosen(plan))
           scored(any) == {u \in Positive(units) : u.kind = any}
           exists(j) == \E u \in units : MatchesSeed(u, Seeds[p][j]) /\ u.sub = AnyTitle
<1>1. plan \in Seq(Entries(units))
  BY DEF Plans
<1>2. new = IF CountOf(plan, k) >= Share(p, i, k) THEN plan ELSE plan \o adds
  BY <1>1 DEF Supplement
<1>3. \A any : /\ Share(p, i, any) \in Nat /\ Share(p, i - 1, any) \in Nat
                /\ Share(p, i, any) = Share(p, i - 1, any) + (IF any = k THEN 1 ELSE 0)
  BY ShareGrows
<1>4. \A any : CountOf(plan, any) \in Nat
  BY <1>1, CountIsNatural
<1>5. \A any : CountOf(plan, any) >= Share(p, i - 1, any) \/ scored(any) \subseteq Chosen(plan)
  BY DEF Shared
<1>6. \A j \in 1..(i - 1) : exists(j) => CountOf(plan, Seeds[p][j].kind) > 0
  BY DEF Shared
<1>7. i \in Nat /\ \A j \in 1..i : j = i \/ j \in 1..(i - 1)
  BY SeedsAreFinite
<1>8. ASSUME NEW plan1 \in Plans(units),
             \A any : CountOf(plan1, any) >= Share(p, i, any) \/ scored(any) \subseteq Chosen(plan1),
             \A j \in 1..(i - 1) : exists(j) => CountOf(plan1, Seeds[p][j].kind) > 0,
             exists(i) => CountOf(plan1, k) > 0
      PROVE  Shared(p, units, i, plan1)
  BY <1>7, <1>8 DEF Shared
<1> HIDE DEF new, adds, exists, scored
<1>9. CASE CountOf(plan, k) >= Share(p, i, k)
  <2>1. new = plan
    BY <1>2, <1>9
  <2>2. CountOf(plan, k) > 0
    BY <1>3, <1>4, <1>9
  <2>3. \A any : CountOf(plan, any) >= Share(p, i, any) \/ scored(any) \subseteq Chosen(plan)
    BY <1>3, <1>5, <1>9
  <2>4. Shared(p, units, i, plan)
    BY <1>6, <1>8, <2>2, <2>3
  <2> QED BY <2>1, <2>4 DEF new
<1>10. CASE /\ ~ (CountOf(plan, k) >= Share(p, i, k))
            /\ \E u \in units \ Chosen(plan), reason \in {"lexical", "fallback"} :
                    /\ u.kind = k /\ (reason = "lexical" <=> u.score > 0)
                    /\ adds = <<Entry(u, reason)>>
  <2>1. PICK u \in units \ Chosen(plan), reason \in {"lexical", "fallback"} :
                    /\ u.kind = k /\ (reason = "lexical" <=> u.score > 0)
                    /\ adds = <<Entry(u, reason)>>
    BY <1>10
  <2> DEFINE more == Append(plan, Entry(u, reason))
  <2>2. /\ more \in Plans(units) /\ Chosen(more) = Chosen(plan) \cup {u}
        /\ \A any : CountOf(more, any) = CountOf(plan, any) + (IF u.kind = any THEN 1 ELSE 0)
        /\ plan \o <<Entry(u, reason)>> = more
    BY <2>1, UnitAdded
  <2> HIDE DEF more
  <2>3. new = more
    BY <1>2, <1>10, <2>1, <2>2
  <2>4. CountOf(more, k) = CountOf(plan, k) + 1 /\ \A any : CountOf(more, any) >= CountOf(plan, any)
    BY <1>4, <2>1, <2>2
  <2>5. CountOf(more, k) > 0
    BY <1>4, <2>4
  <2>6. \A j \in 1..(i - 1) : exists(j) => CountOf(more, Seeds[p][j].kind) > 0
    <3> SUFFICES ASSUME NEW j \in 1..(i - 1), exists(j) PROVE CountOf(more, Seeds[p][j].kind) > 0
      OBVIOUS
    <3>1. CountOf(plan, Seeds[p][j].kind) > 0
      BY <1>6
    <3>2. \A any : CountOf(plan, any) \in Nat /\ CountOf(more, any) \in Nat
      BY <1>4, <2>2
    <3> QED BY <2>4, <3>1, <3>2
  <2>7. ASSUME NEW any
        PROVE  CountOf(more, any) >= Share(p, i, any) \/ scored(any) \subseteq Chosen(more)
    <3>1. CASE scored(any) \subseteq Chosen(plan)
      BY <2>2, <3>1
    <3>2. CASE CountOf(plan, any) >= Share(p, i - 1, any)
      BY <1>3, <1>4, <2>1, <2>2, <3>2
    <3> QED BY <1>5, <3>1, <3>2
  <2>8. Shared(p, units, i, more)
    BY <1>8, <2>2, <2>5, <2>6, <2>7
  <2> QED BY <2>2, <2>3, <2>8 DEF new
<1>11. CASE /\ ~ (CountOf(plan, k) >= Share(p, i, k))
            /\ adds = <<>>
            /\ {u \in Positive(units) \ Chosen(plan) : u.kind = k} = {}
            /\ \A u \in units : MatchesSeed(u, Seeds[p][i]) /\ u.sub = AnyTitle => u \in Chosen(plan)
  <2>1. plan \o <<>> = plan
    BY <1>1
  <2>2. new = plan
    BY <1>2, <1>11, <2>1
  <2>3. scored(k) \subseteq Chosen(plan)
    BY <1>11 DEF scored
  <2>4. \A any : CountOf(plan, any) >= Share(p, i, any) \/ scored(any) \subseteq Chosen(plan)
    BY <1>3, <1>5, <2>3
  <2>5. exists(i) => CountOf(plan, k) > 0
    <3> SUFFICES ASSUME exists(i) PROVE CountOf(plan, k) > 0
      OBVIOUS
    <3>1. PICK u \in units : MatchesSeed(u, Seeds[p][i]) /\ u.sub = AnyTitle
      BY DEF exists
    <3>2. u \in Chosen(plan) /\ u.kind = k
      BY <1>11, <3>1 DEF MatchesSeed
    <3> QED BY <1>1, <3>2, CountIsNatural
  <2>6. Shared(p, units, i, plan)
    BY <1>6, <1>8, <2>4, <2>5
  <2> QED BY <2>2, <2>6 DEF new
<1> QED BY <1>9, <1>10, <1>11, AdditionIsNew DEF adds

\* The head of a plan.
LEMMA SupplementedShares ==
    ASSUME NEW p \in DOMAIN Seeds, NEW units, ProperUnits(units)
    PROVE  /\ Supplemented(p, units) \in Plans(units)
           /\ Shared(p, units, Len(Seeds[p]), Supplemented(p, units))
<1> DEFINE n == Len(Seeds[p])
           start == FirstRound(p, units)
           Reached == [i \in 0..n |-> {plan \in Plans(units) : Shared(p, units, i, plan)}]
           steps == [i \in DOMAIN Seeds[p] |-> Supplement(p, units, i)]
<1>1. n \in Nat /\ DOMAIN Seeds[p] = 1..n
  BY SeedsAreFinite
<1> HIDE DEF n
<1>2. start \in Reached[0]
  <2>1. start \in Plans(units)
    BY FirstRoundPlans
  <2> HIDE DEF start
  <2>2. start \in Seq(Entries(units))
    BY <2>1 DEF Plans
  <2>3. \A k : CountOf(start, k) \in Nat
    BY <2>2, CountIsNatural
  <2>4. \A k : Share(p, 0, k) = 0
    <3>1. \A k : {j \in 1..0 : Seeds[p][j].kind = k} = {}
      OBVIOUS
    <3> QED BY <3>1, FS_EmptySet DEF Share
  <2>5. Shared(p, units, 0, start)
    BY <2>3, <2>4 DEF Shared
  <2>6. 0 \in 0..n
    BY <1>1
  <2> QED BY <2>1, <2>5, <2>6
<1>3. ASSUME NEW i \in 1..n, NEW plan \in Reached[i - 1] PROVE steps[i][plan] \in Reached[i]
  <2>1. i \in 0..n /\ i - 1 \in 0..n /\ i \in DOMAIN Seeds[p] /\ i \in 1..Len(Seeds[p])
    BY <1>1 DEF n
  <2>2. plan \in Plans(units) /\ Shared(p, units, i - 1, plan)
    BY <2>1
  <2>3. steps[i] = Supplement(p, units, i)
    BY <2>1
  <2>4. steps[i][plan] \in Plans(units) /\ Shared(p, units, i, steps[i][plan])
    <3> HIDE DEF steps
    <3> QED BY <2>1, <2>2, <2>3, SupplementShares
  <2> HIDE DEF steps
  <2> QED BY <2>1, <2>4
<1>4. After(steps, start, n) \in Reached[n]
  <2> HIDE DEF steps, start, Reached
  <2> QED BY <1>1, <1>2, <1>3, AfterReaches
<1>5. n \in 0..n
  BY <1>1
<1>6. Supplemented(p, units) = After(steps, start, n)
  BY DEF Supplemented, n
<1> HIDE DEF steps, start
<1>7. Supplemented(p, units) \in Plans(units) /\ Shared(p, units, n, Supplemented(p, units))
  BY <1>4, <1>5, <1>6
<1> QED BY <1>7 DEF n

\* Each kind has its share in the head of a plan.
LEMMA QuotasAreMet ==
    ASSUME NEW p \in DOMAIN Seeds, NEW units, ProperUnits(units)
    PROVE  MeetsQuotas(p, units)
<1>1. Shared(p, units, Len(Seeds[p]), Supplemented(p, units)) /\ DOMAIN Seeds[p] = 1..Len(Seeds[p])
  BY SupplementedShares, SeedsAreFinite
<1> QED BY <1>1 DEF MeetsQuotas, Shared

\* The units of a set, in an order, for one reason.
LEMMA OrderedIsPlan ==
    ASSUME NEW units, IsFiniteSet(units), NEW T \in SUBSET units, NEW before, IsOrder(T, before),
           NEW reason \in {"lexical", "fallback"}, \A u \in T : reason = "lexical" <=> u.score > 0
    PROVE  LET plan == Planned(Ordered(T, before), reason)
           IN  plan \in Plans(units) /\ Chosen(plan) = T
<1> DEFINE list == Ordered(T, before)
           n == Len(list)
           plan == Planned(list, reason)
<1>1. IsFiniteSet(T)
  BY FS_Subset
<1>2. /\ list \in Seq(T)
      /\ \A x \in T : \E i \in 1..n : list[i] = x
      /\ \A i, j \in 1..n : list[i] = list[j] => i = j
  BY <1>1, OrderedLists
<1> HIDE DEF list
<1>3. n \in Nat /\ DOMAIN list = 1..n /\ \A i \in 1..n : list[i] \in T
  BY <1>2
<1> HIDE DEF n
<1>4. plan = [i \in 1..n |-> Entry(list[i], reason)]
  BY <1>3 DEF Planned
<1> HIDE DEF plan
<1>5. \A i \in 1..n : plan[i] \in Entries(units) /\ plan[i].unit = list[i] /\ plan[i].reason = reason
  BY <1>3, <1>4, EntriesAreOfUnits
<1>6. plan \in Seq(Entries(units)) /\ DOMAIN plan = 1..n
  <2>1. plan \in [1..n -> Entries(units)]
    BY <1>4, <1>5
  <2> QED BY <1>3, <1>4, <2>1, InARow
<1>7. Truthful(plan)
  BY <1>3, <1>5, <1>6 DEF Truthful
<1>8. Once(plan)
  BY <1>2, <1>5, <1>6 DEF Once
<1>9. Chosen(plan) = T
  <2>1. Chosen(plan) \subseteq T
    BY <1>3, <1>5, <1>6 DEF Chosen
  <2>2. T \subseteq Chosen(plan)
    BY <1>2, <1>5, <1>6 DEF Chosen
  <2> QED BY <2>1, <2>2
<1>10. plan \in Plans(units)
  BY <1>6, <1>7, <1>8 DEF Plans
<1> QED BY <1>9, <1>10 DEF plan, list

\* Two plans of different units.
LEMMA PlansJoin ==
    ASSUME NEW units, NEW a \in Plans(units), NEW b \in Plans(units), Chosen(a) \cap Chosen(b) = {}
    PROVE  a \o b \in Plans(units) /\ Chosen(a \o b) = Chosen(a) \cup Chosen(b)
<1> DEFINE E == Entries(units)
           c == a \o b
           m == Len(a)
           n == Len(b)
<1>1. /\ a \in Seq(E) /\ Truthful(a) /\ Once(a)
      /\ b \in Seq(E) /\ Truthful(b) /\ Once(b)
  BY DEF Plans
<1> HIDE DEF E
<1>2. /\ c \in Seq(E) /\ Len(c) = m + n
      /\ \A i \in 1..m : c[i] = a[i]
      /\ \A i \in (m + 1)..(m + n) : c[i] = b[i - m]
  BY <1>1, Joined
<1> HIDE DEF c
<1>3. m \in Nat /\ n \in Nat /\ DOMAIN a = 1..m /\ DOMAIN b = 1..n /\ DOMAIN c = 1..(m + n)
  BY <1>1, <1>2
<1> HIDE DEF m, n
<1>4. ASSUME NEW i \in DOMAIN c
      PROVE  \/ i \in DOMAIN a /\ c[i] = a[i] /\ c[i].unit \in Chosen(a)
             \/ i \notin DOMAIN a /\ i - m \in DOMAIN b /\ c[i] = b[i - m] /\ c[i].unit \in Chosen(b)
  <2>1. CASE i <= m
    <3>1. i \in 1..m
      BY <1>3, <2>1
    <3> QED BY <1>2, <1>3, <3>1 DEF Chosen
  <2>2. CASE ~ (i <= m)
    <3>1. i \in (m + 1)..(m + n) /\ i - m \in 1..n /\ i \notin 1..m
      BY <1>3, <2>2
    <3> QED BY <1>2, <1>3, <3>1 DEF Chosen
  <2> QED BY <2>1, <2>2
<1>5. Truthful(c)
  BY <1>1, <1>4 DEF Truthful
<1>6. Once(c)
  <2> SUFFICES ASSUME NEW i \in DOMAIN c, NEW j \in DOMAIN c, c[i].unit = c[j].unit PROVE i = j
    BY DEF Once
  <2>1. CASE i \in DOMAIN a /\ j \in DOMAIN a
    BY <1>1, <1>4, <2>1 DEF Once
  <2>2. CASE i \notin DOMAIN a /\ j \notin DOMAIN a
    <3>1. /\ i - m \in DOMAIN b /\ c[i] = b[i - m]
          /\ j - m \in DOMAIN b /\ c[j] = b[j - m]
      BY <1>4, <2>2
    <3>2. i - m = j - m
      BY <1>1, <3>1 DEF Once
    <3> QED BY <1>3, <3>2
  <2>3. CASE ~ (i \in DOMAIN a <=> j \in DOMAIN a)
    BY <1>4, <2>3
  <2> QED BY <2>1, <2>2, <2>3
<1>7. Chosen(c) \subseteq Chosen(a) \cup Chosen(b)
  BY <1>4 DEF Chosen
<1>8. Chosen(a) \subseteq Chosen(c)
  <2>1. \A i \in DOMAIN a : i \in DOMAIN c /\ c[i] = a[i]
    BY <1>2, <1>3
  <2> QED BY <2>1 DEF Chosen
<1>9. Chosen(b) \subseteq Chosen(c)
  <2>1. ASSUME NEW i \in DOMAIN b PROVE i + m \in DOMAIN c /\ c[i + m] = b[i]
    <3>1. i + m \in (m + 1)..(m + n) /\ i + m \in 1..(m + n) /\ (i + m) - m = i
      BY <1>3
    <3> QED BY <1>2, <1>3, <3>1
  <2> QED BY <2>1 DEF Chosen
<1>10. c \in Plans(units)
  BY <1>2, <1>5, <1>6 DEF Plans, E
<1> QED BY <1>7, <1>8, <1>9, <1>10 DEF c

\* A plan lists every unit once, for its reason.
LEMMA PlanIsComplete ==
    ASSUME NEW p \in DOMAIN Seeds, NEW units, ProperUnits(units)
    PROVE  /\ PlanOf(p, units) \in Plans(units)
           /\ PlansEveryUnit(p, units)
<1> DEFINE head == Supplemented(p, units)
           scored == Positive(units)
           before == ByFallback(p, units)
           left == scored \ Chosen(head)
           others == units \ (scored \cup Chosen(head))
           middle == Planned(Ordered(left, ByScore(units)), "lexical")
           end == Planned(Ordered(others, before), "fallback")
           all == Planned(Ordered(units, before), "fallback")
           plan == PlanOf(p, units)
<1>1. IsFiniteSet(units) /\ \A u \in units : u.score \in Nat
  BY DEF ProperUnits
<1>2. IsOrder(units, before)
  BY UnitsAreRankedByFallback
<1> HIDE DEF before
<1>3. plan = IF scored = {} THEN all ELSE (head \o middle) \o end
  BY DEF PlanOf, before
<1>4. head \in Plans(units)
  BY SupplementedShares
<1>5. Chosen(head) \subseteq units
  BY <1>4, ChosenAreUnits DEF Plans
<1> HIDE DEF head
<1>6. \A u \in units : u \in scored <=> u.score > 0
  BY DEF Positive
<1>7. scored \in SUBSET units
  BY DEF Positive
<1> HIDE DEF scored
<1>8. left \in SUBSET units /\ others \in SUBSET units
  BY <1>7
<1>9. middle \in Plans(units) /\ Chosen(middle) = left
  <2>1. IsOrder(left, ByScore(units))
    BY <1>8, PartsAreRanked
  <2>2. \A u \in left : "lexical" = "lexical" <=> u.score > 0
    BY <1>6, <1>8
  <2> HIDE DEF left
  <2> QED BY <1>1, <1>8, <2>1, <2>2, OrderedIsPlan
<1>10. end \in Plans(units) /\ Chosen(end) = others
  <2>1. IsOrder(others, before)
    BY <1>2, <1>8, PartIsOrdered
  <2>2. \A u \in others : "fallback" = "lexical" <=> u.score > 0
    BY <1>6, <1>8
  <2> HIDE DEF others
  <2> QED BY <1>1, <1>8, <2>1, <2>2, OrderedIsPlan
<1>11. scored = {} => all \in Plans(units) /\ Chosen(all) = units
  <2> SUFFICES ASSUME scored = {} PROVE all \in Plans(units) /\ Chosen(all) = units
    OBVIOUS
  <2>1. \A u \in units : "fallback" = "lexical" <=> u.score > 0
    BY <1>6
  <2>2. units \in SUBSET units
    OBVIOUS
  <2> QED BY <1>1, <1>2, <2>1, <2>2, OrderedIsPlan
<1> HIDE DEF middle, end, all
<1>12. /\ (head \o middle) \o end \in Plans(units)
       /\ Chosen((head \o middle) \o end) = units
  <2>1. Chosen(head) \cap Chosen(middle) = {}
    BY <1>9
  <2>2. head \o middle \in Plans(units) /\ Chosen(head \o middle) = Chosen(head) \cup Chosen(middle)
    BY <1>4, <1>9, <2>1, PlansJoin
  <2>3. Chosen(head \o middle) \cap Chosen(end) = {}
    BY <1>9, <1>10, <2>2
  <2>4. /\ (head \o middle) \o end \in Plans(units)
        /\ Chosen((head \o middle) \o end) = Chosen(head \o middle) \cup Chosen(end)
    BY <1>10, <2>2, <2>3, PlansJoin
  <2>5. (Chosen(head) \cup left) \cup others = units
    BY <1>5, <1>7
  <2> QED BY <1>9, <1>10, <2>2, <2>4, <2>5
<1>13. plan \in Plans(units) /\ Chosen(plan) = units
  BY <1>3, <1>11, <1>12
<1> HIDE DEF plan
<1>14. Len(plan) = Cardinality(units)
  BY <1>1, <1>13, ChosenAreCounted
<1>15. Truthful(plan)
  BY <1>13 DEF Plans
<1> QED BY <1>13, <1>14, <1>15 DEF PlansEveryUnit, Truthful, plan

-----------------------------------------------------------------------------
(* The packages that a workspace registry accepts.                         *)

\* What has ids of its own is ordered by them.
LEMMA IdsAreOrder ==
    ASSUME NEW S, \A x \in S : x.id \in Nat, \A x, y \in S : x.id = y.id => x = y
    PROVE  /\ IsOrder(S, ById(S))
           /\ \A x, y \in S : <<x, y>> \in ById(S) <=> x.id < y.id
<1>1. \A x, y \in S : <<x, y>> \in ById(S) <=> x.id < y.id
  <2> SUFFICES ASSUME NEW x \in S, NEW y \in S PROVE <<x, y>> \in ById(S) <=> x.id < y.id
    OBVIOUS
  <2>1. <<x, y>> \in S \X S /\ <<x, y>>[1] = x /\ <<x, y>>[2] = y
    OBVIOUS
  <2> QED BY <2>1 DEF ById
<1>2. \A x \in S : <<x, x>> \notin ById(S)
  BY <1>1
<1>3. \A x, y \in S : x = y \/ <<x, y>> \in ById(S) \/ <<y, x>> \in ById(S)
  <2> SUFFICES ASSUME NEW x \in S, NEW y \in S, x # y
               PROVE  <<x, y>> \in ById(S) \/ <<y, x>> \in ById(S)
    OBVIOUS
  <2>1. x.id \in Nat /\ y.id \in Nat /\ x.id # y.id
    OBVIOUS
  <2>2. x.id < y.id \/ y.id < x.id
    BY <2>1
  <2> QED BY <1>1, <2>2
<1>4. \A x, y, z \in S : <<x, y>> \in ById(S) /\ <<y, z>> \in ById(S) => <<x, z>> \in ById(S)
  BY <1>1
<1> QED BY <1>1, <1>2, <1>3, <1>4 DEF IsOrder

\* A listing tells what it lists.
LEMMA ListingTells ==
    ASSUME NEW S, IsFiniteSet(S), NEW before, IsOrder(S, before),
           NEW T, IsFiniteSet(T), NEW after, IsOrder(T, after),
           Ordered(S, before) = Ordered(T, after)
    PROVE  S = T
<1>1. ASSUME NEW R, IsFiniteSet(R), NEW order, IsOrder(R, order)
      PROVE  \A x : x \in R <=> \E i \in 1..Len(Ordered(R, order)) : Ordered(R, order)[i] = x
  <2> DEFINE list == Ordered(R, order)
  <2>1. list \in Seq(R) /\ \A x \in R : \E i \in 1..Len(list) : list[i] = x
    BY <1>1, OrderedLists
  <2> HIDE DEF list
  <2>2. \A i \in 1..Len(list) : list[i] \in R
    BY <2>1
  <2>3. \A x : x \in R <=> \E i \in 1..Len(list) : list[i] = x
    BY <2>1, <2>2
  <2> QED BY <2>3 DEF list
<1>2. \A x : x \in S <=> x \in T
  <2> DEFINE list == Ordered(S, before)
  <2>1. \A x : x \in S <=> \E i \in 1..Len(list) : list[i] = x
    BY <1>1
  <2>2. Ordered(T, after) = list
    OBVIOUS
  <2> HIDE DEF list
  <2>3. \A x : x \in T <=> \E i \in 1..Len(list) : list[i] = x
    BY <1>1, <2>2
  <2> QED BY <2>1, <2>3
<1> QED BY <1>2

LEMMA PlacesAreKnown ==
    ASSUME NEW m, IsManifest(m), m.contract \in DOMAIN Documents
    PROVE  /\ IsFiniteSet(DOMAIN m.schemas) /\ DOMAIN m.schemas \subseteq Nat \ {0}
           /\ \A i \in DOMAIN m.schemas : \A j \in DOMAIN m.schemas[i].files : <<i, j>> \in Registered(m)
           /\ \A at \in Registered(m) : \E i \in DOMAIN m.schemas :
                    \E j \in DOMAIN m.schemas[i].files : at = <<i, j>>
           /\ IsFiniteSet(Places(m))
           /\ \A at \in Places(m) : \/ at \in Registered(m)
                                    \/ \E n \in DOMAIN Documents[m.contract] : at = <<0, n>>
           /\ \A n \in DOMAIN Documents[m.contract] : <<0, n>> \in Places(m)
<1> DEFINE D == DOMAIN Documents[m.contract]
           I == DOMAIN m.schemas
           J(i) == DOMAIN m.schemas[i].files
           of == [i \in I |-> {i} \X J(i)]
           sets == {of[i] : i \in I}
<1>1. I = 1..Len(m.schemas) /\ Len(m.schemas) \in Nat
  BY DEF IsManifest
<1>2. IsFiniteSet(I) /\ I \subseteq Nat \ {0}
  BY <1>1, FirstNumbers
<1>3. IsFiniteSet(D)
  <2>1. Documents[m.contract] \in Seq(ToSet(Documents[m.contract]))
    BY DocumentsAssumption
  <2>2. Len(Documents[m.contract]) \in Nat /\ D = 1..Len(Documents[m.contract])
    BY <2>1
  <2> QED BY <2>2, FirstNumbers
<1>4. Registered(m) = UNION sets
  BY DEF Registered
<1>5. \A i \in I : \A j \in J(i) : <<i, j>> \in UNION sets
  OBVIOUS
<1>6. \A at \in UNION sets : \E i \in I : \E j \in J(i) : at = <<i, j>>
  <2> SUFFICES ASSUME NEW at \in UNION sets PROVE \E i \in I : \E j \in J(i) : at = <<i, j>>
    OBVIOUS
  <2>1. PICK T \in sets : at \in T
    OBVIOUS
  <2>2. PICK i \in I : T = of[i]
    BY <2>1
  <2>3. at \in {i} \X J(i)
    BY <2>1, <2>2
  <2>4. at = <<at[1], at[2]>> /\ at[1] = i /\ at[2] \in J(i)
    BY <2>3
  <2> QED BY <2>4
<1>7. ASSUME NEW i \in I PROVE IsFiniteSet(of[i])
  <2>1. m.schemas[i].files \in Seq(ToSet(m.schemas[i].files))
    BY DEF IsManifest
  <2>2. Len(m.schemas[i].files) \in Nat /\ J(i) = 1..Len(m.schemas[i].files)
    BY <2>1
  <2>3. IsFiniteSet(J(i))
    BY <2>2, FirstNumbers
  <2>4. IsFiniteSet({i})
    BY FS_Singleton
  <2>5. IsFiniteSet({i} \X J(i))
    BY <2>3, <2>4, FS_Product
  <2> QED BY <2>5
<1>8. DOMAIN of = I
  OBVIOUS
<1> HIDE DEF of, I, D
<1>9. IsFiniteSet(UNION sets)
  <2>1. IsFiniteSet(sets)
    BY <1>2, <1>8, ImageIsFinite
  <2>2. \A T \in sets : IsFiniteSet(T)
    BY <1>7
  <2> HIDE DEF sets
  <2> QED BY <2>1, <2>2, FS_UNION
<1>10. Places(m) = ({0} \X D) \cup UNION sets
  BY <1>4 DEF Places, D
<1>11. IsFiniteSet({0} \X D)
  <2>1. IsFiniteSet({0})
    BY FS_Singleton
  <2> QED BY <1>3, <2>1, FS_Product
<1> HIDE DEF sets
<1>12. IsFiniteSet(Places(m))
  <2> DEFINE A == {0} \X D
             B == UNION sets
  <2>1. IsFiniteSet(A) /\ IsFiniteSet(B)
    BY <1>9, <1>11
  <2> HIDE DEF A, B
  <2>2. IsFiniteSet(A \cup B)
    BY <2>1, FS_Union
  <2> QED BY <1>10, <2>2 DEF A, B
<1>13. \A at \in Places(m) : at \in UNION sets \/ \E n \in D : at = <<0, n>>
  BY <1>10
<1>14. \A n \in D : <<0, n>> \in Places(m)
  BY <1>10
<1> QED BY <1>2, <1>4, <1>5, <1>6, <1>12, <1>13, <1>14 DEF I, D

\* The sources of an accepted package are as many as its places, with ids of
\* their own.
LEMMA SourcesAreListed ==
    ASSUME NEW w, IsManifest(w.manifest), AcceptedWorkspace(w)
    PROVE  /\ IsFiniteSet(Loaded(w)) /\ Cardinality(Loaded(w)) = Cardinality(Places(w.manifest))
           /\ IsOrder(Loaded(w), ById(Loaded(w)))
           /\ \A s, t \in Loaded(w) : <<s, t>> \in ById(Loaded(w)) <=> s.id < t.id
<1> DEFINE m == w.manifest
           P == Places(m)
           source == [at \in P |-> SourceAt(w, at)]
           L == {source[at] : at \in P}
<1>1. m.contract \in DOMAIN Documents /\ \A a, b \in P : source[a].id = source[b].id => a = b
  BY DEF AcceptedWorkspace, ValidManifest, ValidSources
<1>2. Loaded(w) = L
  BY DEF Loaded
<1>3. IsFiniteSet(P)
  BY <1>1, PlacesAreKnown
<1>4. ASSUME NEW at \in P PROVE SourceAt(w, at).id \in Nat
  <2>1. CASE at \in Registered(m)
    <3>1. PICK i \in DOMAIN m.schemas : \E j \in DOMAIN m.schemas[i].files : at = <<i, j>>
      BY <1>1, <2>1, PlacesAreKnown
    <3>2. PICK j \in DOMAIN m.schemas[i].files : at = <<i, j>>
      BY <3>1
    <3>3. at[1] = i /\ at[2] = j
      BY <3>2
    <3>4. i # 0
      BY <1>1, PlacesAreKnown
    <3> DEFINE schema == m.schemas[i]
               path == m.schemas[i].files[j]
    <3>5. SourceAt(w, at).id = DdlId(schema, path)
      BY <3>3, <3>4 DEF SourceAt, Source, PathAt
    <3>6. schema.id \in Nat /\ path.stem \in DOMAIN Folded
      BY DEF IsManifest, IsPath
    <3>7. Folded[path.stem] \in Nat
      <4>1. Folded \in [DOMAIN Folded -> 0..99]
        BY DocumentsAssumption
      <4> QED BY <3>6, <4>1
    <3> HIDE DEF schema, path
    <3>8. DdlId(schema, path) \in Nat
      BY <3>6, <3>7 DEF DdlId
    <3> QED BY <3>5, <3>8
  <2>2. CASE at \notin Registered(m)
    <3>1. PICK n \in DOMAIN Documents[m.contract] : at = <<0, n>>
      BY <1>1, <2>2, PlacesAreKnown
    <3>2. at[1] = 0 /\ at[2] = n
      BY <3>1
    <3>3. SourceAt(w, at).id = Documents[m.contract][n].id
      BY <3>2 DEF SourceAt, Source
    <3> QED BY <1>1, <3>3, DocumentsAssumption
  <2> QED BY <2>1, <2>2
<1>5. DOMAIN source = P /\ \A at \in P : source[at].id \in Nat
  BY <1>4
<1> HIDE DEF source
<1>6. source \in Bijection(P, L)
  <2>1. source = [at \in P |-> source[at]]
    BY DEF source
  <2>2. source \in [P -> L]
    BY <2>1
  <2>3. \A a, b \in P : source[a] = source[b] => a = b
    BY <1>1
  <2> QED BY <2>2, <2>3 DEF Bijection, Injection, Surjection, IsInjective
<1>7. \A s, t \in L : s.id = t.id => s = t
  BY <1>1
<1>8. \A s \in L : s.id \in Nat
  BY <1>5
<1> HIDE DEF L, P
<1>9. IsFiniteSet(L) /\ Cardinality(L) = Cardinality(P)
  BY <1>3, <1>6, FS_Bijection DEF ExistsBijection
<1>10. IsOrder(L, ById(L)) /\ \A s, t \in L : <<s, t>> \in ById(L) <=> s.id < t.id
  BY <1>7, <1>8, IdsAreOrder
<1> QED BY <1>2, <1>9, <1>10 DEF P

\* The sources of an accepted package are all that it names, by their names.
LEMMA SourcesNamed ==
    ASSUME NEW w, IsManifest(w.manifest)
    PROVE  SourcesAreNamed(w)
<1> DEFINE m == w.manifest
           L == Loaded(w)
           list == SourcesOf(w)
<1> SUFFICES ASSUME AcceptedWorkspace(w)
             PROVE  /\ Len(list) = Cardinality(Places(m))
                    /\ \A i, j \in DOMAIN list : i < j => list[i].id < list[j].id
  BY DEF SourcesAreNamed
<1>1. /\ IsFiniteSet(L) /\ Cardinality(L) = Cardinality(Places(m)) /\ IsOrder(L, ById(L))
      /\ \A s, t \in L : <<s, t>> \in ById(L) <=> s.id < t.id
  BY SourcesAreListed
<1>2. list = Ordered(L, ById(L))
  BY DEF SourcesOf
<1> HIDE DEF L, list
<1>3. /\ list \in Seq(L) /\ Len(list) = Cardinality(L)
      /\ \A i, j \in 1..Len(list) : i < j => <<list[i], list[j]>> \in ById(L)
  BY <1>1, <1>2, OrderedLists
<1>4. DOMAIN list = 1..Len(list) /\ \A i \in DOMAIN list : list[i] \in L
  BY <1>3
<1> QED BY <1>1, <1>3, <1>4

\* Two sources of an accepted package have two names.
LEMMA SourcesDiffer ==
    ASSUME NEW w, AcceptedWorkspace(w), NEW s \in Loaded(w), NEW t \in Loaded(w), s.id = t.id
    PROVE  s = t
<1>1. PICK a \in Places(w.manifest) : s = SourceAt(w, a)
  BY DEF Loaded
<1>2. PICK b \in Places(w.manifest) : t = SourceAt(w, b)
  BY DEF Loaded
<1>3. SourceAt(w, a).id = SourceAt(w, b).id => a = b
  BY DEF AcceptedWorkspace, ValidSources
<1> QED BY <1>1, <1>2, <1>3

\* The statements of the DDL of an accepted package are those of a valid file.
LEMMA DdlIsValid ==
    ASSUME NEW w, IsManifest(w.manifest), AcceptedWorkspace(w),
           NEW s \in Loaded(w), s.kind = DdlKind
    PROVE  /\ \E n \in DOMAIN s.parts : s.parts[n].title # Comment
           /\ \A n \in DOMAIN s.parts : s.parts[n].title # Comment => ~Recognized(s.parts[n].title)
<1> DEFINE m == w.manifest
<1>1. PICK at \in Places(m) : s = SourceAt(w, at)
  BY DEF Loaded
<1>2. m.contract \in DOMAIN Documents
  BY DEF AcceptedWorkspace, ValidManifest
<1>3. at \in Registered(m)
  <2> SUFFICES ASSUME at \notin Registered(m) PROVE FALSE
    OBVIOUS
  <2>1. PICK n \in DOMAIN Documents[m.contract] : at = <<0, n>>
    BY <1>2, PlacesAreKnown
  <2>2. at[1] = 0 /\ at[2] = n
    BY <2>1
  <2>3. s.kind = Documents[m.contract][n].kind
    BY <1>1, <2>2 DEF SourceAt, Source
  <2> QED BY <1>2, <2>3, DocumentsAssumption
<1>4. at[1] # 0
  <2>1. PICK i \in DOMAIN m.schemas : \E j \in DOMAIN m.schemas[i].files : at = <<i, j>>
    BY <1>2, <1>3, PlacesAreKnown
  <2>2. i # 0 /\ at[1] = i
    BY <1>2, <2>1, PlacesAreKnown
  <2> QED BY <2>2
<1>5. s.parts = w.files[PathAt(m, at)].parts
  BY <1>1, <1>4 DEF SourceAt, Source
<1>6. ValidSql(w.files[PathAt(m, at)])
  BY <1>3 DEF AcceptedWorkspace, ValidSources
<1> DEFINE titles == {s.parts[n].title : n \in DOMAIN s.parts} \ {Comment}
<1>7. titles # {} /\ \A title \in titles : ~Recognized(title)
  BY <1>5, <1>6 DEF ValidSql
<1> QED BY <1>7

\* The paths of an accepted schema are told apart by their strings.
LEMMA FilesAreListed ==
    ASSUME NEW w, IsManifest(w.manifest), AcceptedWorkspace(w), NEW i \in DOMAIN w.manifest.schemas
    PROVE  LET files == ToSet(w.manifest.schemas[i].files)
           IN  IsFiniteSet(files) /\ IsOrder(files, ByPath(files))
<1> DEFINE m == w.manifest
           list == m.schemas[i].files
           F == ToSet(list)
<1>1. list \in Seq(F) /\ \A j \in DOMAIN list : IsPath(list[j])
  BY DEF IsManifest
<1>2. IsFiniteSet(F)
  <2> HIDE DEF F, list
  <2>1. list \in Seq(F)
    BY <1>1
  <2>2. IsFiniteSet(ToSet(list))
    BY <2>1, ListIsFinite
  <2> QED BY <2>2 DEF F
<1>3. \A j \in DOMAIN list : <<i, j>> \in Registered(m)
  BY PlacesAreKnown DEF AcceptedWorkspace, ValidManifest
<1>4. ASSUME NEW j \in DOMAIN list PROVE ValidSchemaPath(list[j])
  <2>1. ValidSchemaPath(PathAt(m, <<i, j>>))
    BY <1>3 DEF AcceptedWorkspace, ValidSources
  <2> QED BY <2>1 DEF PathAt
<1> HIDE DEF list
<1>5. \A x \in F : IsPath(x) /\ ValidSchemaPath(x)
  BY <1>1, <1>4 DEF ToSet
<1> HIDE DEF F
<1>6. ASSUME NEW x \in F, NEW y \in F, x.dir = y.dir, x.stem = y.stem PROVE x = y
  <2>1. /\ x = [form |-> x.form, top |-> x.top, dir |-> x.dir, stem |-> x.stem, suffix |-> x.suffix]
        /\ x.form = "relative" /\ x.top = "source-schema" /\ x.suffix = "sql"
    BY <1>5 DEF IsPath, ValidSchemaPath
  <2>2. /\ y = [form |-> y.form, top |-> y.top, dir |-> y.dir, stem |-> y.stem, suffix |-> y.suffix]
        /\ y.form = "relative" /\ y.top = "source-schema" /\ y.suffix = "sql"
    BY <1>5 DEF IsPath, ValidSchemaPath
  <2> QED BY <1>6, <2>1, <2>2
<1>7. \A x, y \in F : <<x, y>> \in ByPath(F) <=> (x.dir < y.dir \/ (x.dir = y.dir /\ x.stem < y.stem))
  <2> SUFFICES ASSUME NEW x \in F, NEW y \in F
               PROVE  <<x, y>> \in ByPath(F) <=> (x.dir < y.dir \/ (x.dir = y.dir /\ x.stem < y.stem))
    OBVIOUS
  <2>1. <<x, y>> \in F \X F /\ <<x, y>>[1] = x /\ <<x, y>>[2] = y
    OBVIOUS
  <2> QED BY <2>1 DEF ByPath
<1>8. \A x \in F : x.dir \in Nat /\ x.stem \in Nat
  BY <1>5, DocumentsAssumption DEF IsPath
<1>9. \A x \in F : <<x, x>> \notin ByPath(F)
  BY <1>7, <1>8
<1>10. ASSUME NEW x \in F, NEW y \in F, x # y PROVE <<x, y>> \in ByPath(F) \/ <<y, x>> \in ByPath(F)
  <2>1. x.dir # y.dir \/ x.stem # y.stem
    BY <1>6, <1>10
  <2>2. x.dir \in Nat /\ x.stem \in Nat /\ y.dir \in Nat /\ y.stem \in Nat
    BY <1>8
  <2>3. \/ x.dir < y.dir \/ (x.dir = y.dir /\ x.stem < y.stem)
        \/ y.dir < x.dir \/ (y.dir = x.dir /\ y.stem < x.stem)
    BY <2>1, <2>2
  <2> QED BY <1>7, <2>3
<1>11. ASSUME NEW x \in F, NEW y \in F, NEW z \in F, <<x, y>> \in ByPath(F), <<y, z>> \in ByPath(F)
       PROVE  <<x, z>> \in ByPath(F)
  <2>1. x.dir < y.dir \/ (x.dir = y.dir /\ x.stem < y.stem)
    BY <1>7, <1>11
  <2>2. y.dir < z.dir \/ (y.dir = z.dir /\ y.stem < z.stem)
    BY <1>7, <1>11
  <2>3. /\ x.dir \in Nat /\ x.stem \in Nat /\ y.dir \in Nat /\ y.stem \in Nat
        /\ z.dir \in Nat /\ z.stem \in Nat
    BY <1>8
  <2>4. x.dir < z.dir \/ (x.dir = z.dir /\ x.stem < z.stem)
    BY <2>1, <2>2, <2>3
  <2> QED BY <1>7, <2>4
<1>12. IsOrder(F, ByPath(F))
  BY <1>9, <1>10, <1>11 DEF IsOrder
<1> QED BY <1>2, <1>12 DEF F, list

\* The schemas of a package, as they are hashed.
Schemas(w) == {Canonical(w.manifest.schemas[i]) : i \in DOMAIN w.manifest.schemas}

LEMMA SchemasAreListed ==
    ASSUME NEW w, IsManifest(w.manifest), AcceptedWorkspace(w)
    PROVE  IsFiniteSet(Schemas(w)) /\ IsOrder(Schemas(w), ById(Schemas(w)))
<1> DEFINE m == w.manifest
           I == DOMAIN m.schemas
           f == [i \in I |-> Canonical(m.schemas[i])]
           S == {f[i] : i \in I}
<1>1. Schemas(w) = S
  BY DEF Schemas
<1>2. IsFiniteSet(I)
  BY PlacesAreKnown DEF AcceptedWorkspace, ValidManifest
<1>3. \A i \in I : f[i].id = m.schemas[i].id /\ m.schemas[i].id \in Nat
  BY DEF Canonical, IsManifest
<1>4. \A i, j \in I : m.schemas[i].id = m.schemas[j].id => i = j
  BY DEF AcceptedWorkspace, ValidManifest, NoRepeats
<1>5. DOMAIN f = I
  OBVIOUS
<1> HIDE DEF f, I
<1>6. IsFiniteSet(S)
  BY <1>2, <1>5, ImageIsFinite
<1>7. (\A x \in S : x.id \in Nat) /\ (\A x, y \in S : x.id = y.id => x = y)
  BY <1>3, <1>4
<1> HIDE DEF S
<1>8. IsOrder(S, ById(S))
  BY <1>7, IdsAreOrder
<1> QED BY <1>1, <1>6, <1>8

\* What is said of the schemas, and of the files.
Facts(w) ==
    {<<w.manifest.schemas[i].id, w.manifest.schemas[i].dialect,
       ToSet(w.manifest.schemas[i].files)>> : i \in DOMAIN w.manifest.schemas}

Content(w) == {<<s.path, s.parts>> : s \in Loaded(w)}

LEMMA SchemasTellFacts ==
    ASSUME NEW v, IsManifest(v.manifest), AcceptedWorkspace(v),
           NEW w, IsManifest(w.manifest), AcceptedWorkspace(w)
    PROVE  Schemas(v) \subseteq Schemas(w) <=> Facts(v) \subseteq Facts(w)
<1> DEFINE V == v.manifest.schemas
           W == w.manifest.schemas
           listed(s) == Ordered(ToSet(s.files), ByPath(ToSet(s.files)))
           fact(s) == <<s.id, s.dialect, ToSet(s.files)>>
<1>1. /\ Facts(v) = {fact(V[i]) : i \in DOMAIN V}
      /\ Facts(w) = {fact(W[i]) : i \in DOMAIN W}
  BY DEF Facts
<1>2. /\ Schemas(v) = {Canonical(V[i]) : i \in DOMAIN V}
      /\ Schemas(w) = {Canonical(W[i]) : i \in DOMAIN W}
  BY DEF Schemas
<1>3. \A s : Canonical(s).id = s.id /\ Canonical(s).dialect = s.dialect /\ Canonical(s).files = listed(s)
  BY DEF Canonical
<1>4. ASSUME NEW i \in DOMAIN V, NEW j \in DOMAIN W
      PROVE  Canonical(V[i]) = Canonical(W[j]) <=> fact(V[i]) = fact(W[j])
  <2>1. ASSUME Canonical(V[i]) = Canonical(W[j]) PROVE fact(V[i]) = fact(W[j])
    <3>1. V[i].id = W[j].id /\ V[i].dialect = W[j].dialect /\ listed(V[i]) = listed(W[j])
      BY <1>3, <2>1
    <3> DEFINE S == ToSet(V[i].files)
               T == ToSet(W[j].files)
    <3>2. IsFiniteSet(S) /\ IsOrder(S, ByPath(S)) /\ IsFiniteSet(T) /\ IsOrder(T, ByPath(T))
      BY FilesAreListed
    <3>3. Ordered(S, ByPath(S)) = Ordered(T, ByPath(T))
      BY <3>1
    <3> HIDE DEF S, T
    <3>4. S = T
      BY <3>2, <3>3, ListingTells
    <3> QED BY <3>1, <3>4 DEF S, T
  <2>2. ASSUME fact(V[i]) = fact(W[j]) PROVE Canonical(V[i]) = Canonical(W[j])
    <3>1. V[i].id = W[j].id /\ V[i].dialect = W[j].dialect /\ ToSet(V[i].files) = ToSet(W[j].files)
      BY <2>2
    <3> QED BY <3>1 DEF Canonical
  <2> QED BY <2>1, <2>2
<1> HIDE DEF V, W, fact
<1>5. Schemas(v) \subseteq Schemas(w) <=> \A i \in DOMAIN V : \E j \in DOMAIN W : Canonical(V[i]) = Canonical(W[j])
  BY <1>2
<1>6. Facts(v) \subseteq Facts(w) <=> \A i \in DOMAIN V : \E j \in DOMAIN W : fact(V[i]) = fact(W[j])
  BY <1>1
<1> QED BY <1>4, <1>5, <1>6

\* What is at a path in one package is at that path in every other that says
\* the same.
LEMMA FactsTellSources ==
    ASSUME NEW v, IsManifest(v.manifest), AcceptedWorkspace(v),
           NEW w, IsManifest(w.manifest), AcceptedWorkspace(w),
           v.manifest.contract = w.manifest.contract,
           Facts(v) \subseteq Facts(w), Content(v) \subseteq Content(w)
    PROVE  Loaded(v) \subseteq Loaded(w)
<1> DEFINE M == v.manifest
           N == w.manifest
<1>1. M.contract \in DOMAIN Documents /\ N.contract = M.contract
  BY DEF AcceptedWorkspace, ValidManifest
<1>2. ASSUME NEW s \in Loaded(w) PROVE s.parts = w.files[s.path].parts
  <2>1. PICK at \in Places(N) : s = SourceAt(w, at)
    BY DEF Loaded
  <2> QED BY <2>1 DEF SourceAt, Source
<1>3. ASSUME NEW s \in Loaded(v) PROVE s.parts = w.files[s.path].parts
  <2>1. <<s.path, s.parts>> \in Content(w)
    BY DEF Content
  <2>2. PICK t \in Loaded(w) : <<s.path, s.parts>> = <<t.path, t.parts>>
    BY <2>1 DEF Content
  <2>3. s.path = t.path /\ s.parts = t.parts
    BY <2>2
  <2> QED BY <1>2, <2>3
<1>4. ASSUME NEW at \in Places(M) PROVE \E b \in Places(N) : SourceAt(v, at) = SourceAt(w, b)
  <2> DEFINE s == SourceAt(v, at)
  <2>1. s \in Loaded(v)
    BY DEF Loaded
  <2>2. s.parts = w.files[s.path].parts
    BY <1>3, <2>1
  <2>3. CASE at \in Registered(M)
    <3>1. PICK i \in DOMAIN M.schemas : \E j \in DOMAIN M.schemas[i].files : at = <<i, j>>
      BY <1>1, <2>3, PlacesAreKnown
    <3>2. PICK j \in DOMAIN M.schemas[i].files : at = <<i, j>>
      BY <3>1
    <3> DEFINE schema == M.schemas[i]
               path == schema.files[j]
    <3>3. at[1] = i /\ at[2] = j /\ i # 0
      BY <1>1, <3>2, PlacesAreKnown
    <3>4. s = Source(DdlId(schema, path), DdlKind, schema.dialect, path, v.files)
      BY <3>3 DEF SourceAt, PathAt
    <3>5. <<schema.id, schema.dialect, ToSet(schema.files)>> \in Facts(w)
      BY DEF Facts
    <3>6. PICK k \in DOMAIN N.schemas :
            <<schema.id, schema.dialect, ToSet(schema.files)>>
                = <<N.schemas[k].id, N.schemas[k].dialect, ToSet(N.schemas[k].files)>>
      BY <3>5 DEF Facts
    <3>7. /\ schema.id = N.schemas[k].id /\ schema.dialect = N.schemas[k].dialect
          /\ ToSet(schema.files) = ToSet(N.schemas[k].files)
      BY <3>6
    <3>8. PICK l \in DOMAIN N.schemas[k].files : path = N.schemas[k].files[l]
      BY <3>7 DEF ToSet
    <3> DEFINE b == <<k, l>>
    <3>9. b \in Registered(N) /\ k # 0
      BY <1>1, PlacesAreKnown
    <3>10. b \in Places(N)
      BY <3>9 DEF Places
    <3>11. SourceAt(w, b) = Source(DdlId(N.schemas[k], path), DdlKind, N.schemas[k].dialect, path, w.files)
      BY <3>8, <3>9 DEF SourceAt, PathAt
    <3>12. DdlId(N.schemas[k], path) = DdlId(schema, path)
      BY <3>7 DEF DdlId
    <3> HIDE DEF s, schema, path, b
    <3>13. s.path = path /\ s.parts = v.files[path].parts
      BY <3>4 DEF Source
    <3>14. v.files[path].parts = w.files[path].parts
      BY <2>2, <3>13
    <3>15. s = SourceAt(w, b)
      BY <3>4, <3>7, <3>11, <3>12, <3>14 DEF Source
    <3> QED BY <3>10, <3>15 DEF s
  <2>4. CASE at \notin Registered(M)
    <3>1. PICK n \in DOMAIN Documents[M.contract] : at = <<0, n>>
      BY <1>1, <2>4, PlacesAreKnown
    <3> DEFINE document == Documents[M.contract][n]
    <3>2. at[1] = 0 /\ at[2] = n
      BY <3>1
    <3>3. s = Source(document.id, document.kind, "none", document.path, v.files)
      BY <3>2 DEF SourceAt
    <3>4. at \in Places(N)
      BY <1>1, <3>1, PlacesAreKnown
    <3>5. SourceAt(w, at) = Source(document.id, document.kind, "none", document.path, w.files)
      BY <1>1, <3>2 DEF SourceAt
    <3> HIDE DEF s, document
    <3>6. s.path = document.path /\ s.parts = v.files[document.path].parts
      BY <3>3 DEF Source
    <3>7. v.files[document.path].parts = w.files[document.path].parts
      BY <2>2, <3>6
    <3>8. s = SourceAt(w, at)
      BY <3>3, <3>5, <3>7 DEF Source
    <3> QED BY <3>4, <3>8 DEF s
  <2> QED BY <2>3, <2>4
<1> QED BY <1>4 DEF Loaded

\* Two accepted packages have one hash just if they say the same.
LEMMA HashesTell ==
    ASSUME NEW v, IsManifest(v.manifest), NEW w, IsManifest(w.manifest)
    PROVE  HashTellsContent(v, w)
<1> SUFFICES ASSUME AcceptedWorkspace(v), AcceptedWorkspace(w)
             PROVE  SourceHash(v) = SourceHash(w) <=> SameFacts(v, w)
  BY DEF HashTellsContent
<1> DEFINE M == v.manifest
           N == w.manifest
           same == M.id = N.id /\ M.version = N.version /\ M.contract = N.contract
<1>1. SameFacts(v, w) <=> same /\ Facts(v) = Facts(w) /\ Content(v) = Content(w)
  BY DEF SameFacts, Facts, Content
<1>2. /\ SourceHash(v) = <<M.id, M.version, M.contract, Ordered(Schemas(v), ById(Schemas(v))), SourcesOf(v)>>
      /\ SourceHash(w) = <<N.id, N.version, N.contract, Ordered(Schemas(w), ById(Schemas(w))), SourcesOf(w)>>
  BY DEF SourceHash, Schemas
<1>3. SourceHash(v) = SourceHash(w) <=>
            /\ same /\ Ordered(Schemas(v), ById(Schemas(v))) = Ordered(Schemas(w), ById(Schemas(w)))
            /\ SourcesOf(v) = SourcesOf(w)
  BY <1>2
<1> HIDE DEF same
<1>4. /\ IsFiniteSet(Schemas(v)) /\ IsOrder(Schemas(v), ById(Schemas(v)))
      /\ IsFiniteSet(Schemas(w)) /\ IsOrder(Schemas(w), ById(Schemas(w)))
  BY SchemasAreListed
<1>5. /\ IsFiniteSet(Loaded(v)) /\ IsOrder(Loaded(v), ById(Loaded(v)))
      /\ IsFiniteSet(Loaded(w)) /\ IsOrder(Loaded(w), ById(Loaded(w)))
  BY SourcesAreListed
<1>6. Ordered(Schemas(v), ById(Schemas(v))) = Ordered(Schemas(w), ById(Schemas(w))) <=> Schemas(v) = Schemas(w)
  BY <1>4, ListingTells
<1>7. SourcesOf(v) = SourcesOf(w) <=> Loaded(v) = Loaded(w)
  <2>1. SourcesOf(v) = Ordered(Loaded(v), ById(Loaded(v))) /\ SourcesOf(w) = Ordered(Loaded(w), ById(Loaded(w)))
    BY DEF SourcesOf
  <2> QED BY <1>5, <2>1, ListingTells
<1>8. Schemas(v) = Schemas(w) <=> Facts(v) = Facts(w)
  <2>1. Schemas(v) \subseteq Schemas(w) <=> Facts(v) \subseteq Facts(w)
    BY SchemasTellFacts
  <2>2. Schemas(w) \subseteq Schemas(v) <=> Facts(w) \subseteq Facts(v)
    BY SchemasTellFacts
  <2> QED BY <2>1, <2>2
<1>9. Loaded(v) = Loaded(w) => Content(v) = Content(w)
  BY DEF Content
<1>10. same /\ Facts(v) = Facts(w) /\ Content(v) = Content(w) => Loaded(v) = Loaded(w)
  <2> SUFFICES ASSUME same, Facts(v) = Facts(w), Content(v) = Content(w) PROVE Loaded(v) = Loaded(w)
    OBVIOUS
  <2>1. v.manifest.contract = w.manifest.contract
    BY DEF same
  <2>2. Loaded(v) \subseteq Loaded(w)
    BY <2>1, FactsTellSources
  <2>3. Loaded(w) \subseteq Loaded(v)
    BY <2>1, FactsTellSources
  <2> QED BY <2>2, <2>3
<1> QED BY <1>1, <1>3, <1>6, <1>7, <1>8, <1>9, <1>10
=============================================================================
