----------------------- MODULE TemplateContextProofs -----------------------
(***************************************************************************)
(* Proofs about the selection of expert templates: what a context may      *)
(* consist of, whatever documents were loaded for it.                      *)
(***************************************************************************)
EXTENDS TemplateContext, Iterations, FunctionTheorems

-----------------------------------------------------------------------------
(* The selection, for whatever documents were loaded.                      *)

\* What the constants are, wherever a selection is made.
ConstantsFit ==
    IsFiniteSet(Ids) /\ NoParent \notin Ids /\ TopK \in Nat \ {0} /\ Budget \in Nat

Document == [extends: Ids \cup {NoParent}, core: BOOLEAN, size: Nat]

Documents == [Ids -> Document \cup {Missing}]

\* Versions that were loaded, each before the version that extends it, none
\* twice; of n versions, or complete.
ChainOf(docs, n) ==
    {c \in Seq(Ids) :
        /\ \A i \in 1..Len(c) : docs[c[i]] # Missing
        /\ \A i, j \in 1..Len(c) : c[i] = c[j] => i = j
        /\ \A i \in 2..Len(c) : docs[c[i]].extends = c[i - 1]
        /\ c = <<>> \/ Len(c) = n \/ docs[c[1]].extends = NoParent}

\* Every loaded version extends a version or nothing.
LEMMA ExtendsTyped ==
    ASSUME NEW docs \in Documents, NEW k \in Ids, docs[k] # Missing
    PROVE  docs[k].extends \in Ids \cup {NoParent}
BY DEF Documents, Document

LEMMA ExtendedIsChain ==
    ASSUME NEW docs \in Documents, NEW n \in Nat \ {0}, NEW c \in ChainOf(docs, n)
    PROVE  Extended(docs)[c] \in ChainOf(docs, n + 1)
<1> DEFINE parent == docs[c[1]].extends
           longer == <<parent>> \o c
<1>1. c \in Seq(Ids) /\ Len(c) \in Nat
    BY DEF ChainOf
<1>2. Extended(docs)[c] =
        IF c = <<>> \/ parent = NoParent THEN c
        ELSE IF docs[parent] = Missing \/ ~docs[parent].core \/ parent \in ToSet(c) THEN <<>>
        ELSE longer
    BY <1>1 DEF Extended, ToSet
<1>3. <<>> \in ChainOf(docs, n + 1)
    BY DEF ChainOf
<1>4. c = <<>> \/ parent = NoParent => c \in ChainOf(docs, n + 1)
    BY DEF ChainOf
<1>5. ASSUME c # <<>>, parent # NoParent, docs[parent] # Missing, parent \notin ToSet(c)
      PROVE  longer \in ChainOf(docs, n + 1)
  <2>1. 1 \in 1..Len(c) /\ c[1] \in Ids /\ docs[c[1]] # Missing /\ Len(c) = n
      BY <1>1, <1>5 DEF ChainOf
  <2>2. parent \in Ids
      BY <1>5, <2>1, ExtendsTyped
  <2> HIDE DEF parent
  <2>3. longer \in Seq(Ids) /\ Len(longer) = n + 1 /\ longer[1] = parent
      BY <1>1, <2>1, <2>2
  <2>4. \A i \in 2..(n + 1) : i - 1 \in 1..n /\ longer[i] = c[i - 1]
      BY <1>1, <2>1, <2>2
  <2>5. \A i \in 1..n : c[i] # parent
      BY <1>1, <1>5, <2>1 DEF ToSet
  <2> HIDE DEF longer
  <2>6. \A i \in 1..Len(longer) : docs[longer[i]] # Missing
    <3> SUFFICES ASSUME NEW i \in 1..(n + 1) PROVE docs[longer[i]] # Missing
        BY <2>3
    <3>1. CASE i = 1
        BY <1>5, <2>3, <3>1
    <3>2. CASE i # 1
      <4>1. i \in 2..(n + 1)
          BY <3>2
      <4>2. i - 1 \in 1..Len(c) /\ longer[i] = c[i - 1]
          BY <2>1, <2>4, <4>1
      <4> QED BY <4>2 DEF ChainOf
    <3> QED BY <3>1, <3>2
  <2>7. \A i, j \in 1..Len(longer) : longer[i] = longer[j] => i = j
    <3> SUFFICES ASSUME NEW i \in 1..(n + 1), NEW j \in 1..(n + 1), longer[i] = longer[j] PROVE i = j
        BY <2>3
    <3>1. CASE i \in 2..(n + 1) /\ j \in 2..(n + 1)
      <4>1. i - 1 \in 1..Len(c) /\ j - 1 \in 1..Len(c) /\ c[i - 1] = c[j - 1]
          BY <2>1, <2>4, <3>1
      <4>2. i - 1 = j - 1
          BY <4>1 DEF ChainOf
      <4> QED BY <4>2
    <3>2. CASE i \notin 2..(n + 1) \/ j \notin 2..(n + 1)
      <4>1. i = 1 \/ j = 1
          BY <3>2
      <4> QED BY <2>3, <2>4, <2>5, <4>1
    <3> QED BY <3>1, <3>2
  <2>8. \A i \in 2..Len(longer) : docs[longer[i]].extends = longer[i - 1]
    <3> SUFFICES ASSUME NEW i \in 2..(n + 1) PROVE docs[longer[i]].extends = longer[i - 1]
        BY <2>3
    <3>1. CASE i = 2
        BY <2>1, <2>3, <2>4, <3>1 DEF parent
    <3>2. CASE i # 2
      <4>1. i - 1 \in 2..(n + 1) /\ i - 1 \in 2..Len(c)
          BY <2>1, <3>2
      <4>2. docs[c[i - 1]].extends = c[(i - 1) - 1]
          BY <4>1 DEF ChainOf
      <4> QED BY <2>4, <4>1, <4>2
    <3> QED BY <3>1, <3>2
  <2> QED BY <2>3, <2>6, <2>7, <2>8 DEF ChainOf
<1> HIDE DEF parent, longer
<1> QED BY <1>2, <1>3, <1>4, <1>5

\* A version is behind all that it extends, or is not taken.
LEMMA ChainIsComplete ==
    ASSUME ConstantsFit, NEW docs \in Documents, NEW k \in Ids, NEW c, c = DependencyChain(docs, k)
    PROVE  \E n \in Nat : c \in ChainOf(docs, n) /\ (c # <<>> => docs[c[1]].extends = NoParent)
<1> DEFINE N == Cardinality(Ids)
           steps == [n \in 1..N |-> Extended(docs)]
           Reached == [n \in 0..N |-> ChainOf(docs, n + 1)]
<1>1. N \in Nat
    BY FS_CardinalityType DEF ConstantsFit
<1>2. CASE docs[k] = Missing
  <2>1. c = <<>>
      BY <1>2 DEF DependencyChain
  <2>2. <<>> \in ChainOf(docs, 0)
      BY DEF ChainOf
  <2> QED BY <2>1, <2>2
<1>3. CASE docs[k] # Missing
  <2>1. c = After(steps, <<k>>, N)
      BY <1>3 DEF DependencyChain, Cardinality
  <2>3. <<k>> \in ChainOf(docs, 1)
    <3>1. <<k>> \in Seq(Ids) /\ Len(<<k>>) = 1 /\ <<k>>[1] = k
        OBVIOUS
    <3> QED BY <1>3, <3>1 DEF ChainOf
  <2>4. <<k>> \in Reached[0]
      BY <1>1, <2>3
  <2>5. ASSUME NEW n \in 1..N, NEW v \in Reached[n - 1] PROVE steps[n][v] \in Reached[n]
    <3>1. n - 1 \in 0..N /\ n \in 0..N /\ (n - 1) + 1 = n /\ n \in Nat \ {0}
        BY <1>1
    <3>2. v \in ChainOf(docs, n) /\ Reached[n] = ChainOf(docs, n + 1)
        BY <2>5, <3>1
    <3> HIDE DEF Reached
    <3> QED BY <3>1, <3>2, ExtendedIsChain
  <2>6. c \in Reached[N]
    <3> HIDE DEF N, Reached, steps
    <3> QED BY <1>1, <2>1, <2>4, <2>5, AfterReaches
  <2>7. c \in ChainOf(docs, N + 1)
      BY <1>1, <2>6
  <2> HIDE DEF N
  <2>8. CASE Len(c) = N + 1
    <3>1. c \in Seq(Ids) /\ \A i, j \in 1..Len(c) : c[i] = c[j] => i = j
        BY <2>7 DEF ChainOf
    <3>2. c \in [1..(N + 1) -> Ids]
        BY <2>8, <3>1
    <3>3. c \in Injection(1..(N + 1), Ids)
        BY <2>8, <3>1, <3>2, Fun_IsInj
    <3>4. Cardinality(1..(N + 1)) <= Cardinality(Ids)
        BY <3>3, FS_Injection DEF ConstantsFit
    <3>5. Cardinality(1..(N + 1)) = N + 1
        BY <1>1, FS_Interval
    <3> QED BY <1>1, <3>4, <3>5 DEF N
  <2>9. CASE Len(c) # N + 1
      BY <1>1, <2>7, <2>9 DEF ChainOf
  <2> QED BY <1>1, <2>7, <2>8, <2>9
<1> QED BY <1>2, <1>3

\* A selection in which every version has been loaded and comes after the one
\* that it extends.
Complete(docs) ==
    {s \in Seq(Ids) :
        \A i \in 1..Len(s) :
            /\ docs[s[i]] # Missing
            /\ docs[s[i]].extends # NoParent => \E j \in 1..(i - 1) : s[j] = docs[s[i]].extends}

LEMMA WithIsComplete ==
    ASSUME NEW docs \in Documents, NEW s \in Complete(docs), NEW k \in Ids, docs[k] # Missing,
           docs[k].extends # NoParent => docs[k].extends \in ToSet(s)
    PROVE  /\ With(k)[s] \in Complete(docs)
           /\ ToSet(s) \cup {k} \subseteq ToSet(With(k)[s])
<1>1. s \in Seq(Ids) /\ Len(s) \in Nat
    BY DEF Complete
<1>2. With(k)[s] = IF k \in ToSet(s) THEN s ELSE Append(s, k)
    BY <1>1 DEF With, ToSet
<1>3. ASSUME NEW longer, longer = Append(s, k)
      PROVE  longer \in Complete(docs) /\ ToSet(s) \cup {k} \subseteq ToSet(longer)
  <2>1. /\ longer \in Seq(Ids) /\ Len(longer) = Len(s) + 1
        /\ longer[Len(s) + 1] = k
        /\ \A i \in 1..Len(s) : longer[i] = s[i]
      BY <1>1, <1>3
  <2>2. ASSUME NEW i \in 1..(Len(s) + 1)
        PROVE  /\ docs[longer[i]] # Missing
               /\ docs[longer[i]].extends # NoParent =>
                    \E j \in 1..(i - 1) : longer[j] = docs[longer[i]].extends
    <3>1. CASE i = Len(s) + 1
      <4>1. docs[k].extends # NoParent => \E j \in 1..Len(s) : s[j] = docs[k].extends
          BY <1>1 DEF ToSet
      <4> QED BY <1>1, <2>1, <3>1, <4>1
    <3>2. CASE i # Len(s) + 1
      <4>1. i \in 1..Len(s) /\ longer[i] = s[i]
          BY <1>1, <2>1, <3>2
      <4>2. docs[s[i]] # Missing
          BY <4>1 DEF Complete
      <4>3. docs[s[i]].extends # NoParent => \E j \in 1..(i - 1) : s[j] = docs[s[i]].extends
          BY <4>1 DEF Complete
      <4>4. \A j \in 1..(i - 1) : longer[j] = s[j]
          BY <1>1, <2>1, <4>1
      <4> QED BY <4>1, <4>2, <4>3, <4>4
    <3> QED BY <3>1, <3>2
  <2>3. longer \in Complete(docs)
      BY <2>1, <2>2 DEF Complete
  <2>4. \A i \in 1..(Len(s) + 1) : longer[i] \in ToSet(longer)
      BY <1>1, <2>1 DEF ToSet
  <2>5. ToSet(s) \subseteq ToSet(longer)
    <3>1. ASSUME NEW i \in 1..Len(s) PROVE s[i] \in ToSet(longer)
      <4>1. i \in 1..(Len(s) + 1)
          BY <1>1
      <4> QED BY <2>1, <2>4, <4>1
    <3> QED BY <1>1, <3>1 DEF ToSet
  <2>6. k \in ToSet(longer)
    <3>1. Len(s) + 1 \in 1..(Len(s) + 1)
        BY <1>1
    <3> QED BY <2>1, <2>4, <3>1
  <2> QED BY <2>3, <2>5, <2>6
<1> QED BY <1>2, <1>3

\* A chain completes a selection.
LEMMA CompletedIsComplete ==
    ASSUME ConstantsFit, NEW docs \in Documents, NEW s \in Complete(docs), NEW k \in Ids,
           NEW c, c = DependencyChain(docs, k)
    PROVE  c \in Seq(Ids) /\ Completed(s)[c] \in Complete(docs)
<1>1. PICK n \in Nat : c \in ChainOf(docs, n) /\ (c # <<>> => docs[c[1]].extends = NoParent)
    BY ChainIsComplete
<1>2. c \in Seq(Ids) /\ Len(c) \in Nat /\ DOMAIN c = 1..Len(c)
    BY <1>1 DEF ChainOf
<1> DEFINE steps == [i \in DOMAIN c |-> With(c[i])]
           Reached == [i \in 0..Len(c) |->
                        {t \in Complete(docs) : \A j \in 1..i : c[j] \in ToSet(t)}]
<1>3. Completed(s)[c] = After(steps, s, Len(c))
    BY <1>2 DEF Completed
<1>5. s \in Reached[0]
    BY <1>2
<1>6. ASSUME NEW i \in 1..Len(c), NEW t \in Reached[i - 1] PROVE steps[i][t] \in Reached[i]
  <2>1. i - 1 \in 0..Len(c) /\ i \in 0..Len(c) /\ steps[i] = With(c[i])
      BY <1>2
  <2>2. t \in Complete(docs) /\ \A j \in 1..(i - 1) : c[j] \in ToSet(t)
    <3>1. Reached[i - 1] = {u \in Complete(docs) : \A j \in 1..(i - 1) : c[j] \in ToSet(u)}
        BY <2>1
    <3> HIDE DEF Reached
    <3> QED BY <1>6, <3>1
  <2>3. c[i] \in Ids /\ docs[c[i]] # Missing
    <3> HIDE DEF Reached, steps
    <3>1. i \in 1..Len(c)
        OBVIOUS
    <3>2. docs[c[i]] # Missing
        BY <1>1, <3>1 DEF ChainOf
    <3>3. c[i] \in Ids
        BY <1>2, <3>1
    <3> QED BY <3>2, <3>3
  <2>4. docs[c[i]].extends # NoParent => docs[c[i]].extends \in ToSet(t)
    <3>1. CASE i = 1
      <4>1. c # <<>>
          BY <1>2, <3>1
      <4> QED BY <1>1, <3>1, <4>1
    <3>2. CASE i # 1
      <4>1. i \in 2..Len(c) /\ i - 1 \in 1..(i - 1)
          BY <1>2, <3>2
      <4>2. docs[c[i]].extends = c[i - 1]
          BY <1>1, <4>1 DEF ChainOf
      <4> QED BY <2>2, <4>1, <4>2
    <3> QED BY <3>1, <3>2
  <2>5. /\ With(c[i])[t] \in Complete(docs)
        /\ ToSet(t) \cup {c[i]} \subseteq ToSet(With(c[i])[t])
      BY <2>2, <2>3, <2>4, WithIsComplete
  <2>6. \A j \in 1..i : c[j] \in ToSet(With(c[i])[t])
    <3>1. \A j \in 1..i : j = i \/ j \in 1..(i - 1)
        OBVIOUS
    <3> QED BY <2>2, <2>5, <3>1
  <2>7. With(c[i])[t] \in Reached[i]
      BY <2>1, <2>5, <2>6
  <2> QED BY <2>1, <2>7
<1>7. After(steps, s, Len(c)) \in Reached[Len(c)]
  <2> HIDE DEF Reached, steps
  <2> QED BY <1>2, <1>5, <1>6, AfterReaches
<1> QED BY <1>2, <1>3, <1>7

\* What build returns, of whatever was loaded.
LEMMA ContextIsComplete ==
    ASSUME ConstantsFit, NEW docs \in Documents, NEW ranked \in Seq(Ids),
           NEW s, s = Build(docs, ranked)
    PROVE  s \in Complete(docs)
<1> DEFINE steps == [i \in DOMAIN ranked |-> Take(docs, ranked[i])]
           start == [selected |-> <<>>, majors |-> 0]
           Selections == {t \in Taken : t.selected \in Complete(docs)}
           Reached == [i \in 0..Len(ranked) |-> Selections]
<1>1. Len(ranked) \in Nat /\ DOMAIN ranked = 1..Len(ranked)
    OBVIOUS
<1>2. s = After(steps, start, Len(ranked)).selected
    BY DEF Build
<1>4. start \in Selections
  <2>1. <<>> \in Complete(docs)
      BY DEF Complete
  <2> QED BY <2>1 DEF Taken
<1>5. ASSUME NEW i \in 1..Len(ranked), NEW t \in Selections PROVE steps[i][t] \in Selections
  <2>1. ranked[i] \in Ids /\ steps[i] = Take(docs, ranked[i])
      BY <1>1
  <2>2. t \in Taken /\ t.selected \in Complete(docs) /\ t.majors \in Nat
      BY DEF Taken
  <2> DEFINE proposed == Completed(t.selected)[DependencyChain(docs, ranked[i])]
  <2>3. proposed \in Complete(docs)
      BY <2>1, <2>2, CompletedIsComplete
  <2>4. \/ Take(docs, ranked[i])[t] = t
        \/ Take(docs, ranked[i])[t] = [selected |-> proposed, majors |-> t.majors + 1]
      BY <2>2 DEF Take
  <2> HIDE DEF proposed
  <2>5. [selected |-> proposed, majors |-> t.majors + 1] \in Selections
      BY <2>2, <2>3 DEF Taken, Complete
  <2> QED BY <1>5, <2>1, <2>4, <2>5
<1>6. start \in Reached[0] /\ \A i \in 1..Len(ranked) : \A t \in Reached[i - 1] : steps[i][t] \in Reached[i]
  <2>1. 0 \in 0..Len(ranked) /\ \A i \in 1..Len(ranked) : i - 1 \in 0..Len(ranked) /\ i \in 0..Len(ranked)
      BY <1>1
  <2> HIDE DEF Selections, steps, start
  <2> QED BY <1>4, <1>5, <2>1
<1>7. After(steps, start, Len(ranked)) \in Reached[Len(ranked)]
  <2> HIDE DEF Reached, steps, start
  <2> QED BY <1>1, <1>6, AfterReaches
<1>8. Reached[Len(ranked)] = Selections
    BY <1>1
<1> QED BY <1>2, <1>7, <1>8

\* A chain brings nothing else to a selection.
LEMMA CompletedIsFromChain ==
    ASSUME NEW S \in SUBSET Ids, NEW s \in Seq(S), NEW c \in Seq(S)
    PROVE  Completed(s)[c] \in Seq(S)
<1> DEFINE steps == [n \in DOMAIN c |-> With(c[n])]
           Reached == [n \in 0..Len(c) |-> Seq(S)]
<1>1. Len(c) \in Nat /\ DOMAIN c = 1..Len(c) /\ c \in Seq(Ids)
    OBVIOUS
<1>2. Completed(s)[c] = After(steps, s, Len(c))
    BY <1>1 DEF Completed
<1>3. s \in Reached[0]
    BY <1>1
<1>4. ASSUME NEW n \in 1..Len(c), NEW t \in Reached[n - 1] PROVE steps[n][t] \in Reached[n]
  <2>1. t \in Seq(S) /\ t \in Seq(Ids) /\ c[n] \in S /\ steps[n] = With(c[n]) /\ Reached[n] = Seq(S)
      BY <1>1
  <2>2. With(c[n])[t] \in {t, Append(t, c[n])}
      BY <2>1 DEF With
  <2>3. Append(t, c[n]) \in Seq(S)
      BY <2>1
  <2>4. With(c[n])[t] \in Seq(S)
      BY <2>1, <2>2, <2>3
  <2> HIDE DEF Reached, steps
  <2> QED BY <2>1, <2>4
<1>5. After(steps, s, Len(c)) \in Reached[Len(c)]
  <2> HIDE DEF Reached, steps
  <2> QED BY <1>1, <1>3, <1>4, AfterReaches
<1> QED BY <1>1, <1>2, <1>5

\* A selection is made of chains.
LEMMA ContextIsFromChains ==
    ASSUME NEW docs, NEW ranked \in Seq(Ids), NEW S \in SUBSET Ids,
           \A n \in DOMAIN ranked : DependencyChain(docs, ranked[n]) \in Seq(S)
    PROVE  Build(docs, ranked) \in Seq(S)
<1> DEFINE steps == [i \in DOMAIN ranked |-> Take(docs, ranked[i])]
           start == [selected |-> <<>>, majors |-> 0]
           Selections == {t \in Taken : t.selected \in Seq(S)}
           Reached == [i \in 0..Len(ranked) |-> Selections]
<1>1. Len(ranked) \in Nat /\ DOMAIN ranked = 1..Len(ranked)
    OBVIOUS
<1>2. Build(docs, ranked) = After(steps, start, Len(ranked)).selected
    BY DEF Build
<1>3. start \in Selections
  <2>1. <<>> \in Seq(S) /\ <<>> \in Seq(Ids)
      OBVIOUS
  <2> QED BY <2>1 DEF Taken
<1>4. ASSUME NEW i \in 1..Len(ranked), NEW t \in Selections PROVE steps[i][t] \in Selections
  <2>1. i \in DOMAIN ranked /\ steps[i] = Take(docs, ranked[i])
      BY <1>1
  <2>2. t \in Taken /\ t.selected \in Seq(S) /\ t.majors \in Nat
      BY DEF Taken
  <2> DEFINE proposed == Completed(t.selected)[DependencyChain(docs, ranked[i])]
  <2>3. proposed \in Seq(S)
      BY <2>1, <2>2, CompletedIsFromChain
  <2>4. \/ Take(docs, ranked[i])[t] = t
        \/ Take(docs, ranked[i])[t] = [selected |-> proposed, majors |-> t.majors + 1]
      BY <2>2 DEF Take
  <2> HIDE DEF proposed
  <2>5. proposed \in Seq(Ids)
      BY <2>3
  <2>6. [selected |-> proposed, majors |-> t.majors + 1] \in Selections
      BY <2>2, <2>3, <2>5 DEF Taken
  <2> QED BY <1>4, <2>1, <2>4, <2>6
<1>5. start \in Reached[0] /\ \A i \in 1..Len(ranked) : \A t \in Reached[i - 1] : steps[i][t] \in Reached[i]
  <2>1. 0 \in 0..Len(ranked) /\ \A i \in 1..Len(ranked) : i - 1 \in 0..Len(ranked) /\ i \in 0..Len(ranked)
      BY <1>1
  <2> HIDE DEF Selections, steps, start
  <2> QED BY <1>3, <1>4, <2>1
<1>6. After(steps, start, Len(ranked)) \in Reached[Len(ranked)]
  <2> HIDE DEF Reached, steps, start
  <2> QED BY <1>1, <1>5, AfterReaches
<1>7. Reached[Len(ranked)] = Selections
    BY <1>1
<1> QED BY <1>2, <1>6, <1>7

-----------------------------------------------------------------------------
(* Versions that extend nothing, or one that extends nothing.              *)

\* A version that extends nothing, or one that extends nothing.
IsShort(docs, k, c) ==
    /\ docs[k] # Missing
    /\ \/ docs[k].extends = NoParent /\ c = <<k>>
       \/ \E p \in Ids : /\ docs[k].extends = p /\ c = <<p, k>>
                          /\ docs[p] # Missing /\ docs[p].core /\ docs[p].extends = NoParent

LEMMA ShortChain ==
    ASSUME ConstantsFit, NEW docs \in Documents, NEW k \in Ids, NEW c, IsShort(docs, k, c)
    PROVE  DependencyChain(docs, k) = c
<1> DEFINE N == Cardinality(Ids)
           steps == [n \in 1..N |-> Extended(docs)]
           Reached == [n \in 0..N |-> IF n = 0 THEN {<<k>>} ELSE {c}]
<1>1. N \in Nat /\ N # 0
    BY FS_CardinalityType, FS_EmptySet DEF ConstantsFit
<1>2. DependencyChain(docs, k) = After(steps, <<k>>, N)
    BY DEF IsShort, DependencyChain, Cardinality
<1>4. NoParent \notin Ids
    BY DEF ConstantsFit
<1>5. Extended(docs)[<<k>>] = c /\ Extended(docs)[c] = c
  <2>1. CASE docs[k].extends = NoParent /\ c = <<k>>
    <3>1. <<k>> \in Seq(Ids) /\ <<k>>[1] = k
        OBVIOUS
    <3> QED BY <2>1, <3>1 DEF Extended
  <2>2. ASSUME NEW p \in Ids, docs[k].extends = p, c = <<p, k>>,
               docs[p] # Missing, docs[p].core, docs[p].extends = NoParent
        PROVE  Extended(docs)[<<k>>] = c /\ Extended(docs)[c] = c
    <3>1. /\ <<k>> \in Seq(Ids) /\ <<k>>[1] = k /\ <<k>> # <<>>
          /\ <<p, k>> \in Seq(Ids) /\ <<p, k>>[1] = p
          /\ <<p>> \o <<k>> = <<p, k>>
        BY PairOf
    <3>2. p \notin ToSet(<<k>>)
        BY <1>4, <2>2 DEF ToSet
    <3>3. Extended(docs)[<<k>>] = c
        BY <1>4, <2>2, <3>1, <3>2 DEF Extended, ToSet
    <3>4. Extended(docs)[c] = c
        BY <2>2, <3>1 DEF Extended
    <3> QED BY <3>3, <3>4
  <2> QED BY <2>1, <2>2 DEF IsShort
<1>6. <<k>> \in Reached[0] /\ \A n \in 1..N : \A v \in Reached[n - 1] : steps[n][v] \in Reached[n]
  <2>1. <<k>> \in Reached[0]
      BY <1>1
  <2>2. ASSUME NEW n \in 1..N, NEW v \in Reached[n - 1] PROVE steps[n][v] \in Reached[n]
    <3>1. v \in {<<k>>, c} /\ steps[n] = Extended(docs) /\ Reached[n] = {c}
        BY <1>1, <2>2
    <3> QED BY <1>5, <3>1
  <2> QED BY <2>1, <2>2
<1>7. After(steps, <<k>>, N) \in Reached[N]
  <2> HIDE DEF Reached, steps, N
  <2> QED BY <1>1, <1>6, AfterReaches
<1> QED BY <1>1, <1>2, <1>7

LEMMA ShortFills ==
    ASSUME ConstantsFit, NEW docs \in Documents, NEW k \in Ids, NEW c, IsShort(docs, k, c)
    PROVE  Completed(<<>>)[c] = c
<1>1. <<>> \in Seq(Ids) /\ ToSet(<<>>) = {} /\ NoParent \notin Ids
    BY DEF ConstantsFit, ToSet
<1>2. ASSUME NEW p \in Ids PROVE With(p)[<<>>] = <<p>>
    BY <1>1 DEF With, ToSet
<1>3. CASE c = <<k>>
  <2> DEFINE steps == [n \in DOMAIN c |-> With(c[n])]
  <2>1. Completed(<<>>)[c] = After(steps, <<>>, Len(c))
      BY <1>3 DEF Completed
  <2>3. Len(c) = 1 /\ steps[1] = With(k)
      BY <1>3
  <2> HIDE DEF steps
  <2>4. steps[1][<<>>] = <<k>>
      BY <1>2, <2>3
  <2> QED BY <1>3, <2>1, <2>3, <2>4, AfterOne
<1>4. ASSUME NEW p \in Ids, p # k, c = <<p, k>> PROVE Completed(<<>>)[c] = c
  <2> DEFINE steps == [n \in DOMAIN c |-> With(c[n])]
  <2>1. Completed(<<>>)[c] = After(steps, <<>>, Len(c))
      BY <1>4 DEF Completed
  <2>3. Len(c) = 2 /\ steps[1] = With(p) /\ steps[2] = With(k)
      BY <1>4
  <2> HIDE DEF steps
  <2>4. steps[1][<<>>] = <<p>>
      BY <1>2, <2>3
  <2>5. <<p>> \in Seq(Ids) /\ k \notin ToSet(<<p>>) /\ Append(<<p>>, k) = <<p, k>>
    <3>1. ToSet(<<p>>) = {p}
        BY DEF ToSet
    <3>2. k \notin ToSet(<<p>>)
        BY <1>4, <3>1
    <3>3. Append(<<p>>, k) = <<p, k>>
        BY PairOf
    <3>4. <<p>> \in Seq(Ids)
        OBVIOUS
    <3> QED BY <3>2, <3>3, <3>4
  <2>6. steps[2][<<p>>] = <<p, k>>
      BY <2>3, <2>5 DEF With, ToSet
  <2> QED BY <1>4, <2>1, <2>3, <2>4, <2>6, AfterOne
<1> QED BY <1>1, <1>3, <1>4 DEF IsShort

\* What a version needs in tokens with the one that it extends.
LEMMA ShortTokens ==
    ASSUME ConstantsFit, NEW docs \in Documents, NEW k \in Ids, NEW c, IsShort(docs, k, c)
    PROVE  Tokens(docs, c) =
              docs[k].size + IF docs[k].extends = NoParent THEN 0 ELSE docs[docs[k].extends].size
<1> DEFINE steps == [n \in DOMAIN c |-> [sum \in Nat |-> sum + docs[c[n]].size]]
<1>1. Tokens(docs, c) = After(steps, 0, Len(c))
    BY DEF Tokens
<1>3. docs[k].size \in Nat /\ NoParent \notin Ids
    BY DEF ConstantsFit, IsShort, Documents, Document
<1>4. CASE docs[k].extends = NoParent /\ c = <<k>>
  <2>1. Len(c) = 1 /\ steps[1] = [sum \in Nat |-> sum + docs[k].size]
      BY <1>4
  <2> HIDE DEF steps
  <2>2. steps[1][0] = docs[k].size
      BY <1>3, <2>1
  <2> QED BY <1>1, <1>3, <1>4, <2>1, <2>2, AfterOne
<1>5. ASSUME NEW p \in Ids, docs[k].extends = p, c = <<p, k>>, docs[p] # Missing
      PROVE  Tokens(docs, c) = docs[k].size + docs[p].size
  <2>1. /\ Len(c) = 2
        /\ steps[1] = [sum \in Nat |-> sum + docs[p].size]
        /\ steps[2] = [sum \in Nat |-> sum + docs[k].size]
      BY <1>5
  <2>2. docs[p].size \in Nat
      BY <1>5 DEF Documents, Document
  <2> HIDE DEF steps
  <2>3. steps[1][0] = docs[p].size
      BY <2>1, <2>2
  <2>4. steps[2][docs[p].size] = docs[k].size + docs[p].size
      BY <1>3, <2>1, <2>2
  <2> QED BY <1>1, <2>1, <2>3, <2>4, AfterOne
<1> QED BY <1>3, <1>4, <1>5 DEF IsShort

\* Once something is selected, something stays selected.
LEMMA CompletedIsNotEmpty ==
    ASSUME NEW s \in Seq(Ids), s # <<>>, NEW c \in Seq(Ids)
    PROVE  Completed(s)[c] # <<>>
<1> DEFINE steps == [n \in DOMAIN c |-> With(c[n])]
           Filled == {t \in Seq(Ids) : t # <<>>}
           Reached == [n \in 0..Len(c) |-> Filled]
<1>1. Completed(s)[c] = After(steps, s, Len(c))
    BY DEF Completed
<1>3. Len(c) \in Nat /\ s \in Reached[0]
    OBVIOUS
<1>4. ASSUME NEW n \in 1..Len(c), NEW t \in Reached[n - 1] PROVE steps[n][t] \in Reached[n]
  <2>1. t \in Seq(Ids) /\ t # <<>> /\ c[n] \in Ids
      OBVIOUS
  <2>2. With(c[n])[t] \in {t, Append(t, c[n])}
      BY <2>1 DEF With
  <2>3. Append(t, c[n]) \in Seq(Ids) /\ Append(t, c[n]) # <<>>
      BY <2>1
  <2>4. With(c[n])[t] \in Filled
      BY <2>1, <2>2, <2>3
  <2> QED BY <2>4
<1>5. After(steps, s, Len(c)) \in Reached[Len(c)]
  <2> HIDE DEF Reached, steps
  <2> QED BY <1>3, <1>4, AfterReaches
<1>6. After(steps, s, Len(c)) \in Filled
    BY <1>3, <1>5
<1> QED BY <1>1, <1>6

\* A first candidate that fits gives a context.
LEMMA FittingIsSelected ==
    ASSUME ConstantsFit, NEW docs \in Documents, NEW ranked \in Seq(Ids), ranked # <<>>,
           NEW c, IsShort(docs, ranked[1], c), Tokens(docs, c) <= Budget
    PROVE  Build(docs, ranked) # <<>>
<1> DEFINE steps == [i \in DOMAIN ranked |-> Take(docs, ranked[i])]
           start == [selected |-> <<>>, majors |-> 0]
           Filled == {t \in Taken : t.selected \in Complete(docs) /\ t.selected # <<>>}
           Reached == [i \in 0..Len(ranked) |-> IF i = 0 THEN {start} ELSE Filled]
<1>1. Len(ranked) \in Nat /\ Len(ranked) # 0 /\ DOMAIN ranked = 1..Len(ranked)
    OBVIOUS
<1>2. Build(docs, ranked) = After(steps, start, Len(ranked)).selected
    BY DEF Build
<1>4. <<>> \in Complete(docs)
    BY DEF Complete
\* Every candidate but the first.
<1>5. ASSUME NEW k \in Ids, NEW t \in Filled PROVE Take(docs, k)[t] \in Filled
  <2>1. t \in Taken /\ t.selected \in Complete(docs) /\ t.selected # <<>> /\ t.majors \in Nat
        /\ t.selected \in Seq(Ids)
      BY DEF Taken
  <2> DEFINE chain == DependencyChain(docs, k)
             proposed == Completed(t.selected)[chain]
  <2>2. chain \in Seq(Ids) /\ proposed \in Complete(docs)
      BY <2>1, CompletedIsComplete
  <2>3. proposed # <<>>
    <3> HIDE DEF chain
    <3> QED BY <2>1, <2>2, CompletedIsNotEmpty
  <2>4. Take(docs, k)[t] \in {t, [selected |-> proposed, majors |-> t.majors + 1]}
      BY <2>1 DEF Take
  <2> HIDE DEF proposed, chain
  <2>5. [selected |-> proposed, majors |-> t.majors + 1] \in Filled
      BY <2>1, <2>2, <2>3 DEF Taken, Complete
  <2> QED BY <2>4, <2>5
<1>6. Take(docs, ranked[1])[start] \in Filled
  <2>1. ranked[1] \in Ids
      BY <1>1
  <2> DEFINE chain == DependencyChain(docs, ranked[1])
             proposed == Completed(<<>>)[chain]
  <2>2. chain = c /\ proposed = c
      BY <2>1, ShortChain, ShortFills
  <2>3. c # <<>>
      BY PairOf DEF IsShort
  <2>4. proposed \in Complete(docs)
      BY <1>4, <2>1, CompletedIsComplete
  <2>5. start \in Taken /\ start.selected = <<>> /\ start.majors = 0
      BY DEF Taken
  <2>6. Tokens(docs, c) \in Nat
    <3>1. /\ docs[ranked[1]].size \in Nat
          /\ docs[ranked[1]].extends # NoParent => docs[docs[ranked[1]].extends].size \in Nat
        BY <2>1 DEF IsShort, Documents, Document
    <3> QED BY <2>1, <3>1, ShortTokens
  <2>7. Take(docs, ranked[1])[start] =
            IF 0 >= TopK \/ proposed = <<>> \/ Tokens(docs, proposed) > Budget
            THEN start ELSE [selected |-> proposed, majors |-> 0 + 1]
    <3> HIDE DEF chain, start
    <3> QED BY <2>5 DEF Take, chain
  <2> HIDE DEF proposed, chain
  <2>8. Take(docs, ranked[1])[start] = [selected |-> proposed, majors |-> 0 + 1]
    <3>1. ~(0 >= TopK) /\ ~(Tokens(docs, c) > Budget)
        BY <2>6 DEF ConstantsFit
    <3> QED BY <2>2, <2>3, <2>7, <3>1
  <2> HIDE DEF start
  <2>9. [selected |-> proposed, majors |-> 0 + 1] \in Filled
      BY <2>2, <2>3, <2>4 DEF Taken, Complete
  <2> QED BY <2>8, <2>9
<1>7. ASSUME NEW i \in 1..Len(ranked), NEW t \in Reached[i - 1] PROVE steps[i][t] \in Reached[i]
  <2>1. ranked[i] \in Ids /\ steps[i] = Take(docs, ranked[i]) /\ Reached[i] = Filled
      BY <1>1
  <2>2. CASE i = 1
    <3>1. t = start
        BY <1>1, <1>7, <2>2
    <3> HIDE DEF Reached, steps, start, Filled
    <3> QED BY <1>6, <2>1, <2>2, <3>1
  <2>3. CASE i # 1
    <3>1. t \in Filled
        BY <1>1, <1>7, <2>3
    <3> HIDE DEF Reached, steps, start, Filled
    <3> QED BY <1>5, <2>1, <3>1
  <2> QED BY <2>2, <2>3
<1>8. start \in Reached[0]
    BY <1>1
<1>9. After(steps, start, Len(ranked)) \in Reached[Len(ranked)]
  <2> HIDE DEF Reached, steps, start
  <2> QED BY <1>1, <1>7, <1>8, AfterReaches
<1>10. Reached[Len(ranked)] = Filled
    BY <1>1
<1> QED BY <1>2, <1>9, <1>10
=============================================================================
