---------------------------- MODULE AlgorithmProofs ----------------------------
(***************************************************************************)
(* Proofs about algorithms: the bound of the fetch loop, for every pair of *)
(* limits; the gates of the retrieval evaluations, which are exact for     *)
(* every data set of less than two thousand cases, or units; the order of  *)
(* embeddings; what an accepted artifact owes to the rules that score it;  *)
(* the sections of a page, which follow its outline, and the chunks of a   *)
(* section, which lose none of it; the fusion of two rankings, which       *)
(* respects both; and the invariants of Algorithms, of whatever inputs.    *)
(***************************************************************************)
EXTENDS Algorithms, ContextProofs

-----------------------------------------------------------------------------
(* The fetch loop.                                                         *)

FetchTypeOK ==
    /\ state \in {"sending", "received", "failed", "fetched", "unmodified"}
    /\ redirects \in Nat
    /\ retries \in Nat
    /\ requests \in Nat
    /\ unclosed \in Nat

\* While requests are being sent, each redirect stands for the retries that its
\* URL may have had, and no response is open.
FetchInv ==
    /\ FetchTypeOK
    /\ state = "sending" =>
        /\ redirects <= MaxRedirects
        /\ retries <= MaxRetries
        /\ requests <= redirects * (MaxRetries + 1) + retries
    /\ RequestsBounded
    /\ NoResponseLeft

\* One more URL has room for one more round of retries, within the product.
LEMMA RoomForOneMore ==
    ASSUME NEW d \in Nat, d <= MaxRedirects
    PROVE  /\ d * (MaxRetries + 1) \in Nat
           /\ (d + 1) * (MaxRetries + 1) = d * (MaxRetries + 1) + MaxRetries + 1
           /\ (d + 1) * (MaxRetries + 1) <= (MaxRedirects + 1) * (MaxRetries + 1)
  <1>1. PICK e \in Nat : MaxRedirects = d + e
    BY FetchAssumption
  <1>2. (d + 1) * (MaxRetries + 1) = d * (MaxRetries + 1) + MaxRetries + 1
    BY FetchAssumption
  <1>3. (MaxRedirects + 1) * (MaxRetries + 1)
            = (d + 1) * (MaxRetries + 1) + e * (MaxRetries + 1)
    BY <1>1, FetchAssumption
  <1>4. e * (MaxRetries + 1) \in Nat /\ d * (MaxRetries + 1) \in Nat
    BY FetchAssumption
  <1> QED BY <1>2, <1>3, <1>4, FetchAssumption

LEMMA InitFetchInv == FetchInit => FetchInv
  <1> SUFFICES ASSUME FetchInit PROVE FetchInv
    OBVIOUS
  <1>1. 0 * (MaxRetries + 1) = 0 /\ (MaxRedirects + 1) * (MaxRetries + 1) \in Nat
    BY FetchAssumption
  <1> QED BY <1>1, FetchAssumption DEF FetchInit, FetchInv, FetchTypeOK, RequestsBounded, NoResponseLeft

\* A request is within the bound, whatever comes of it.
LEMMA RequestIsBounded ==
    ASSUME FetchInv, Request
    PROVE  /\ requests' \in Nat
           /\ requests' <= (redirects + 1) * (MaxRetries + 1)
           /\ requests' <= redirects * (MaxRetries + 1) + retries + 1
           /\ RequestsBounded'
  <1> USE DEF FetchInv, FetchTypeOK
  <1>1. redirects \in Nat /\ redirects <= MaxRedirects /\ retries <= MaxRetries
    BY DEF Request
  <1>2. requests' = requests + 1 /\ requests <= redirects * (MaxRetries + 1) + retries
    BY DEF Request
  <1>3. /\ redirects * (MaxRetries + 1) \in Nat
        /\ (redirects + 1) * (MaxRetries + 1) = redirects * (MaxRetries + 1) + MaxRetries + 1
        /\ (redirects + 1) * (MaxRetries + 1) <= (MaxRedirects + 1) * (MaxRetries + 1)
    BY <1>1, RoomForOneMore
  <1>4. (MaxRedirects + 1) * (MaxRetries + 1) \in Nat
    BY FetchAssumption
  <1> HIDE DEF FetchInv
  <1> DEFINE p == redirects * (MaxRetries + 1)
             q == (redirects + 1) * (MaxRetries + 1)
             b == (MaxRedirects + 1) * (MaxRetries + 1)
  <1>5. p \in Nat /\ q = p + MaxRetries + 1 /\ q <= b /\ b \in Nat
    BY <1>3, <1>4
  <1>6. requests \in Nat /\ retries \in Nat /\ requests <= p + retries
    BY <1>2 DEF FetchInv
  <1>7. requests' \in Nat /\ requests' <= q /\ requests' <= p + retries + 1 /\ requests' <= b
    <2> HIDE DEF p, q, b
    <2> QED BY <1>1, <1>2, <1>5, <1>6, FetchAssumption
  <1> QED BY <1>7 DEF RequestsBounded

LEMMA NextFetchInv == FetchInv /\ [FetchNext]_fetchVars => FetchInv'
  <1> SUFFICES ASSUME FetchInv, [FetchNext]_fetchVars PROVE FetchInv'
    OBVIOUS
  <1>1. CASE TransportFails \/ RetryLater
    <2>1. Request
      BY <1>1 DEF TransportFails, RetryLater
    <2>2. /\ requests' \in Nat
          /\ requests' <= redirects * (MaxRetries + 1) + retries + 1
          /\ RequestsBounded'
      BY <2>1, RequestIsBounded
    <2>3. /\ UNCHANGED <<redirects, unclosed>>
          /\ \/ retries < MaxRetries /\ retries' = retries + 1 /\ UNCHANGED state
             \/ state' = "failed" /\ UNCHANGED retries
      BY <1>1 DEF TransportFails, RetryLater
    <2>4. FetchTypeOK' /\ NoResponseLeft'
      BY <2>1, <2>2, <2>3 DEF Request, FetchInv, FetchTypeOK, NoResponseLeft
    <2>5. redirects * (MaxRetries + 1) + retries + 1 = redirects * (MaxRetries + 1) + (retries + 1)
      BY FetchAssumption DEF FetchInv, FetchTypeOK
    <2>6. ASSUME state' = "sending"
          PROVE  /\ redirects' <= MaxRedirects
                 /\ retries' <= MaxRetries
                 /\ requests' <= redirects' * (MaxRetries + 1) + retries'
      BY <2>1, <2>2, <2>3, <2>5, <2>6, FetchAssumption DEF Request, FetchInv, FetchTypeOK
    <2> QED BY <2>2, <2>4, <2>6 DEF FetchInv
  <1>2. CASE Redirected
    <2>1. Request
      BY <1>2 DEF Redirected
    <2>2. /\ requests' \in Nat
          /\ requests' <= (redirects + 1) * (MaxRetries + 1)
          /\ RequestsBounded'
      BY <2>1, RequestIsBounded
    <2>3. /\ redirects' = redirects + 1 /\ UNCHANGED unclosed
          /\ \/ redirects + 1 <= MaxRedirects /\ retries' = 0 /\ UNCHANGED state
             \/ state' = "failed" /\ UNCHANGED retries
      BY <1>2, FetchAssumption DEF Redirected, TooMany, FetchInv, FetchTypeOK
    <2>4. FetchTypeOK' /\ NoResponseLeft'
      BY <2>1, <2>2, <2>3 DEF Request, FetchInv, FetchTypeOK, NoResponseLeft
    <2>5. (redirects + 1) * (MaxRetries + 1) \in Nat
      BY FetchAssumption DEF FetchInv, FetchTypeOK
    <2>6. ASSUME state' = "sending"
          PROVE  /\ redirects' <= MaxRedirects
                 /\ retries' <= MaxRetries
                 /\ requests' <= redirects' * (MaxRetries + 1) + retries'
      <3>1. redirects' = redirects + 1 /\ redirects + 1 <= MaxRedirects /\ retries' = 0
        BY <2>3, <2>6
      <3>2. redirects' * (MaxRetries + 1) + retries' = (redirects + 1) * (MaxRetries + 1)
        BY <3>1, <2>5
      <3> QED BY <3>1, <3>2, <2>2, FetchAssumption
    <2> QED BY <2>2, <2>4, <2>6 DEF FetchInv
  <1>3. CASE RedirectedNowhere \/ Receive
    <2>1. Request
      BY <1>3 DEF RedirectedNowhere, Receive
    <2>2. requests' \in Nat /\ RequestsBounded'
      BY <2>1, RequestIsBounded
    <2>3. /\ UNCHANGED <<redirects, retries>>
          /\ \/ state' = "failed" /\ UNCHANGED unclosed
             \/ state' = "received" /\ unclosed' = unclosed + 1
      BY <1>3 DEF RedirectedNowhere, Receive
    <2> QED BY <2>1, <2>2, <2>3 DEF Request, FetchInv, FetchTypeOK, NoResponseLeft
  <1>4. CASE Read
    <2>1. /\ state = "received" /\ unclosed' = unclosed - 1
          /\ UNCHANGED <<redirects, retries, requests>>
      BY <1>4 DEF Read
    <2>2. state' \in {"failed", "fetched", "unmodified"}
      BY <1>4, Zenon DEF Read
    <2> QED BY <2>1, <2>2 DEF FetchInv, FetchTypeOK, RequestsBounded, NoResponseLeft
  <1>5. CASE UNCHANGED fetchVars
    BY <1>5 DEF fetchVars, FetchInv, FetchTypeOK, RequestsBounded, NoResponseLeft
  <1> QED BY <1>1, <1>2, <1>3, <1>4, <1>5 DEF FetchNext

LEMMA FetchesKeep == Spec => []FetchInv
  <1>1. Init => FetchInv
    BY InitFetchInv DEF Init
  <1>2. FetchInv /\ [Next]_<<fetchVars, input>> => FetchInv'
    <2> SUFFICES ASSUME FetchInv, [Next]_<<fetchVars, input>> PROVE FetchInv'
      OBVIOUS
    <2>1. [FetchNext]_fetchVars
      BY DEF Next, Fetch, Examine, ExamineFusion, ExamineContext, ExamineSources, ExamineWorkspace,
             ExaminePackages, ExaminePage, ExamineSection, ExamineTexts, ExamineArtifact, ExamineGates
    <2> QED BY <2>1, NextFetchInv
  <1> QED BY <1>1, <1>2, PTL DEF Spec

\* Whatever the servers answer, a fetch sends no more requests than the product
\* of both limits: _request ends although a redirect resets the retries.
THEOREM FetchIsBounded == Spec => []RequestsBounded
  <1>1. FetchInv => RequestsBounded
    BY DEF FetchInv
  <1> QED BY <1>1, FetchesKeep, PTL

\* Every response of a fetch is closed but the one that is being read.
THEOREM FetchLeavesNoResponse == Spec => []NoResponseLeft
  <1>1. FetchInv => NoResponseLeft
    BY DEF FetchInv
  <1> QED BY <1>1, FetchesKeep, PTL

-----------------------------------------------------------------------------
(* The gates.                                                              *)

\* Some number of ten-thousandths is nearest to a share.
LEMMA NearestExists ==
    ASSUME NEW count \in Nat \ {0}, NEW hits \in 0..count
    PROVE  Nearest(hits, count) # {}
<1> DEFINE q == (20000 * hits + count) \div (2 * count)
           m == (20000 * hits + count) % (2 * count)
<1>0. 2 * count \in Nat \ {0} /\ 20000 * hits + count \in Int
  OBVIOUS
<1>1. q \in Int /\ m \in 0..(2 * count - 1)
  BY <1>0, SMT
<1>2. 20000 * hits + count = (2 * count) * q + m
  BY <1>0, SMT
<1> HIDE DEF q, m
<1>3. q * count \in Int /\ (2 * count) * q = 2 * (q * count)
  BY <1>1
<1>4. -count <= 2 * (q * count - 10000 * hits) /\ 2 * (q * count - 10000 * hits) <= count
  BY <1>1, <1>2, <1>3
<1>5. q >= 0
  <2>1. CASE q <= -1
    <3>1. q * count <= -count
      BY <2>1, <1>1
    <3>2. QED
      BY <3>1, <1>3, <1>2, <1>1
  <2>2. QED
    BY <2>1, <1>1
<1>6. q <= 10000
  <2>1. CASE q >= 10001
    <3>1. q * count >= 10001 * count
      BY <2>1, <1>1
    <3>2. QED
      BY <3>1, <1>4, <1>3
  <2>2. QED
    BY <2>1, <1>1
<1>7. q \in Nearest(hits, count)
  BY <1>1, <1>4, <1>5, <1>6 DEF Nearest
<1>8. QED
  BY <1>7

\* The rounded share reaches a number of tenths just if the share does.
IsExact(hits, count, tenths) ==
    Recall(hits, count) >= 1000 * tenths <=> 10 * hits >= tenths * count

\* Rounding is exact about whole tenths.
LEMMA RoundingReaches ==
    \A count \in 1..MostCases : \A hits \in 0..count : \A tenths \in 0..10 :
        IsExact(hits, count, tenths)
<1> SUFFICES ASSUME NEW count \in 1..MostCases, NEW hits \in 0..count, NEW tenths \in 0..10
             PROVE  IsExact(hits, count, tenths)
  OBVIOUS
<1> DEFINE r == Recall(hits, count)
<1>1. r \in Nearest(hits, count)
  <2>1. \E x : x \in Nearest(hits, count)
    BY NearestExists
  <2>2. QED
    BY <2>1 DEF Recall
<1>2. r \in 0..10000
      /\ -count <= 2 * (r * count - 10000 * hits) /\ 2 * (r * count - 10000 * hits) <= count
  BY <1>1 DEF Nearest
<1> HIDE DEF IsExact, r
<1>3. ASSUME NEW d \in Int, d = r - 1000 * tenths
      PROVE  /\ d * count \in Int /\ tenths * count \in Int
             /\ r * count = d * count + 1000 * (tenths * count)
  <2>1. r = d + 1000 * tenths
    BY <1>2, <1>3
  <2>2. QED
    BY <2>1, <1>2
<1>4. CASE r >= 1000 * tenths
  <2> DEFINE d == r - 1000 * tenths
  <2>1. d \in Nat
    BY <1>2, <1>4
  <2>2. d * count \in Nat
    BY <2>1
  <2>3. r * count = d * count + 1000 * (tenths * count) /\ tenths * count \in Int
    BY <1>3, <2>1
  <2> HIDE DEF d
  <2>4. 10 * hits >= tenths * count
    BY <1>2, <2>2, <2>3 DEF MostCases
  <2>5. QED
    BY <2>4, <1>4 DEF IsExact, r
<1>5. CASE ~ (r >= 1000 * tenths)
  <2> DEFINE d == 1000 * tenths - r
  <2>1. d \in Nat /\ d >= 1
    BY <1>2, <1>5
  <2>2. d * count \in Nat /\ d * count >= count
    <3> DEFINE e == d - 1
    <3>1. e \in Nat /\ d = e + 1
      BY <2>1
    <3>2. e * count \in Nat
      BY <3>1
    <3> HIDE DEF e, d
    <3>3. d * count = e * count + count
      BY <3>1
    <3>4. QED
      BY <3>2, <3>3
  <2>3. 1000 * (tenths * count) = r * count + d * count /\ tenths * count \in Int /\ r * count \in Int
    <3>1. 1000 * tenths = r + d
      BY <1>2
    <3>2. (1000 * tenths) * count = (r + d) * count
      BY <3>1
    <3> HIDE DEF d
    <3>3. QED
      BY <3>2, <1>2, <2>1
  <2> HIDE DEF d
  <2>4. ~ (10 * hits >= tenths * count)
    BY <1>2, <2>2, <2>3
  <2>5. QED
    BY <2>4, <1>5 DEF IsExact, r
<1>6. QED
  BY <1>4, <1>5

\* No data set of less than two thousand cases, or units, passes a gate for
\* being rounded up, nor fails for being rounded down.
LEMMA GatesAreExact ==
    ASSUME NEW count \in 1..MostCases, NEW hits \in 0..count, NEW leaks \in Nat
    PROVE  ExactGates(hits, count, leaks)
<1>2. Recall(hits, count) >= 8000 <=> 10 * hits >= 8 * count
  <2>1. 8 \in 0..10
    OBVIOUS
  <2>2. IsExact(hits, count, 8)
    BY <2>1, RoundingReaches
  <2>3. QED
    BY <2>2 DEF IsExact
<1>3. Recall(hits, count) >= 9000 <=> 10 * hits >= 9 * count
  <2>1. 9 \in 0..10
    OBVIOUS
  <2>2. IsExact(hits, count, 9)
    BY <2>1, RoundingReaches
  <2>3. QED
    BY <2>2 DEF IsExact
<1>4. Recall(hits, count) >= 10000 <=> 10 * hits >= 10 * count
  <2>1. 10 \in 0..10
    OBVIOUS
  <2>2. IsExact(hits, count, 10)
    BY <2>1, RoundingReaches
  <2>3. QED
    BY <2>2 DEF IsExact
<1>5. KnowledgePassed(hits, count) <=> 5 * hits >= 4 * count
  <2>1. 10 * hits >= 8 * count <=> 5 * hits >= 4 * count
    OBVIOUS
  <2>2. QED
    BY <1>2, <2>1 DEF KnowledgePassed, Reaches
<1>6. TemplatesPassed(hits, count, leaks, 0) <=> 10 * hits >= 9 * count /\ leaks = 0
  BY <1>3 DEF TemplatesPassed, Reaches
<1>7. WorkspacePassed(hits, count, leaks) <=> hits = count /\ leaks = 0
  <2>1. 10 * hits >= 10 * count <=> hits = count
    OBVIOUS
  <2>2. QED
    BY <1>4, <2>1 DEF WorkspacePassed, Reaches
<1>8. QED
  BY <1>5, <1>6, <1>7 DEF ExactGates

-----------------------------------------------------------------------------
(* The batches of an embedding request.                                    *)

\* The tokens of a batch are those of its texts.
LEMMA BatchAdds ==
    ASSUME NEW texts \in Seq(Nat), NEW batch \in Seq(DOMAIN texts), NEW i \in DOMAIN texts
    PROVE  /\ TokensOfBatch(texts, batch) \in Nat
           /\ TokensOfBatch(texts, <<>>) = 0
           /\ TokensOfBatch(texts, Append(batch, i)) = TokensOfBatch(texts, batch) + texts[i]
<1>1. \A y \in DOMAIN texts : texts[y] \in Nat
  OBVIOUS
<1>2. \A b : TokensOfBatch(texts, b) = Total(0, Sizes(texts, b))
  BY DEF TokensOfBatch, Sizes
<1> DEFINE t == Append(batch, i)
<1>3. Sizes(texts, batch) \in Seq(Nat) /\ Sizes(texts, t) = Append(Sizes(texts, batch), texts[i])
  BY <1>1, SizesAppended
<1> HIDE DEF t
<1>4. /\ Total(0, Sizes(texts, batch)) \in Nat
      /\ Total(0, Append(Sizes(texts, batch), texts[i])) = Total(0, Sizes(texts, batch)) + texts[i]
  BY <1>1, <1>3, TotalAdds
<1>5. TokensOfBatch(texts, <<>>) = 0
  <2> DEFINE Reached == [n \in {0} |-> {0}]
             none == [j \in DOMAIN <<>> |-> texts[<<>>[j]]]
             steps == [j \in DOMAIN none |-> [n \in Nat |-> n + none[j]]]
  <2>1. Len(none) = 0
    OBVIOUS
  <2>2. 0 \in Reached[0] /\ \A j \in 1..0 : \A v \in Reached[j - 1] : steps[j][v] \in Reached[j]
    OBVIOUS
  <2>3. Reached[0] = {0}
    OBVIOUS
  <2> HIDE DEF Reached, none, steps
  <2>4. After(steps, 0, 0) \in Reached[0]
    BY <2>2, AfterReaches
  <2> QED BY <2>1, <2>3, <2>4 DEF TokensOfBatch, Total, none, steps
<1> QED BY <1>2, <1>3, <1>4, <1>5 DEF t

\* Numbers in a row.
IsRun(batch) == batch # <<>> /\ \A j \in 1..Len(batch) : batch[j] = batch[1] + j - 1

\* The last number of the first b batches.
EndOf(batches, b) == IF b = 0 THEN 0 ELSE batches[b][1] + Len(batches[b]) - 1

\* What may have become of the first i texts.
Placed(texts, i) ==
    {batches \in Seq(Seq(DOMAIN texts)) :
        /\ \A b \in 1..Len(batches) :
            /\ IsRun(batches[b]) /\ batches[b][1] = EndOf(batches, b - 1) + 1
            /\ Len(batches[b]) <= BatchItems /\ TokensOfBatch(texts, batches[b]) <= BatchTokens
        /\ EndOf(batches, Len(batches)) = i}

LEMMA PlacedGrows ==
    ASSUME NEW texts \in Seq(Nat), ValidTexts(texts),
           NEW i \in 1..Len(texts), NEW s \in Placed(texts, i - 1)
    PROVE  Place(texts, i)[s] \in Placed(texts, i)
<1> DEFINE D == DOMAIN texts
           L == Len(s)
<1>1. D = 1..Len(texts) /\ Len(texts) \in Nat /\ i \in D /\ \A y \in D : y \in Nat /\ texts[y] \in Nat
  OBVIOUS
<1>2. /\ s \in Seq(Seq(D))
      /\ \A b \in 1..L :
            /\ IsRun(s[b]) /\ s[b][1] = EndOf(s, b - 1) + 1
            /\ Len(s[b]) <= BatchItems /\ TokensOfBatch(texts, s[b]) <= BatchTokens
      /\ EndOf(s, L) = i - 1
  BY DEF Placed
<1> HIDE DEF D
<1>3. L \in Nat /\ (s = <<>> <=> L = 0) /\ \A b \in 1..L : s[b] \in Seq(D) /\ Len(s[b]) \in Nat
  BY <1>2
<1>4. \A b \in 1..L : s[b][1] \in Nat /\ s[b] # <<>>
  <2> SUFFICES ASSUME NEW b \in 1..L PROVE s[b][1] \in Nat /\ s[b] # <<>>
    OBVIOUS
  <2>1. s[b] \in Seq(D) /\ s[b] # <<>>
    BY <1>2, <1>3 DEF IsRun
  <2>2. s[b][1] \in D
    BY <2>1
  <2> QED BY <1>1, <2>1, <2>2
<1>5. CASE s = <<>> \/ Full(texts, s[L], i)
  <2> DEFINE t == Append(s, <<i>>)
  <2>1. Place(texts, i)[s] = t
    BY <1>2, <1>5 DEF Place, D
  <2>2. <<i>> \in Seq(D) /\ Len(<<i>>) = 1 /\ <<i>>[1] = i /\ <<i>> # <<>>
    BY <1>1
  <2>3. t \in Seq(Seq(D)) /\ Len(t) = L + 1 /\ t[L + 1] = <<i>> /\ \A b \in 1..L : t[b] = s[b]
    BY <1>2, <1>3, <2>2
  <2> HIDE DEF t
  <2>4. \A b \in 0..L : EndOf(t, b) = EndOf(s, b)
    <3> SUFFICES ASSUME NEW b \in 0..L PROVE EndOf(t, b) = EndOf(s, b)
      OBVIOUS
    <3>1. b # 0 => b \in 1..L
      BY <1>3
    <3>2. b # 0 => t[b] = s[b]
      BY <2>3, <3>1
    <3> QED BY <3>2 DEF EndOf
  <2>5. EndOf(t, L + 1) = i
    <3>1. EndOf(t, L + 1) = i + 1 - 1
      BY <1>3, <2>2, <2>3 DEF EndOf
    <3> QED BY <3>1
  <2>6. TokensOfBatch(texts, <<i>>) = texts[i]
    <3>1. <<>> \in Seq(D) /\ Append(<<>>, i) = <<i>>
      OBVIOUS
    <3>2. /\ TokensOfBatch(texts, Append(<<>>, i)) = TokensOfBatch(texts, <<>>) + texts[i]
          /\ TokensOfBatch(texts, <<>>) = 0
      BY <1>1, <3>1, BatchAdds DEF D
    <3> QED BY <1>1, <3>1, <3>2
  <2>7. texts[i] <= BatchTokens /\ 1 <= BatchItems
    BY <1>1, BatchAssumption DEF ValidTexts, D
  <2>8. ASSUME NEW b \in 1..(L + 1)
        PROVE  /\ IsRun(t[b]) /\ t[b][1] = EndOf(t, b - 1) + 1
               /\ Len(t[b]) <= BatchItems /\ TokensOfBatch(texts, t[b]) <= BatchTokens
    <3>1. CASE b = L + 1
      <4>1. IsRun(<<i>>)
        BY <2>2 DEF IsRun
      <4>2. b - 1 = L /\ L \in 0..L
        BY <1>3, <3>1
      <4>3. EndOf(t, L) = EndOf(s, L)
        BY <2>4, <4>2
      <4>4. EndOf(s, L) = i - 1
        BY <1>2
      <4>5. EndOf(t, b - 1) + 1 = i
        <5>1. EndOf(t, b - 1) = i - 1
          BY <4>2, <4>3, <4>4
        <5>2. i \in Int
          BY <1>1
        <5> QED BY <5>1, <5>2
      <4> QED BY <2>2, <2>3, <2>6, <2>7, <3>1, <4>1, <4>5
    <3>2. CASE b # L + 1
      <4>1. b \in 1..L /\ b - 1 \in 0..L
        BY <1>3, <3>2
      <4> QED BY <1>2, <2>3, <2>4, <4>1
    <3> QED BY <3>1, <3>2
  <2>9. t \in Placed(texts, i)
    BY <2>3, <2>5, <2>8 DEF Placed, D
  <2> QED BY <2>1, <2>9
<1>6. CASE ~ (s = <<>> \/ Full(texts, s[L], i))
  <2> DEFINE last == Append(s[L], i)
             t == [s EXCEPT ![L] = last]
  <2>1. Place(texts, i)[s] = t
    BY <1>2, <1>6 DEF Place, D
  <2>2. L \in 1..L /\ s[L] \in Seq(D) /\ s[L] # <<>> /\ Len(s[L]) \in Nat /\ Len(s[L]) # 0
    BY <1>3, <1>4, <1>6
  <2>3. /\ last \in Seq(D) /\ Len(last) = Len(s[L]) + 1 /\ last # <<>>
        /\ last[Len(s[L]) + 1] = i /\ \A j \in 1..Len(s[L]) : last[j] = s[L][j]
    <3> DEFINE w == s[L]
    <3>1. w \in Seq(D) /\ i \in D
      BY <1>1, <2>2
    <3> HIDE DEF w
    <3>2. /\ Append(w, i) \in Seq(D) /\ Len(Append(w, i)) = Len(w) + 1 /\ Append(w, i) # <<>>
          /\ Append(w, i)[Len(w) + 1] = i
          /\ \A j \in 1..Len(w) : Append(w, i)[j] = w[j]
      BY <3>1, Appended
    <3> QED BY <3>2 DEF w
  <2> HIDE DEF last
  <2>4. t \in Seq(Seq(D)) /\ Len(t) = L /\ t[L] = last /\ \A b \in 1..(L - 1) : t[b] = s[b]
    BY <1>2, <1>3, <2>2, <2>3
  <2> HIDE DEF t
  <2>5. \A b \in 0..(L - 1) : EndOf(t, b) = EndOf(s, b)
    <3> SUFFICES ASSUME NEW b \in 0..(L - 1) PROVE EndOf(t, b) = EndOf(s, b)
      OBVIOUS
    <3>1. b # 0 => b \in 1..(L - 1)
      BY <1>3
    <3>2. b # 0 => t[b] = s[b]
      BY <2>4, <3>1
    <3> QED BY <3>2 DEF EndOf
  <2>6. s[L][1] + Len(s[L]) - 1 = i - 1 /\ last[1] = s[L][1] /\ s[L][1] \in Nat
    <3>1. L # 0 /\ L \in Nat
      BY <1>3, <2>2
    <3>2. EndOf(s, L) = s[L][1] + Len(s[L]) - 1
      BY <3>1 DEF EndOf
    <3>3. 1 \in 1..Len(s[L])
      BY <2>2
    <3>4. s[L][1] + Len(s[L]) - 1 = i - 1
      BY <1>2, <3>2
    <3>5. last[1] = s[L][1]
      BY <2>3, <3>3
    <3>6. s[L][1] \in Nat
      BY <1>4, <2>2
    <3> QED BY <3>4, <3>5, <3>6
  <2>7. EndOf(t, L) = i
    <3>1. EndOf(t, L) = last[1] + Len(last) - 1
      BY <1>3, <2>2, <2>4 DEF EndOf
    <3>2. PICK first, n \in Nat : first = s[L][1] /\ n = Len(s[L])
      BY <2>2, <2>6
    <3>3. last[1] = first /\ Len(last) = n + 1 /\ first + n - 1 = i - 1
      BY <2>3, <2>6, <3>2
    <3>4. i \in Nat
      BY <1>1
    <3>5. i = first + n
      <4>1. first + n - 1 = i - 1
        BY <3>3
      <4> QED BY <3>4, <4>1
    <3>6. EndOf(t, L) = first + n
      <4>1. EndOf(t, L) = first + (n + 1) - 1
        BY <3>1, <3>3
      <4> QED BY <4>1
    <3> QED BY <3>5, <3>6
  <2>8. IsRun(last)
    <3> SUFFICES ASSUME NEW j \in 1..Len(last) PROVE last[j] = last[1] + j - 1
      BY <2>3 DEF IsRun
    <3>1. CASE j = Len(s[L]) + 1
      <4>1. PICK first, n \in Nat : first = s[L][1] /\ n = Len(s[L])
        BY <2>2, <2>6
      <4>2. last[j] = i /\ last[1] = first /\ j = n + 1 /\ first + n - 1 = i - 1
        BY <2>3, <2>6, <3>1, <4>1
      <4>3. i \in Nat
        BY <1>1
      <4>4. i = first + n
        <5>1. first + n - 1 = i - 1
          BY <4>2
        <5> QED BY <4>3, <5>1
      <4>5. last[1] + j - 1 = first + n
        <5>1. j \in Int /\ last[1] + j - 1 = first + (n + 1) - 1
          BY <4>1, <4>2
        <5>2. first + (n + 1) - 1 = first + n
          BY <4>1
        <5> QED BY <5>1, <5>2
      <4> QED BY <4>2, <4>4, <4>5
    <3>2. CASE j # Len(s[L]) + 1
      <4>1. j \in 1..Len(s[L])
        BY <2>2, <2>3, <3>2
      <4>2. s[L][j] = s[L][1] + j - 1
        BY <1>2, <2>2, <4>1 DEF IsRun
      <4> QED BY <2>3, <2>6, <4>1, <4>2
    <3> QED BY <3>1, <3>2
  <2>9. Len(last) <= BatchItems /\ TokensOfBatch(texts, last) <= BatchTokens
    <3>1. ~ (Len(s[L]) >= BatchItems) /\ ~ (TokensOfBatch(texts, s[L]) + texts[i] > BatchTokens)
      BY <1>6 DEF Full
    <3>2. TokensOfBatch(texts, last) = TokensOfBatch(texts, s[L]) + texts[i] /\ TokensOfBatch(texts, s[L]) \in Nat
      BY <1>1, <2>2, BatchAdds DEF D, last
    <3>3. PICK n \in Nat : n = Len(s[L])
      BY <2>2
    <3>4. PICK tokens \in Nat : tokens = TokensOfBatch(texts, s[L]) + texts[i]
      <4>1. TokensOfBatch(texts, s[L]) \in Nat
        BY <3>2
      <4>2. texts[i] \in Nat
        BY <1>1
      <4> QED BY <4>1, <4>2
    <3>5. BatchItems \in Nat /\ BatchTokens \in Nat
      BY BatchAssumption
    <3>6. Len(last) = n + 1
      BY <2>3, <3>3
    <3>7. TokensOfBatch(texts, last) = tokens
      BY <3>2, <3>4
    <3>8. ~ (n >= BatchItems) /\ ~ (tokens > BatchTokens)
      BY <3>1, <3>3, <3>4
    <3>9. n + 1 <= BatchItems /\ tokens <= BatchTokens
      BY <3>5, <3>8
    <3> QED BY <3>6, <3>7, <3>9
  <2>10. ASSUME NEW b \in 1..L
         PROVE  /\ IsRun(t[b]) /\ t[b][1] = EndOf(t, b - 1) + 1
                /\ Len(t[b]) <= BatchItems /\ TokensOfBatch(texts, t[b]) <= BatchTokens
    <3>1. b - 1 \in 0..(L - 1) /\ EndOf(t, b - 1) = EndOf(s, b - 1)
      BY <1>3, <2>5
    <3>2. CASE b = L
      BY <1>2, <2>4, <2>6, <2>8, <2>9, <3>1, <3>2
    <3>3. CASE b # L
      <4>1. b \in 1..(L - 1)
        BY <1>3, <3>3
      <4> QED BY <1>2, <2>4, <3>1, <4>1
    <3> QED BY <3>2, <3>3
  <2>11. t \in Placed(texts, i)
    BY <2>4, <2>7, <2>10 DEF Placed, D
  <2> QED BY <2>1, <2>11
<1> QED BY <1>5, <1>6

\* The batches have all texts, each once and in order, and are small enough.
LEMMA BatchesPlaceAll ==
    ASSUME NEW texts \in Seq(Nat), ValidTexts(texts)
    PROVE  Batches(texts) \in Placed(texts, Len(texts))
<1> DEFINE Reached == [i \in 0..Len(texts) |-> Placed(texts, i)]
           steps == [i \in DOMAIN texts |-> Place(texts, i)]
<1>1. Len(texts) \in Nat /\ DOMAIN texts = 1..Len(texts)
  OBVIOUS
<1>2. <<>> \in Reached[0]
  <2>1. <<>> \in Seq(Seq(DOMAIN texts)) /\ Len(<<>>) = 0 /\ 1..0 = {}
    OBVIOUS
  <2>2. <<>> \in Placed(texts, 0)
    BY <2>1 DEF Placed, EndOf
  <2> QED BY <2>2, <1>1
<1>3. \A i \in 1..Len(texts) : \A s \in Reached[i - 1] : steps[i][s] \in Reached[i]
  <2> SUFFICES ASSUME NEW i \in 1..Len(texts), NEW s \in Reached[i - 1]
               PROVE  steps[i][s] \in Reached[i]
    OBVIOUS
  <2>1. i \in 0..Len(texts) /\ i - 1 \in 0..Len(texts) /\ i \in DOMAIN texts
    BY <1>1
  <2>2. s \in Placed(texts, i - 1)
    BY <2>1
  <2>3. Place(texts, i)[s] \in Placed(texts, i)
    BY <2>2, PlacedGrows
  <2> QED BY <2>1, <2>3
<1>4. After(steps, <<>>, Len(texts)) \in Reached[Len(texts)]
  <2> HIDE DEF steps, Reached
  <2> QED BY <1>1, <1>2, <1>3, AfterReaches
<1>5. Len(texts) \in 0..Len(texts)
  BY <1>1
<1> QED BY <1>4, <1>5 DEF Batches

AnswerItems == [index : Int, vector : Nat]

\* The results of the first n texts.
ResultsOf(n) == [i \in 1..n |-> [index |-> i - 1, vector |-> i]]

\* Whatever the order of an answer, an item of each number is found in it, and
\* it has the vector of its text.
LEMMA ItemsAreFound ==
    ASSUME NEW batch, NEW answer \in Seq(AnswerItems), Len(batch) \in Nat,
           ValidAnswer(answer, Len(batch)),
           \A k \in DOMAIN answer :
                answer[k].index < Len(batch) => answer[k].vector \in {0, batch[answer[k].index + 1]},
           NEW j \in 1..Len(batch)
    PROVE  ByIndex(answer)[j].index = j - 1 /\ ByIndex(answer)[j].vector = batch[j]
<1> DEFINE c == CHOOSE k \in DOMAIN answer : answer[k].index = j - 1
<1>1. DOMAIN answer = 1..Len(batch) /\ j \in DOMAIN answer
  BY DEF ValidAnswer
<1>2. {answer[k].index : k \in DOMAIN answer} = 0..(Len(batch) - 1) /\ \A k \in DOMAIN answer : answer[k].vector # 0
  BY DEF ValidAnswer
<1>3. j - 1 \in 0..(Len(batch) - 1) /\ j - 1 < Len(batch) /\ (j - 1) + 1 = j
  OBVIOUS
<1>4. c \in DOMAIN answer /\ answer[c].index = j - 1
  <2>1. j - 1 \in {answer[k].index : k \in DOMAIN answer}
    BY <1>2, <1>3
  <2>2. \E k \in DOMAIN answer : answer[k].index = j - 1
    BY <2>1
  <2> QED BY <2>2
<1>5. ByIndex(answer)[j] = answer[c]
  BY <1>1 DEF ByIndex
<1> HIDE DEF c
<1>6. answer[c].vector \in {0, batch[j]} /\ answer[c].vector # 0
  <2>1. answer[c].index < Len(batch) /\ answer[c].index + 1 = j
    BY <1>3, <1>4
  <2> QED BY <1>2, <1>4, <2>1
<1> QED BY <1>4, <1>5, <1>6

\* The answer to batch b brings the results up to the end of it.
LEMMA ResultsGrow ==
    ASSUME NEW texts \in Seq(Nat), NEW batches \in Placed(texts, Len(texts)), NEW answers,
           \A b \in DOMAIN batches : answers[b] \in Seq(AnswerItems),
           Honest(batches, answers), ValidAnswers(batches, answers), NEW b \in 1..Len(batches)
    PROVE  Extend(batches[b], answers[b])[ResultsOf(EndOf(batches, b - 1))]
                = ResultsOf(EndOf(batches, b))
<1> DEFINE batch == batches[b]
           answer == answers[b]
           e == EndOf(batches, b - 1)
           n == Len(batch)
           old == ResultsOf(e)
           new == [j \in DOMAIN batch |-> [index |-> Len(old) + ByIndex(answer)[j].index,
                                           vector |-> ByIndex(answer)[j].vector]]
<1>1. /\ batches \in Seq(Seq(DOMAIN texts)) /\ DOMAIN batches = 1..Len(batches)
      /\ \A d \in 1..Len(batches) : IsRun(batches[d]) /\ batches[d][1] = EndOf(batches, d - 1) + 1
  BY DEF Placed
<1>2. ASSUME NEW d \in 1..Len(batches)
      PROVE  /\ batches[d] \in Seq(DOMAIN texts) /\ batches[d] # <<>>
             /\ Len(batches[d]) \in Nat \ {0} /\ batches[d][1] \in Nat \ {0}
  <2>1. batches[d] \in Seq(DOMAIN texts) /\ batches[d] # <<>>
    BY <1>1 DEF IsRun
  <2>2. DOMAIN texts \subseteq Nat \ {0}
    OBVIOUS
  <2>3. batches[d][1] \in DOMAIN texts /\ Len(batches[d]) \in Nat \ {0}
    BY <2>1
  <2> QED BY <2>1, <2>2, <2>3
<1>3. e \in Nat
  <2>1. CASE b = 1
    BY <2>1 DEF EndOf
  <2>2. CASE b # 1
    <3>1. b - 1 \in 1..Len(batches) /\ b - 1 # 0
      BY <2>2
    <3>2. batches[b - 1][1] \in Nat \ {0} /\ Len(batches[b - 1]) \in Nat \ {0}
      BY <1>2, <3>1
    <3>3. e = batches[b - 1][1] + Len(batches[b - 1]) - 1
      BY <3>1 DEF EndOf
    <3> HIDE DEF e
    <3> QED BY <3>2, <3>3
  <2> QED BY <2>1, <2>2
<1>4. /\ n \in Nat /\ DOMAIN batch = 1..n /\ batch[1] = e + 1
      /\ \A j \in 1..n : batch[j] = batch[1] + j - 1
  BY <1>1, <1>2 DEF IsRun
<1>5. EndOf(batches, b) = batch[1] + n - 1
  BY <1>1 DEF EndOf
<1>6. \A j \in 1..n : ByIndex(answer)[j].index = j - 1 /\ ByIndex(answer)[j].vector = batch[j]
  <2>1. answer \in Seq(AnswerItems) /\ ValidAnswer(answer, n)
    BY <1>1 DEF ValidAnswers
  <2>2. \A k \in DOMAIN answer : answer[k].index < n => answer[k].vector \in {0, batch[answer[k].index + 1]}
    BY <1>1 DEF Honest
  <2>3. Len(batch) \in Nat
    BY <1>4
  <2> HIDE DEF batch, answer
  <2> QED BY <2>1, <2>2, <2>3, ItemsAreFound
<1> HIDE DEF batch, answer, e, n
<1>7. EndOf(batches, b) = e + n /\ \A j \in 1..n : batch[j] = e + j
  BY <1>3, <1>4, <1>5
<1>8. old \in [1..e -> EmbeddingResults]
  BY <1>3 DEF ResultsOf, EmbeddingResults
<1>9. old \in Seq(EmbeddingResults) /\ Len(old) = e
  <2> HIDE DEF old
  <2> QED BY <1>3, <1>8, InARow
<1>10. \A i \in 1..e : old[i] = [index |-> i - 1, vector |-> i]
  BY DEF ResultsOf
<1>11. Extend(batch, answer)[old] = old \o new
  <2> HIDE DEF old
  <2> QED BY <1>9 DEF Extend
<1> HIDE DEF old
<1>12. \A j \in 1..n : new[j] = [index |-> (e + j) - 1, vector |-> e + j]
  <2> SUFFICES ASSUME NEW j \in 1..n PROVE new[j] = [index |-> (e + j) - 1, vector |-> e + j]
    OBVIOUS
  <2>1. new[j] = [index |-> e + (j - 1), vector |-> batch[j]]
    BY <1>4, <1>6, <1>9
  <2>2. e + (j - 1) = (e + j) - 1
    BY <1>3, <1>4
  <2> QED BY <1>7, <2>1, <2>2
<1>13. new \in Seq(EmbeddingResults) /\ Len(new) = n
  <2>1. \A j \in 1..n : new[j] \in EmbeddingResults
    <3> SUFFICES ASSUME NEW j \in 1..n PROVE new[j] \in EmbeddingResults
      OBVIOUS
    <3>1. (e + j) - 1 \in Nat /\ e + j \in Nat
      BY <1>3, <1>4
    <3> HIDE DEF new
    <3>2. new[j] = [index |-> (e + j) - 1, vector |-> e + j]
      BY <1>12
    <3> QED BY <3>1, <3>2 DEF EmbeddingResults
  <2>2. new = [j \in 1..n |-> new[j]]
    BY <1>4
  <2> HIDE DEF new
  <2>3. new \in [1..n -> EmbeddingResults]
    BY <2>1, <2>2
  <2> QED BY <1>4, <2>3, InARow
<1> HIDE DEF new
<1>14. old \o new = ResultsOf(e + n)
  <2> DEFINE all == old \o new
  <2>1. all \in Seq(EmbeddingResults) /\ Len(all) = e + n
    BY <1>9, <1>13, Joined
  <2>2. \A i \in 1..e : all[i] = old[i]
    BY <1>9, <1>13, Joined
  <2>3. \A i \in (e + 1)..(e + n) : all[i] = new[i - e]
    BY <1>9, <1>13, Joined
  <2> HIDE DEF all
  <2>4. all = [i \in 1..(e + n) |-> all[i]]
    BY <2>1
  <2>5. ASSUME NEW i \in 1..(e + n) PROVE all[i] = [index |-> i - 1, vector |-> i]
    <3>1. CASE i <= e
      <4>1. i \in 1..e
        BY <1>3, <3>1
      <4> QED BY <1>10, <2>2, <4>1
    <3>2. CASE ~ (i <= e)
      <4>1. i \in (e + 1)..(e + n) /\ i - e \in 1..n /\ e + (i - e) = i
        BY <1>3, <1>4, <3>2
      <4> QED BY <1>12, <2>3, <4>1
    <3> QED BY <3>1, <3>2
  <2> QED BY <2>4, <2>5 DEF ResultsOf, all
<1> QED BY <1>7, <1>11, <1>14 DEF batch, answer, e, old

\* However many texts, however long, and whatever order the service answers in:
\* each gets its own vector, or none gets one, and no request is too large.
LEMMA EmbeddingsAreInOrder ==
    ASSUME NEW texts \in Seq(Nat), NEW answers,
           \A b \in DOMAIN Batches(texts) : answers[b] \in Seq(AnswerItems)
    PROVE  EmbedsInOrder(texts, answers)
<1> DEFINE batches == Batches(texts)
<1> SUFFICES ASSUME ValidTexts(texts)
             PROVE  /\ Honest(batches, answers) =>
                        Embedded(texts, answers) =
                            IF ValidAnswers(batches, answers)
                            THEN [i \in DOMAIN texts |-> [index |-> i - 1, vector |-> i]] ELSE <<>>
                    /\ \A b \in DOMAIN batches :
                        Len(batches[b]) <= BatchItems /\ TokensOfBatch(texts, batches[b]) <= BatchTokens
  BY DEF EmbedsInOrder
<1>1. batches \in Placed(texts, Len(texts))
  BY BatchesPlaceAll
<1> HIDE DEF batches
<1>2. /\ Len(batches) \in Nat /\ DOMAIN batches = 1..Len(batches)
      /\ EndOf(batches, Len(batches)) = Len(texts)
      /\ \A b \in 1..Len(batches) :
            Len(batches[b]) <= BatchItems /\ TokensOfBatch(texts, batches[b]) <= BatchTokens
  BY <1>1 DEF Placed
<1>3. ASSUME Honest(batches, answers), ValidAnswers(batches, answers)
      PROVE  Embedded(texts, answers) = [i \in DOMAIN texts |-> [index |-> i - 1, vector |-> i]]
  <2> DEFINE Reached == [b \in 0..Len(batches) |-> {ResultsOf(EndOf(batches, b))}]
             steps == [b \in DOMAIN batches |-> Extend(batches[b], answers[b])]
  <2>1. <<>> \in Reached[0]
    <3>1. ResultsOf(EndOf(batches, 0)) = <<>>
      BY DEF ResultsOf, EndOf
    <3> QED BY <1>2, <3>1
  <2>2. \A b \in 1..Len(batches) : \A v \in Reached[b - 1] : steps[b][v] \in Reached[b]
    <3> SUFFICES ASSUME NEW b \in 1..Len(batches), NEW v \in Reached[b - 1]
                 PROVE  steps[b][v] \in Reached[b]
      OBVIOUS
    <3>1. b \in 0..Len(batches) /\ b - 1 \in 0..Len(batches) /\ b \in DOMAIN batches
      BY <1>2
    <3>2. v = ResultsOf(EndOf(batches, b - 1))
      BY <3>1
    <3>3. Extend(batches[b], answers[b])[v] = ResultsOf(EndOf(batches, b))
      <4>1. \A d \in DOMAIN batches : answers[d] \in Seq(AnswerItems)
        BY DEF batches
      <4> QED BY <1>1, <1>3, <3>2, <4>1, ResultsGrow
    <3> QED BY <3>1, <3>3
  <2>3. After(steps, <<>>, Len(batches)) \in Reached[Len(batches)]
    <3> HIDE DEF steps, Reached
    <3> QED BY <1>2, <2>1, <2>2, AfterReaches
  <2>4. After(steps, <<>>, Len(batches)) = ResultsOf(Len(texts))
    <3>1. Len(batches) \in 0..Len(batches)
      BY <1>2
    <3> HIDE DEF steps
    <3> QED BY <1>2, <2>3, <3>1
  <2>5. Embedded(texts, answers) = After(steps, <<>>, Len(batches))
    BY <1>3 DEF Embedded, batches
  <2>6. DOMAIN texts = 1..Len(texts)
    OBVIOUS
  <2> QED BY <2>4, <2>5, <2>6 DEF ResultsOf
<1>4. ~ ValidAnswers(batches, answers) => Embedded(texts, answers) = <<>>
  BY DEF Embedded, batches
<1> QED BY <1>2, <1>3, <1>4

\* An order in which a service may return n items.
Orders(n) ==
    {o \in [1..n -> 0..(n - 1)] :
        /\ \A j, k \in 1..n : o[j] = o[k] => j = k
        /\ \A i \in 0..(n - 1) : \E j \in 1..n : o[j] = i}

Item(batch, i) == [index |-> i, vector |-> batch[i + 1]]

\* The items before a fault are those of the batch, in some order.
LEMMA ItemsAreSent ==
    ASSUME NEW batch \in Seq(Nat \ {0}), NEW backwards \in BOOLEAN
    PROVE  \E o \in Orders(Len(batch)) :
                Answer(batch, backwards, "none") = [j \in 1..Len(batch) |-> Item(batch, o[j])]
<1> DEFINE n == Len(batch)
           items == [j \in DOMAIN batch |-> [index |-> j - 1, vector |-> batch[j]]]
<1>1. n \in Nat /\ DOMAIN batch = 1..n
  OBVIOUS
<1>2. Answer(batch, backwards, "none") = IF backwards THEN Reverse(items) ELSE items
  BY DEF Answer
<1>3. CASE backwards
  <2> DEFINE o == [j \in 1..n |-> n - j]
  <2>1. o \in Orders(n)
    <3>1. \A j \in 1..n : n - j \in 0..(n - 1)
      BY <1>1
    <3>2. ASSUME NEW i \in 0..(n - 1) PROVE \E j \in 1..n : o[j] = i
      <4>1. n - i \in 1..n /\ n - (n - i) = i
        BY <1>1
      <4> QED BY <4>1
    <3>3. \A j, k \in 1..n : n - j = n - k => j = k
      BY <1>1
    <3> HIDE DEF n
    <3> QED BY <3>1, <3>2, <3>3 DEF Orders
  <2>2. items \in Seq([index : Int, vector : Nat]) /\ Len(items) = n
    BY <1>1
  <2>3. Reverse(items) = [j \in 1..n |-> Item(batch, o[j])]
    <3>1. ASSUME NEW j \in 1..n PROVE items[(n - j) + 1] = Item(batch, o[j])
      <4>1. (n - j) + 1 \in 1..n /\ ((n - j) + 1) - 1 = n - j
        BY <1>1
      <4> QED BY <1>1, <4>1 DEF Item
    <3>2. Reverse(items) = [j \in 1..n |-> items[(n - j) + 1]]
      <4>1. Len(items) = n
        BY <2>2
      <4> HIDE DEF items, n
      <4> QED BY <4>1 DEF Reverse
    <3> HIDE DEF items, o, n
    <3> QED BY <3>1, <3>2
  <2> QED BY <1>2, <1>3, <2>1, <2>3
<1>4. CASE ~ backwards
  <2> DEFINE o == [j \in 1..n |-> j - 1]
  <2>1. o \in Orders(n)
    <3>1. \A j \in 1..n : j - 1 \in 0..(n - 1)
      BY <1>1
    <3>2. ASSUME NEW i \in 0..(n - 1) PROVE \E j \in 1..n : o[j] = i
      <4>1. i + 1 \in 1..n /\ (i + 1) - 1 = i
        BY <1>1
      <4> QED BY <4>1
    <3>3. \A j, k \in 1..n : j - 1 = k - 1 => j = k
      BY <1>1
    <3> HIDE DEF n
    <3> QED BY <3>1, <3>2, <3>3 DEF Orders
  <2>2. ASSUME NEW j \in 1..n PROVE items[j] = Item(batch, o[j])
    <3>1. (j - 1) + 1 = j
      BY <1>1
    <3> QED BY <1>1, <3>1 DEF Item
  <2>3. items = [j \in 1..n |-> items[j]]
    BY <1>1
  <2>4. items = [j \in 1..n |-> Item(batch, o[j])]
    <3> HIDE DEF items, o, n
    <3> QED BY <2>2, <2>3
  <2> QED BY <1>2, <1>4, <2>1, <2>4
<1> QED BY <1>3, <1>4

\* An item that is numbered as one of the batch has the vector of its text, or
\* none that is valid.
IsHonest(batch, item) == item.index < Len(batch) => item.vector \in {0, batch[item.index + 1]}

\* Whatever the fault, each item of a number in the batch has the vector of its
\* text or none; and it is seen, but for an item that is doubled alone.
LEMMA FaultsAreSeen ==
    ASSUME NEW batch \in Seq(Nat \ {0}), batch # <<>>, NEW backwards \in BOOLEAN, NEW fault \in FaultKinds,
           NEW answer, answer = Answer(batch, backwards, fault)
    PROVE  /\ answer \in Seq(AnswerItems)
           /\ \A k \in DOMAIN answer : IsHonest(batch, answer[k])
           /\ ValidAnswer(answer, Len(batch)) <=> fault = "none" \/ (fault = "doubled" /\ Len(batch) = 1)
<1> DEFINE n == Len(batch)
<1>1. n \in Nat /\ 1 \in 1..n /\ n \in 1..n /\ DOMAIN batch = 1..n
  OBVIOUS
<1>2. PICK o \in Orders(n) : Answer(batch, backwards, "none") = [j \in 1..n |-> Item(batch, o[j])]
  BY ItemsAreSent
<1> DEFINE sent == [j \in 1..n |-> Item(batch, o[j])]
<1>3. answer = CASE fault = "missing"    -> Tail(sent)
                 [] fault = "doubled"    -> <<sent[Len(sent)]>> \o Tail(sent)
                 [] fault = "range"      -> [sent EXCEPT ![1].index = n]
                 [] fault = "vector"     -> [sent EXCEPT ![1].vector = 0]
                 [] OTHER                -> sent
  BY <1>2 DEF Answer
<1>4. \A i \in 0..(n - 1) :
        /\ Item(batch, i).index = i /\ Item(batch, i).vector = batch[i + 1]
        /\ Item(batch, i).vector # 0 /\ Item(batch, i) \in AnswerItems
  <2> SUFFICES ASSUME NEW i \in 0..(n - 1)
               PROVE  /\ Item(batch, i).index = i /\ Item(batch, i).vector = batch[i + 1]
                      /\ Item(batch, i).vector # 0 /\ Item(batch, i) \in AnswerItems
    OBVIOUS
  <2>1. i + 1 \in 1..n /\ i \in Int
    BY <1>1
  <2>2. batch[i + 1] \in Nat \ {0}
    BY <1>1, <2>1
  <2> QED BY <2>1, <2>2 DEF Item, AnswerItems
<1>5. /\ o \in [1..n -> 0..(n - 1)]
      /\ \A j, k \in 1..n : o[j] = o[k] => j = k
      /\ \A i \in 0..(n - 1) : \E j \in 1..n : o[j] = i
  BY <1>2 DEF Orders
<1>6. \A j \in 1..n : /\ sent[j] \in AnswerItems /\ sent[j].index = o[j]
                      /\ sent[j].index \in 0..(n - 1)
                      /\ sent[j].vector # 0 /\ IsHonest(batch, sent[j])
  <2> SUFFICES ASSUME NEW j \in 1..n
               PROVE  /\ sent[j] \in AnswerItems /\ sent[j].index = o[j]
                      /\ sent[j].index \in 0..(n - 1)
                      /\ sent[j].vector # 0 /\ IsHonest(batch, sent[j])
    OBVIOUS
  <2>1. o[j] \in 0..(n - 1)
    BY <1>5
  <2> DEFINE i == o[j]
  <2>2. sent[j] = Item(batch, i)
    OBVIOUS
  <2> HIDE DEF sent, i, n
  <2> QED BY <1>4, <2>1, <2>2 DEF IsHonest, i
<1>7. sent \in Seq(AnswerItems) /\ Len(sent) = n /\ DOMAIN sent = 1..n
  <2>1. sent \in [1..n -> AnswerItems]
    BY <1>6
  <2> HIDE DEF sent
  <2> QED BY <1>1, <2>1
<1> HIDE DEF sent, n
<1>8. CASE fault = "none"
  <2>1. answer = sent
    BY <1>3, <1>8
  <2>2. ASSUME NEW i \in 0..(n - 1) PROVE \E j \in 1..n : sent[j].index = i
    BY <1>5, <1>6
  <2>3. {sent[j].index : j \in 1..n} = 0..(n - 1)
    BY <1>6, <2>2
  <2>4. ValidAnswer(answer, n)
    BY <1>6, <1>7, <2>1, <2>3 DEF ValidAnswer
  <2> QED BY <1>6, <1>7, <1>8, <2>1, <2>4 DEF n
<1>9. CASE fault = "missing"
  <2>1. answer = Tail(sent)
    BY <1>3, <1>9
  <2>2. sent # <<>>
    BY <1>1, <1>7
  <2>3. answer \in Seq(AnswerItems) /\ Len(answer) = n - 1 /\ \A k \in 1..(n - 1) : answer[k] = sent[k + 1]
    BY <1>7, <2>1, <2>2
  <2>4. ~ ValidAnswer(answer, n)
    BY <1>1, <2>3 DEF ValidAnswer
  <2>5. \A k \in DOMAIN answer : k + 1 \in 1..n /\ answer[k] = sent[k + 1]
    BY <1>1, <2>3
  <2> QED BY <1>6, <1>9, <2>3, <2>4, <2>5 DEF n
<1>10. CASE fault = "doubled"
  <2>1. answer = <<sent[n]>> \o Tail(sent)
    BY <1>3, <1>7, <1>10
  <2>2. sent # <<>>
    BY <1>1, <1>7
  <2>3. Tail(sent) \in Seq(AnswerItems) /\ Len(Tail(sent)) = n - 1 /\ \A k \in 1..(n - 1) : Tail(sent)[k] = sent[k + 1]
    BY <1>7, <2>2
  <2>4. <<sent[n]>> \in Seq(AnswerItems) /\ Len(<<sent[n]>>) = 1
    BY <1>1, <1>6
  <2> DEFINE rest == Tail(sent)
             first == <<sent[n]>>
  <2>5. answer \in Seq(AnswerItems) /\ Len(answer) = n
        /\ \A k \in 1..n : answer[k] = IF k = 1 THEN sent[n] ELSE rest[k - 1]
    <3>1. first[1] = sent[n]
      OBVIOUS
    <3> HIDE DEF rest, first
    <3> QED BY <1>1, <2>1, <2>3, <2>4, <3>1 DEF rest, first
  <2>6. \A k \in 1..n : answer[k] = IF k = 1 THEN sent[n] ELSE sent[k]
    <3> SUFFICES ASSUME NEW k \in 1..n, k # 1 PROVE rest[k - 1] = sent[k]
      BY <2>5
    <3>1. k - 1 \in 1..(n - 1) /\ (k - 1) + 1 = k
      BY <1>1
    <3> QED BY <2>3, <3>1
  <2>7. DOMAIN answer = 1..n
    BY <1>1, <2>5
  <2> HIDE DEF rest, first
  <2>8. CASE n = 1
    <3>1. answer[1] = sent[1] /\ 1..n = {1} /\ 0..(n - 1) = {0}
      BY <1>1, <2>6, <2>8
    <3>2. sent[1].index = 0 /\ sent[1].vector # 0
      BY <1>1, <1>6, <3>1
    <3>3. ValidAnswer(answer, n)
      BY <2>5, <2>7, <3>1, <3>2 DEF ValidAnswer
    <3> QED BY <1>1, <1>6, <1>10, <2>5, <2>6, <2>7, <2>8, <3>3 DEF n
  <2>9. CASE n # 1
    <3>1. ASSUME NEW k \in 1..n PROVE answer[k].index # sent[1].index
      <4>1. PICK j \in 1..n : j # 1 /\ answer[k] = sent[j]
        BY <1>1, <2>6, <2>9
      <4>2. sent[j].index = o[j] /\ sent[1].index = o[1] /\ o[j] # o[1]
        BY <1>1, <1>5, <1>6, <4>1
      <4> QED BY <4>1, <4>2
    <3>2. ~ ValidAnswer(answer, n)
      <4>1. sent[1].index \in 0..(n - 1)
        BY <1>1, <1>6
      <4>2. sent[1].index \notin {answer[j].index : j \in DOMAIN answer}
        BY <2>7, <3>1
      <4> QED BY <4>1, <4>2 DEF ValidAnswer
    <3>3. ASSUME NEW k \in DOMAIN answer PROVE IsHonest(batch, answer[k])
      BY <1>1, <1>6, <2>6, <2>7
    <3> QED BY <1>10, <2>5, <2>9, <3>2, <3>3 DEF n
  <2> QED BY <2>8, <2>9
<1>11. CASE fault = "range"
  <2> DEFINE bad == [sent[1] EXCEPT !.index = n]
  <2>1. answer = [sent EXCEPT ![1] = bad]
    BY <1>3, <1>11
  <2>2. bad \in AnswerItems /\ bad.index = n /\ IsHonest(batch, bad)
    <3>1. sent[1] \in AnswerItems /\ n \in Int
      BY <1>1, <1>6
    <3>2. bad \in AnswerItems /\ bad.index = n
      BY <3>1 DEF AnswerItems
    <3> HIDE DEF bad
    <3> QED BY <1>1, <3>2 DEF IsHonest, n
  <2> HIDE DEF bad
  <2>3. answer \in Seq(AnswerItems) /\ Len(answer) = n /\ DOMAIN answer = 1..n
        /\ \A k \in 1..n : answer[k] = IF k = 1 THEN bad ELSE sent[k]
    BY <1>1, <1>7, <2>1, <2>2
  <2>4. ~ ValidAnswer(answer, n)
    <3>1. n \in {answer[j].index : j \in DOMAIN answer} /\ n \notin 0..(n - 1)
      BY <1>1, <2>2, <2>3
    <3> QED BY <3>1 DEF ValidAnswer
  <2>5. ASSUME NEW k \in DOMAIN answer PROVE IsHonest(batch, answer[k])
    BY <1>6, <2>2, <2>3
  <2> QED BY <1>11, <2>3, <2>4, <2>5 DEF n
<1>12. CASE fault = "vector"
  <2> DEFINE bad == [sent[1] EXCEPT !.vector = 0]
  <2>1. answer = [sent EXCEPT ![1] = bad]
    BY <1>3, <1>12
  <2>2. bad \in AnswerItems /\ bad.vector = 0 /\ IsHonest(batch, bad)
    <3>1. bad \in AnswerItems /\ bad.vector = 0
      BY <1>1, <1>6 DEF AnswerItems
    <3> HIDE DEF bad
    <3> QED BY <3>1 DEF IsHonest
  <2> HIDE DEF bad
  <2>3. answer \in Seq(AnswerItems) /\ Len(answer) = n /\ DOMAIN answer = 1..n
        /\ \A k \in 1..n : answer[k] = IF k = 1 THEN bad ELSE sent[k]
    BY <1>1, <1>7, <2>1, <2>2
  <2>4. ~ ValidAnswer(answer, n)
    BY <1>1, <2>2, <2>3 DEF ValidAnswer
  <2>5. ASSUME NEW k \in DOMAIN answer PROVE IsHonest(batch, answer[k])
    BY <1>6, <2>2, <2>3
  <2> QED BY <1>12, <2>3, <2>4, <2>5 DEF n
<1> QED BY <1>8, <1>9, <1>10, <1>11, <1>12 DEF FaultKinds

\* The answers to all batches of valid texts, whatever becomes of one of them.
LEMMA AnswersAreSeen ==
    ASSUME NEW texts \in Seq(Nat), ValidTexts(texts), NEW backwards \in BOOLEAN,
           NEW fault, fault.kind \in FaultKinds,
           NEW batches, batches = Batches(texts),
           NEW answers, answers = Answers(batches, backwards, fault)
    PROVE  /\ \A b \in DOMAIN batches : answers[b] \in Seq(AnswerItems)
           /\ Honest(batches, answers)
           /\ ValidAnswers(batches, answers) <=> ~Spoilt(batches, fault)
<1>1. batches \in Placed(texts, Len(texts))
  BY BatchesPlaceAll
<1>2. ASSUME NEW b \in DOMAIN batches PROVE batches[b] \in Seq(Nat \ {0}) /\ batches[b] # <<>>
  <2>1. batches \in Seq(Seq(DOMAIN texts)) /\ \A d \in 1..Len(batches) : IsRun(batches[d])
    BY <1>1 DEF Placed
  <2>2. batches[b] \in Seq(DOMAIN texts) /\ batches[b] # <<>>
    BY <1>2, <2>1 DEF IsRun
  <2>3. DOMAIN texts \subseteq Nat \ {0}
    OBVIOUS
  <2> QED BY <2>2, <2>3
<1>3. \A b \in DOMAIN batches :
        answers[b] = Answer(batches[b], backwards, IF b = fault.at THEN fault.kind ELSE "none")
  BY DEF Answers
<1> DEFINE of(b) == IF b = fault.at THEN fault.kind ELSE "none"
<1>4. ASSUME NEW b \in DOMAIN batches
      PROVE  /\ answers[b] \in Seq(AnswerItems)
             /\ \A k \in DOMAIN answers[b] : IsHonest(batches[b], answers[b][k])
             /\ ValidAnswer(answers[b], Len(batches[b]))
                    <=> of(b) = "none" \/ (of(b) = "doubled" /\ Len(batches[b]) = 1)
  <2>1. of(b) \in FaultKinds
    BY DEF FaultKinds
  <2>2. answers[b] = Answer(batches[b], backwards, of(b))
    BY <1>3
  <2> HIDE DEF of
  <2> QED BY <1>2, <2>1, <2>2, FaultsAreSeen
<1>5. Honest(batches, answers)
  BY <1>4 DEF Honest, IsHonest
<1>6. ValidAnswers(batches, answers) <=> ~Spoilt(batches, fault)
  <2>1. CASE fault.at \in DOMAIN batches
    <3>1. \A b \in DOMAIN batches : b # fault.at => ValidAnswer(answers[b], Len(batches[b]))
      BY <1>4
    <3>2. ValidAnswer(answers[fault.at], Len(batches[fault.at]))
            <=> fault.kind = "none" \/ (fault.kind = "doubled" /\ Len(batches[fault.at]) = 1)
      BY <1>4, <2>1
    <3> HIDE DEF of
    <3> QED BY <2>1, <3>1, <3>2 DEF ValidAnswers, Spoilt
  <2>2. CASE fault.at \notin DOMAIN batches
    BY <1>4, <2>2 DEF ValidAnswers, Spoilt
  <2> QED BY <2>1, <2>2
<1> QED BY <1>4, <1>5, <1>6

-----------------------------------------------------------------------------
(* Artifacts and the rules that score them.                                *)

\* What the proofs need of PROMPT_SPECS: only the prompt for a CSV has its
\* fence checked as one, and what has code has the language of its fence.
LEMMA SpecsAreConsistent ==
    ASSUME NEW p \in DOMAIN Specs
    PROVE  /\ Specs[p].lang \in {NoLanguage, "sql", "csv", "python"}
           /\ Specs[p].artifact = "csv" <=> Specs[p].lang = "csv"
           /\ Specs[p].lang # NoLanguage => Specs[p].sections = <<>>
<1>1. p \in {"databricks_qa", "workflow_design", "document_summary",
             "knowledge_qa", "proposal_generation", "self_check"}
            \cup {"ddl_generation", "mapping_generation", "sql_generation",
                  "pyspark_generation", "notebook_generation"}
  BY DEF Specs
<1>3. \A artifact, lang :
        LET c == Code(artifact, lang)
        IN  c.lang = lang /\ c.artifact = artifact /\ c.sections = <<>>
  BY DEF Code
<1>4. CASE p = "databricks_qa"
  <2>1. PICK sections : Specs[p] = Document("answer", sections, FALSE, TRUE)
    BY <1>4 DEF Specs
  <2>2. Specs[p].lang = NoLanguage /\ Specs[p].artifact = "answer"
    BY <2>1 DEF Document
  <2> QED BY <2>2 DEF NoLanguage
<1>5. CASE p = "workflow_design"
  <2>1. PICK sections : Specs[p] = [Document("workflow_design", sections, TRUE, TRUE) EXCEPT !.workspace = TRUE]
    BY <1>5 DEF Specs
  <2>2. Specs[p].lang = NoLanguage /\ Specs[p].artifact = "workflow_design"
    BY <2>1 DEF Document
  <2> QED BY <2>2 DEF NoLanguage
<1>6. CASE p = "document_summary"
  <2>1. PICK sections : Specs[p] = Document("summary", sections, FALSE, FALSE)
    BY <1>6 DEF Specs
  <2>2. Specs[p].lang = NoLanguage /\ Specs[p].artifact = "summary"
    BY <2>1 DEF Document
  <2> QED BY <2>2 DEF NoLanguage
<1>7. CASE p = "knowledge_qa"
  <2>1. PICK sections : Specs[p] = Document("answer", sections, TRUE, FALSE)
    BY <1>7 DEF Specs
  <2>2. Specs[p].lang = NoLanguage /\ Specs[p].artifact = "answer"
    BY <2>1 DEF Document
  <2> QED BY <2>2 DEF NoLanguage
<1>8. CASE p = "proposal_generation"
  <2>1. PICK sections : Specs[p] = Document("proposal", sections, TRUE, TRUE)
    BY <1>8 DEF Specs
  <2>2. Specs[p].lang = NoLanguage /\ Specs[p].artifact = "proposal"
    BY <2>1 DEF Document
  <2> QED BY <2>2 DEF NoLanguage
<1>9. CASE p = "self_check"
  <2>1. PICK sections : Specs[p] = Document("checklist", sections, FALSE, TRUE)
    BY <1>9 DEF Specs
  <2>2. Specs[p].lang = NoLanguage /\ Specs[p].artifact = "checklist"
    BY <2>1 DEF Document
  <2> QED BY <2>2 DEF NoLanguage
<1>10. CASE p = "ddl_generation"
  <2>1. Specs[p].lang = "sql" /\ Specs[p].artifact = "sql" /\ Specs[p].sections = <<>>
    BY <1>3, <1>10 DEF Specs
  <2> QED BY <2>1 DEF NoLanguage
<1>11. CASE p = "mapping_generation"
  <2>1. Specs[p].lang = "csv" /\ Specs[p].artifact = "csv" /\ Specs[p].sections = <<>>
    BY <1>3, <1>11 DEF Specs
  <2> QED BY <2>1 DEF NoLanguage
<1>12. CASE p = "sql_generation"
  <2>1. Specs[p].lang = "sql" /\ Specs[p].artifact = "sql" /\ Specs[p].sections = <<>>
    BY <1>3, <1>12 DEF Specs
  <2> QED BY <2>1 DEF NoLanguage
<1>13. CASE p = "pyspark_generation"
  <2>1. Specs[p].lang = "python" /\ Specs[p].artifact = "pyspark" /\ Specs[p].sections = <<>>
    BY <1>3, <1>13 DEF Specs
  <2> QED BY <2>1 DEF NoLanguage
<1>14. CASE p = "notebook_generation"
  <2>1. Specs[p].lang = "python" /\ Specs[p].artifact = "notebook" /\ Specs[p].sections = <<>>
    BY <1>3, <1>14 DEF Specs
  <2> QED BY <2>1 DEF NoLanguage
<1> QED BY <1>1, <1>4, <1>5, <1>6, <1>7, <1>8, <1>9, <1>10, <1>11, <1>12, <1>13, <1>14

\* A text that begins with a fence has that for its first.
LEMMA FirstFenceBegins ==
    ASSUME NEW S, NEW blocks \in Seq(S), blocks # <<>>, blocks[1].type = "fence"
    PROVE  /\ FirstFence(blocks).lang = blocks[1].lang
           /\ FirstFence(blocks).code =
                IF CommentsAreTold(blocks[1]) THEN blocks[1].code ELSE blocks[1].terms
<1> DEFINE fences == {i \in DOMAIN blocks : blocks[i].type = "fence"}
<1>1. 1 \in DOMAIN blocks /\ \A i \in DOMAIN blocks : i \in Nat /\ 1 <= i
  OBVIOUS
<1>2. 1 \in fences /\ fences \subseteq Nat /\ \A i \in fences : 1 <= i
  BY <1>1
<1>3. Min(fences) = 1
  <2> HIDE DEF fences
  <2>1. \A x \in fences : (\A y \in fences : x <= y) => x = 1
    BY <1>2
  <2> QED BY <1>2, <2>1 DEF Min
<1>4. fences # {}
  BY <1>2
<1> DEFINE fence == blocks[Min(fences)]
<1>5. FirstFence(blocks) = [lang |-> fence.lang,
                            code |-> IF CommentsAreTold(fence) THEN fence.code ELSE fence.terms]
  BY <1>4 DEF FirstFence
<1>6. fence = blocks[1]
  BY <1>3
<1> HIDE DEF fence
<1> QED BY <1>5, <1>6

\* Whatever is accepted as the artifact of a case's prompt keeps the rules on
\* its form, of any length and in any order of its blocks.
LEMMA AcceptedKeepForm ==
    ASSUME NEW case, case.prompt \in DOMAIN Specs, NEW S, NEW text, text.blocks \in Seq(S),
           \A b \in ToSet(text.blocks) : IsFence(b)
    PROVE  AcceptedKeepsForm(case, text)
<1> DEFINE blocks == text.blocks
           expected == case.expected
           spec == Specs[case.prompt]
           rules == ContentRules(expected, blocks)
<1> SUFFICES ASSUME ValidCase(case), ValidArtifact(spec, blocks)
             PROVE  /\ (\A b \in ToSet(blocks) : b.type = "h2" => b.style = "plain")
                            => rules.required_sections
                    /\ rules.code_fence_language
                    /\ expected.lang \in {"sql", "python"} =>
                        /\ blocks[1].type = "fence"
                        /\ SeesCode(expected, rules, blocks[1])
  BY DEF AcceptedKeepsForm, Normalized
<1>1. expected.lang = spec.lang /\ expected.sections = spec.sections
  BY DEF ValidCase
<1>2. /\ spec.lang \in {NoLanguage, "sql", "csv", "python"}
      /\ spec.artifact = "csv" <=> spec.lang = "csv"
      /\ spec.lang # NoLanguage => spec.sections = <<>>
  BY SpecsAreConsistent
<1>3. blocks \in Seq(S) /\ blocks # <<>>
  BY DEF ValidArtifact
<1>4. /\ rules.required_sections = (ToSet(expected.sections) \subseteq SectionLines(blocks))
      /\ rules.code_fence_language = (expected.lang \in {NoLanguage, FirstFence(blocks).lang})
      /\ rules.code_required_terms = (expected.codeTerms \subseteq FirstFence(blocks).code)
      /\ rules.code_forbidden_terms = (expected.codeForbidden \cap FirstFence(blocks).code = {})
  BY DEF ContentRules
<1> HIDE DEF rules, spec, blocks, expected
<1>5. CASE spec.lang = NoLanguage
  <2>1. ValidDocument(spec, blocks)
    BY <1>2, <1>5 DEF ValidArtifact, NoLanguage
  <2>2. ToSet(spec.sections) \subseteq {blocks[i].text : i \in Headings(blocks, "h2")}
    BY <2>1 DEF ValidDocument
  <2>3. ASSUME \A b \in ToSet(blocks) : b.type = "h2" => b.style = "plain"
        PROVE  ToSet(spec.sections) \subseteq SectionLines(blocks)
    <3>1. \A i \in Headings(blocks, "h2") : blocks[i].text \in SectionLines(blocks)
      <4> SUFFICES ASSUME NEW i \in Headings(blocks, "h2")
                   PROVE  blocks[i].text \in SectionLines(blocks)
        OBVIOUS
      <4>1. blocks[i] \in ToSet(blocks) /\ blocks[i].type = "h2"
        BY DEF Headings, ToSet
      <4> QED BY <4>1, <2>3 DEF SectionLines
    <3> QED BY <2>2, <3>1
  <2> QED BY <1>1, <1>4, <1>5, <2>3 DEF NoLanguage
<1>6. CASE spec.lang # NoLanguage
  <2>1. FirstLanguage(blocks) = spec.lang
    BY <1>2, <1>6 DEF ValidArtifact, ValidCsv, ValidCode
  <2>2. blocks[1].type = "fence" /\ blocks[1].lang = spec.lang
    BY <1>3, <1>6, <2>1 DEF FirstLanguage, Language
  <2>3. /\ FirstFence(blocks).lang = spec.lang
        /\ FirstFence(blocks).code = IF CommentsAreTold(blocks[1]) THEN blocks[1].code ELSE blocks[1].terms
    BY <1>3, <2>2, FirstFenceBegins
  <2>4. ToSet(spec.sections) = {}
    BY <1>2, <1>6 DEF ToSet
  <2>5. blocks[1].code \subseteq blocks[1].terms
    <3>1. blocks[1] \in ToSet(blocks)
      BY <1>3 DEF ToSet
    <3> QED BY <2>2, <3>1 DEF blocks, IsFence
  <2>6. SeesCode(expected, rules, blocks[1])
    BY <1>4, <2>3, <2>5 DEF SeesCode
  <2> QED BY <1>1, <1>4, <2>2, <2>3, <2>4, <2>6
<1> QED BY <1>5, <1>6

\* A sequence of names, no two the same.
Distinguished(names) ==
    (\E S : names \in Seq(S)) /\ \A i, j \in 1..Len(names) : names[i] = names[j] => i = j

LEMMA FiveNames ==
    ASSUME NEW a, NEW b, NEW c, NEW d, NEW e,
           a \notin {b, c, d, e}, b \notin {c, d, e}, c \notin {d, e}, d # e
    PROVE  Distinguished(<<a, b, c, d, e>>)
<1> DEFINE names == <<a, b, c, d, e>>
           S == {a, b, c, d, e}
<1>1. a \in S /\ b \in S /\ c \in S /\ d \in S /\ e \in S
  OBVIOUS
<1> HIDE DEF S
<1>2. names \in Seq(S) /\ Len(names) = 5
  BY <1>1
<1>3. names[1] = a /\ names[2] = b /\ names[3] = c /\ names[4] = d /\ names[5] = e
  OBVIOUS
<1> HIDE DEF names
<1>4. \A i \in 1..5 : i \in {1, 2, 3, 4, 5}
  OBVIOUS
<1>5. \A i, j \in 1..5 : names[i] = names[j] => i = j
  BY <1>3, <1>4
<1>6. Distinguished(names)
  BY <1>2, <1>5 DEF Distinguished
<1> QED BY <1>6 DEF names

LEMMA OneMoreName ==
    ASSUME NEW names, Distinguished(names), NEW name, \A i \in 1..Len(names) : names[i] # name
    PROVE  Distinguished(Append(names, name))
<1> DEFINE more == Append(names, name)
<1>1. PICK S : names \in Seq(S)
  BY DEF Distinguished
<1> DEFINE T == S \cup {name}
<1>2. names \in Seq(T) /\ name \in T /\ Len(names) \in Nat
  BY <1>1
<1> HIDE DEF T
<1>3. more \in Seq(T) /\ Len(more) = Len(names) + 1
  BY <1>2
<1>4. more[Len(names) + 1] = name /\ \A i \in 1..Len(names) : more[i] = names[i]
  BY <1>2
<1>5. \A i \in 1..(Len(names) + 1) : i = Len(names) + 1 \/ i \in 1..Len(names)
  BY <1>2
<1> HIDE DEF more
<1>6. \A i, j \in 1..Len(more) : more[i] = more[j] => i = j
  BY <1>2, <1>3, <1>4, <1>5 DEF Distinguished
<1>7. Distinguished(more)
  BY <1>3, <1>6 DEF Distinguished
<1> QED BY <1>7 DEF more

\* The sections of the longer documents.
LEMMA LongDocuments ==
    /\ Distinguished(<<"background", "scope", "design", "plan", "deliverables", "risks", "to confirm">>)
    /\ Distinguished(<<"requirements", "sources", "bronze", "silver", "gold", "notebooks", "jobs",
                       "schedule", "monitoring", "risks", "follow-up">>)
<1>1. Distinguished(<<"background", "scope", "design", "plan", "deliverables", "risks", "to confirm">>)
  <2> DEFINE names == <<"background", "scope", "design", "plan", "deliverables", "risks", "to confirm">>
             S == {"background", "scope", "design", "plan", "deliverables", "risks", "to confirm"}
  <2>1. names \in Seq(S) /\ Len(names) = 7
    OBVIOUS
  <2>2. /\ names[1] = "background" /\ names[2] = "scope" /\ names[3] = "design" /\ names[4] = "plan"
        /\ names[5] = "deliverables" /\ names[6] = "risks" /\ names[7] = "to confirm"
    OBVIOUS
  <2> HIDE DEF names
  <2>3. \A i \in 1..7 : i \in {1, 2, 3, 4, 5, 6, 7}
    OBVIOUS
  <2>4. \A i, j \in 1..7 : names[i] = names[j] => i = j
    BY <2>2, <2>3
  <2>5. Distinguished(names)
    BY <2>1, <2>4 DEF Distinguished
  <2> QED BY <2>5 DEF names
<1>2. Distinguished(<<"requirements", "sources", "bronze", "silver", "gold", "notebooks", "jobs",
                      "schedule", "monitoring", "risks", "follow-up">>)
  <2> DEFINE names == <<"requirements", "sources", "bronze", "silver", "gold", "notebooks", "jobs",
                        "schedule", "monitoring", "risks", "follow-up">>
             S == {"requirements", "sources", "bronze", "silver", "gold", "notebooks", "jobs",
                   "schedule", "monitoring", "risks", "follow-up"}
  <2>1. names \in Seq(S) /\ Len(names) = 11
    OBVIOUS
  <2>2. /\ names[1] = "requirements" /\ names[2] = "sources" /\ names[3] = "bronze"
        /\ names[4] = "silver" /\ names[5] = "gold" /\ names[6] = "notebooks" /\ names[7] = "jobs"
        /\ names[8] = "schedule" /\ names[9] = "monitoring" /\ names[10] = "risks"
        /\ names[11] = "follow-up"
    OBVIOUS
  <2> HIDE DEF names
  <2>3. \A i \in 1..11 : i \in {1, 2, 3, 4, 5, 6, 7, 8, 9, 10, 11}
    OBVIOUS
  <2>4. \A i, j \in 1..11 : names[i] = names[j] => i = j
    BY <2>2, <2>3
  <2>5. Distinguished(names)
    BY <2>1, <2>4 DEF Distinguished
  <2> QED BY <2>5 DEF names
<1> QED BY <1>1, <1>2

\* A document that is asked for has sections, each once.
LEMMA SectionsAreDistinct ==
    ASSUME NEW p \in DOMAIN Specs
    PROVE  Specs[p].lang = NoLanguage => Distinguished(Specs[p].sections)
<1>1. p \in {"databricks_qa", "workflow_design", "document_summary",
             "knowledge_qa", "proposal_generation", "self_check"}
            \cup {"ddl_generation", "mapping_generation", "sql_generation",
                  "pyspark_generation", "notebook_generation"}
  BY DEF Specs
<1>3. Distinguished(AnswerSections)
  BY FiveNames DEF AnswerSections
<1>4. CASE p = "databricks_qa"
  <2>1. Specs[p] = Document("answer", AnswerSections, FALSE, TRUE)
    BY <1>4 DEF Specs
  <2>2. Specs[p].sections = AnswerSections
    BY <2>1 DEF Document
  <2> QED BY <1>3, <2>2
<1>5. CASE p = "knowledge_qa"
  <2>1. \A i \in 1..Len(AnswerSections) : AnswerSections[i] # "citations"
    <3>1. Len(AnswerSections) = 5 /\ \A i \in 1..5 : i \in {1, 2, 3, 4, 5}
      BY DEF AnswerSections
    <3>2. /\ AnswerSections[1] = "conclusion" /\ AnswerSections[2] = "scenarios"
          /\ AnswerSections[3] = "details" /\ AnswerSections[4] = "cautions"
          /\ AnswerSections[5] = "to confirm"
      BY DEF AnswerSections
    <3> QED BY <3>1, <3>2
  <2>2. Distinguished(Append(AnswerSections, "citations"))
    BY <1>3, <2>1, OneMoreName
  <2>3. Specs[p] = Document("answer", Append(AnswerSections, "citations"), TRUE, FALSE)
    BY <1>5 DEF Specs
  <2>4. Specs[p].sections = Append(AnswerSections, "citations")
    BY <2>3 DEF Document
  <2> QED BY <2>2, <2>4
<1>6. CASE p = "document_summary"
  <2> DEFINE names == <<"summary", "points", "terms", "risks", "to confirm">>
  <2>1. Specs[p] = Document("summary", names, FALSE, FALSE)
    BY <1>6 DEF Specs
  <2>2. Distinguished(names)
    BY FiveNames
  <2> HIDE DEF names
  <2>3. Specs[p].sections = names
    BY <2>1 DEF Document
  <2> QED BY <2>2, <2>3
<1>7. CASE p = "proposal_generation"
  <2> DEFINE names == <<"background", "scope", "design", "plan", "deliverables", "risks", "to confirm">>
  <2>1. Specs[p] = Document("proposal", names, TRUE, TRUE)
    BY <1>7 DEF Specs
  <2>2. Distinguished(names)
    BY LongDocuments
  <2> HIDE DEF names
  <2>3. Specs[p].sections = names
    BY <2>1 DEF Document
  <2> QED BY <2>2, <2>3
<1>8. CASE p = "self_check"
  <2> DEFINE names == <<"subject", "passed", "problems", "suggestions", "to confirm">>
  <2>1. Specs[p] = Document("checklist", names, FALSE, TRUE)
    BY <1>8 DEF Specs
  <2>2. Distinguished(names)
    BY FiveNames
  <2> HIDE DEF names
  <2>3. Specs[p].sections = names
    BY <2>1 DEF Document
  <2> QED BY <2>2, <2>3
<1>9. CASE p = "workflow_design"
  <2> DEFINE names == <<"requirements", "sources", "bronze", "silver", "gold", "notebooks", "jobs", "schedule",
                        "monitoring", "risks", "follow-up">>
  <2>1. Specs[p] = [Document("workflow_design", names, TRUE, TRUE) EXCEPT !.workspace = TRUE]
    BY <1>9 DEF Specs
  <2>2. Distinguished(names)
    BY LongDocuments
  <2> HIDE DEF names
  <2>3. Specs[p].sections = names
    BY <2>1 DEF Document
  <2> QED BY <2>2, <2>3
<1>10. CASE p \in {"ddl_generation", "mapping_generation", "sql_generation",
                   "pyspark_generation", "notebook_generation"}
  <2>1. \A artifact, lang : Code(artifact, lang).lang = lang
    BY DEF Code
  <2>2. ASSUME p \in {"ddl_generation", "sql_generation"} PROVE Specs[p].lang = "sql"
    <3>1. CASE p = "ddl_generation"
      BY <2>1, <3>1 DEF Specs
    <3>2. CASE p = "sql_generation"
      BY <2>1, <3>2 DEF Specs
    <3> QED BY <2>2, <3>1, <3>2
  <2>3. ASSUME p = "mapping_generation" PROVE Specs[p].lang = "csv"
    BY <2>1, <2>3 DEF Specs
  <2>4. ASSUME p \in {"pyspark_generation", "notebook_generation"} PROVE Specs[p].lang = "python"
    <3>1. CASE p = "pyspark_generation"
      BY <2>1, <3>1 DEF Specs
    <3>2. CASE p = "notebook_generation"
      BY <2>1, <3>2 DEF Specs
    <3> QED BY <2>4, <3>1, <3>2
  <2> QED BY <1>10, <2>2, <2>3, <2>4 DEF NoLanguage
<1> QED BY <1>1, <1>4, <1>5, <1>6, <1>7, <1>8, <1>9, <1>10

\* A document that is asked for is accepted.
LEMMA AskedIsAccepted ==
    ASSUME NEW p \in DOMAIN Specs, Specs[p].lang = NoLanguage,
           NEW blocks, blocks = Asked(Specs[p].sections, "plain")
    PROVE  ValidArtifact(Specs[p], blocks)
<1> DEFINE spec == Specs[p]
           names == spec.sections
           n == Len(names)
           sections == [i \in DOMAIN names |-> Section(names[i], "plain")]
<1>1. (\E R : names \in Seq(R)) /\ \A i, j \in 1..n : names[i] = names[j] => i = j
  BY SectionsAreDistinct DEF Distinguished
<1>2. n \in Nat /\ DOMAIN names = 1..n /\ n < MaxBlocks /\ MaxBlocks \in Nat
  BY <1>1, ArtifactAssumption
<1> DEFINE S == {Title("t")} \cup {Section(names[i], "plain") : i \in 1..n}
<1>3. sections \in Seq(S) /\ Len(sections) = n
  BY <1>1, <1>2
<1>4. blocks = <<Title("t")>> \o sections
  BY DEF Asked
<1>5. /\ Title("t").type = "h1" /\ Title("t").text = "t"
      /\ \A name : Section(name, "plain").type = "h2" /\ Section(name, "plain").text = name
  BY DEF Title, Section
<1>6. \A i \in 1..n : sections[i].type = "h2" /\ sections[i].text = names[i]
  BY <1>2, <1>5
<1> HIDE DEF sections, S, names, spec
<1>7. /\ blocks \in Seq(S) /\ Len(blocks) = n + 1 /\ DOMAIN blocks = 1..(n + 1)
      /\ blocks[1] = Title("t") /\ \A i \in 1..n : blocks[i + 1] = sections[i]
  <2> DEFINE title == <<Title("t")>>
  <2>1. Title("t") \in S
    BY DEF S
  <2>2. title \in Seq(S) /\ Len(title) = 1 /\ title[1] = Title("t")
    BY <2>1
  <2> DEFINE both == title \o sections
  <2> HIDE DEF title, n, S
  <2>3. /\ both \in Seq(S) /\ Len(both) = Len(title) + Len(sections)
        /\ \A k \in 1..Len(title) : both[k] = title[k]
        /\ \A k \in (Len(title) + 1)..(Len(title) + Len(sections)) : both[k] = sections[k - Len(title)]
    BY <1>3, <2>2, Joined
  <2>6. blocks = both
    BY <1>4 DEF title
  <2> HIDE DEF both
  <2>4. /\ blocks \in Seq(S) /\ Len(blocks) = 1 + n /\ blocks[1] = Title("t")
        /\ \A k \in 2..(1 + n) : blocks[k] = sections[k - 1]
    <3>1. Len(both) = 1 + n /\ 1 \in 1..Len(title) /\ both[1] = Title("t")
      BY <1>2, <1>3, <2>2, <2>3
    <3>2. \A k \in 2..(1 + n) : both[k] = sections[k - 1]
      BY <1>2, <1>3, <2>2, <2>3
    <3> QED BY <2>3, <2>6, <3>1, <3>2
  <2>5. \A i \in 1..n : i + 1 \in 2..(1 + n) /\ (i + 1) - 1 = i /\ 1 + n = n + 1
    BY <1>2
  <2> QED BY <1>2, <2>4, <2>5
<1> HIDE DEF n
<1>8. blocks[1].type = "h1" /\ blocks[1].text = "t"
  BY <1>5, <1>7
<1>9. \A i \in 1..n : blocks[i + 1].type = "h2" /\ blocks[i + 1].text = names[i]
  BY <1>6, <1>7
<1>10. \A k \in 1..(n + 1) : k = 1 \/ (k - 1 \in 1..n /\ (k - 1) + 1 = k)
  BY <1>2
<1>11. \A k \in DOMAIN blocks : blocks[k].type = IF k = 1 THEN "h1" ELSE "h2"
  BY <1>7, <1>8, <1>9, <1>10
<1>12. Headings(blocks, "h1") = {1} /\ 1 \in DOMAIN blocks
  BY <1>2, <1>7, <1>11 DEF Headings
<1>13. ASSUME NEW i \in 1..n PROVE i + 1 \in Headings(blocks, "h2")
  <2>1. i + 1 \in 1..(n + 1)
    BY <1>2
  <2>2. i + 1 \in DOMAIN blocks /\ blocks[i + 1].type = "h2"
    <3>1. DOMAIN blocks = 1..(n + 1)
      BY <1>7
    <3>2. blocks[i + 1].type = "h2"
      BY <1>9
    <3> QED BY <2>1, <3>1, <3>2
  <2> QED BY <2>2 DEF Headings
<1>14. ASSUME NEW i \in 1..n PROVE Min({k \in Headings(blocks, "h2") : blocks[k].text = names[i]}) = i + 1
  <2>1. \A k \in Headings(blocks, "h2") : k \in 1..(n + 1) /\ k # 1
    BY <1>7, <1>8, <1>12 DEF Headings
  <2>2. \A k \in Headings(blocks, "h2") : blocks[k].text = names[i] => k = i + 1
    <3> SUFFICES ASSUME NEW k \in Headings(blocks, "h2"), blocks[k].text = names[i] PROVE k = i + 1
      OBVIOUS
    <3>1. k \in 1..(n + 1) /\ k - 1 \in 1..n /\ (k - 1) + 1 = k
      BY <1>10, <2>1
    <3>2. names[k - 1] = names[i]
      BY <1>9, <3>1
    <3>3. k - 1 = i
      BY <1>1, <3>1, <3>2 DEF n
    <3> QED BY <3>1, <3>3
  <2>3. {k \in Headings(blocks, "h2") : blocks[k].text = names[i]} = {i + 1}
    BY <1>9, <1>13, <2>2
  <2>4. Min({i + 1}) = i + 1
    BY <1>2 DEF Min
  <2> QED BY <2>3, <2>4
<1>15. ValidDocument(spec, blocks)
  <2>1. blocks[1].text # Placeholder
    BY <1>8, ArtifactAssumption
  <2>2. ToSet(names) \subseteq {blocks[k].text : k \in Headings(blocks, "h2")}
    BY <1>2, <1>9, <1>13 DEF ToSet
  <2>3. \A i, j \in DOMAIN names : i < j =>
            Min({k \in Headings(blocks, "h2") : blocks[k].text = names[i]})
                <= Min({k \in Headings(blocks, "h2") : blocks[k].text = names[j]})
    <3> SUFFICES ASSUME NEW i \in 1..n, NEW j \in 1..n, i < j
                 PROVE  Min({k \in Headings(blocks, "h2") : blocks[k].text = names[i]})
                            <= Min({k \in Headings(blocks, "h2") : blocks[k].text = names[j]})
      BY <1>2
    <3>1. i + 1 <= j + 1
      BY <1>2
    <3> QED BY <1>14, <3>1
  <2> QED BY <1>12, <2>1, <2>2, <2>3 DEF ValidDocument, names
<1>16. spec.lang = NoLanguage /\ spec.artifact # "csv"
  <2>1. spec.artifact = "csv" <=> spec.lang = "csv"
    BY SpecsAreConsistent DEF spec
  <2> QED BY <2>1 DEF NoLanguage, spec
<1>17. ~ UnsafeHtml(spec, blocks)
  <2>1. \A b \in ToSet(blocks) : b.type # "html"
    BY <1>11 DEF ToSet
  <2> QED BY <2>1 DEF UnsafeHtml
<1>18. blocks # <<>> /\ Len(blocks) <= MaxBlocks
  BY <1>2, <1>7
<1> QED BY <1>15, <1>16, <1>17, <1>18 DEF ValidArtifact, spec

-----------------------------------------------------------------------------
(* The headings of a page.                                                 *)

\* Places come in their order.
LEMMA PlacesInTurn ==
    ASSUME NEW n \in Nat, NEW S \in SUBSET (1..n)
    PROVE  /\ InTurn(S) \in Seq(S) /\ DOMAIN InTurn(S) = 1..Len(InTurn(S)) /\ Len(InTurn(S)) \in Nat
           /\ \A k \in 1..Len(InTurn(S)) : InTurn(S)[k] \in S
           /\ Len(InTurn(S)) = Cardinality(S)
<1> DEFINE before == {e \in S \X S : e[1] < e[2]}
<1>1. IsFiniteSet(S)
  <2>1. IsFiniteSet(1..n)
    BY FirstNumbers
  <2> QED BY <2>1, FS_Subset
<1>2. \A x, y \in S : <<x, y>> \in before <=> x < y
  OBVIOUS
<1>3. InTurn(S) = Ordered(S, before)
  BY DEF InTurn
<1> HIDE DEF before
<1>4. S \subseteq Nat
  OBVIOUS
<1>5. IsOrder(S, before)
  <2>1. \A x \in S : <<x, x>> \notin before
    BY <1>2, <1>4
  <2>2. ASSUME NEW x \in S, NEW y \in S PROVE x = y \/ <<x, y>> \in before \/ <<y, x>> \in before
    <3>1. x = y \/ x < y \/ y < x
      BY <1>4
    <3> QED BY <1>2, <3>1
  <2>3. \A x, y, z \in S : <<x, y>> \in before /\ <<y, z>> \in before => <<x, z>> \in before
    BY <1>2, <1>4
  <2> QED BY <2>1, <2>2, <2>3 DEF IsOrder
<1>6. LET list == Ordered(S, before)
      IN  list \in Seq(S) /\ Len(list) = Cardinality(S) /\ Cardinality(S) \in Nat
  BY <1>1, <1>5, OrderedLists
<1> DEFINE at == InTurn(S)
<1>7. at \in Seq(S) /\ Len(at) = Cardinality(S) /\ Len(at) \in Nat
  BY <1>3, <1>6
<1> HIDE DEF at
<1>8. DOMAIN at = 1..Len(at) /\ \A k \in 1..Len(at) : at[k] \in S
  BY <1>7
<1> QED BY <1>7, <1>8 DEF at

\* All places come as they are.
LEMMA AllInTurn ==
    ASSUME NEW n \in Nat
    PROVE  InTurn(1..n) = [k \in 1..n |-> k]
<1> DEFINE S == 1..n
           before == {e \in S \X S : e[1] < e[2]}
<1>1. \A x, y \in S : <<x, y>> \in before <=> x < y
  OBVIOUS
<1>2. InTurn(S) = Ordered(S, before)
  BY DEF InTurn
<1> HIDE DEF before
<1>3. ASSUME NEW x \in S PROVE PlaceIn(S, before, x) = x
  <2>1. {y \in S : <<y, x>> \in before} = 1..(x - 1)
    BY <1>1
  <2>2. x - 1 \in Nat
    OBVIOUS
  <2>3. Cardinality(1..(x - 1)) = x - 1
    BY <2>2, FirstNumbers
  <2>4. PlaceIn(S, before, x) = (x - 1) + 1
    BY <2>1, <2>3 DEF PlaceIn
  <2> QED BY <2>4
<1>4. Cardinality(S) = n
  BY FirstNumbers
<1>5. Ordered(S, before) = [k \in 1..n |-> CHOOSE x \in S : PlaceIn(S, before, x) = k]
  BY <1>4 DEF Ordered
<1>6. \A k \in 1..n : (CHOOSE x \in S : PlaceIn(S, before, x) = k) = k
  BY <1>3
<1>7. Ordered(S, before) = [k \in 1..n |-> k]
  BY <1>5, <1>6
<1> QED BY <1>2, <1>7

\* The parts at some places are parts, and at all places the parts themselves.
LEMMA PickedAreParts ==
    ASSUME NEW n \in Nat, NEW parts, DOMAIN parts = 1..n, NEW S \in SUBSET (1..n)
    PROVE  /\ DOMAIN Picked(parts, S) = 1..Len(InTurn(S)) /\ Len(InTurn(S)) \in Nat
           /\ DOMAIN InTurn(S) = 1..Len(InTurn(S))
           /\ \A k \in 1..Len(InTurn(S)) : InTurn(S)[k] \in S /\ Picked(parts, S)[k] = parts[InTurn(S)[k]]
           /\ Len(Picked(parts, S)) = Len(InTurn(S))
<1> DEFINE at == InTurn(S)
<1>1. DOMAIN at = 1..Len(at) /\ Len(at) \in Nat /\ \A k \in 1..Len(at) : at[k] \in S
  BY PlacesInTurn
<1>2. Picked(parts, S) = [k \in DOMAIN at |-> parts[at[k]]]
  BY DEF Picked
<1> HIDE DEF at
<1>3. DOMAIN Picked(parts, S) = 1..Len(at) /\ \A k \in 1..Len(at) : Picked(parts, S)[k] = parts[at[k]]
  BY <1>1, <1>2
<1>4. Picked(parts, S) \in [1..Len(at) -> {parts[i] : i \in S}]
  BY <1>1, <1>2
<1>5. Picked(parts, S) \in Seq({parts[i] : i \in S})
  BY <1>1, <1>4
<1>6. Len(Picked(parts, S)) = Len(at)
  BY <1>1, <1>3, <1>5
<1> QED BY <1>1, <1>3, <1>6 DEF at

LEMMA AllArePicked ==
    ASSUME NEW T, NEW parts \in Seq(T)
    PROVE  Picked(parts, DOMAIN parts) = parts
<1>1. DOMAIN parts = 1..Len(parts) /\ Len(parts) \in Nat
  OBVIOUS
<1>2. InTurn(1..Len(parts)) = [k \in 1..Len(parts) |-> k]
  BY <1>1, AllInTurn
<1>3. Picked(parts, DOMAIN parts) = [k \in 1..Len(parts) |-> parts[k]]
  BY <1>1, <1>2 DEF Picked
<1> QED BY <1>1, <1>3

-----------------------------------------------------------------------------
(* The outline of a page.                                                  *)

OpenIn(heads, j, k) == \A i \in (j + 1)..k : heads[i].level > heads[j].level

Above(heads, k, l) == {j \in 1..k : heads[j].level = l /\ OpenIn(heads, j, k)}

Outline(title, heads, k, l) ==
    IF Above(heads, k, l) # {} THEN heads[CHOOSE j \in Above(heads, k, l) : TRUE].title
    ELSE IF l = 1 THEN title ELSE NoTitle

\* What is above a heading is above the one before it, at the higher levels.
LEMMA OutlineGoesOn ==
    ASSUME NEW heads, NEW k \in Nat \ {0}, \A i \in 1..k : heads[i].level \in 1..3, NEW l \in 1..3
    PROVE  Above(heads, k, l) =
                IF l = heads[k].level THEN {k}
                ELSE IF l > heads[k].level THEN {} ELSE Above(heads, k - 1, l)
<1> DEFINE A == Above(heads, k, l)
<1>1. k \in 1..k /\ heads[k].level \in 1..3
  OBVIOUS
<1>2. ASSUME NEW j \in A, j # k PROVE j \in 1..(k - 1) /\ l < heads[k].level
  <2>1. j \in 1..(k - 1) /\ k \in (j + 1)..k
    BY <1>2 DEF Above
  <2>2. heads[k].level > heads[j].level /\ heads[j].level = l
    BY <2>1 DEF Above, OpenIn
  <2> QED BY <1>1, <2>1, <2>2
<1>3. CASE l = heads[k].level
  <2>1. k \in A
    <3>1. OpenIn(heads, k, k)
      BY DEF OpenIn
    <3> QED BY <1>1, <1>3, <3>1 DEF Above
  <2>2. \A j \in A : j = k
    BY <1>1, <1>2, <1>3
  <2> QED BY <1>3, <2>1, <2>2
<1>4. CASE l > heads[k].level
  <2>1. \A j \in A : j = k
    BY <1>1, <1>2, <1>4
  <2>2. k \notin A
    BY <1>1, <1>4 DEF Above
  <2> QED BY <1>1, <1>4, <2>1, <2>2
<1>5. CASE l < heads[k].level
  <2>1. k \notin A
    BY <1>1, <1>5 DEF Above
  <2>2. ASSUME NEW j \in A PROVE j \in Above(heads, k - 1, l)
    <3>1. j \in 1..(k - 1)
      BY <1>2, <2>1, <2>2
    <3>2. heads[j].level = l /\ OpenIn(heads, j, k)
      BY DEF Above
    <3>3. OpenIn(heads, j, k - 1)
      BY <3>1, <3>2 DEF OpenIn
    <3> QED BY <3>1, <3>2, <3>3 DEF Above
  <2>3. ASSUME NEW j \in Above(heads, k - 1, l) PROVE j \in A
    <3>1. j \in 1..(k - 1) /\ heads[j].level = l /\ OpenIn(heads, j, k - 1)
      BY DEF Above
    <3>2. ASSUME NEW i \in (j + 1)..k PROVE heads[i].level > heads[j].level
      <4>1. CASE i = k
        BY <1>1, <1>5, <3>1, <4>1
      <4>2. CASE i # k
        <5>1. i \in (j + 1)..(k - 1)
          BY <3>1, <4>2
        <5> QED BY <3>1, <5>1 DEF OpenIn
      <4> QED BY <4>1, <4>2
    <3>3. OpenIn(heads, j, k) /\ j \in 1..k
      BY <3>1, <3>2 DEF OpenIn
    <3> QED BY <3>1, <3>3 DEF Above
  <2>4. A = Above(heads, k - 1, l)
    <3> HIDE DEF A
    <3> QED BY <2>2, <2>3
  <2> QED BY <1>1, <1>5, <2>4
<1> QED BY <1>1, <1>3, <1>4, <1>5

HeadsOf(parts, n, heads, N) ==
    \A k \in 1..N : \E i \in 1..n : heads[k] = parts[i] /\ Counts(parts[i])

\* What the code keeps of the hierarchy is the outline.
LEMMA HierarchyIsOutline ==
    ASSUME NEW title, NEW n \in Nat, NEW parts, DOMAIN parts = 1..n, NEW N \in Nat, NEW heads, HeadsOf(parts, n, heads, N),
           NEW steps, \A k \in 1..N : steps[k] = Descend(title, parts, heads[k])
    PROVE  \A k \in 1..N : After(steps, [l \in 1..3 |-> NoTitle], k) = [l \in 1..3 |-> Outline(title, heads, k, l)]
<1> DEFINE Titles == {title, NoTitle} \cup {parts[i].title : i \in DOMAIN parts}
           none == [l \in 1..3 |-> NoTitle]
           path(k) == IF k = 0 THEN none ELSE [l \in 1..3 |-> Outline(title, heads, k, l)]
           Reached == [k \in 0..N |-> {path(k)}]
<1>1. \A k \in 1..N : heads[k].level \in 1..3 /\ heads[k].title # NoTitle /\ heads[k].title \in Titles
  BY DEF Counts, HeadsOf
<1>2. title \in Titles /\ NoTitle \in Titles /\ Paths(title, parts) = [1..3 -> Titles]
  BY DEF Paths
<1> HIDE DEF Titles
<1>3. ASSUME NEW k \in 0..N, NEW l \in 1..3 PROVE Outline(title, heads, k, l) \in Titles
  <2>1. CASE Above(heads, k, l) # {}
    <3>1. (CHOOSE j \in Above(heads, k, l) : TRUE) \in Above(heads, k, l)
      BY <2>1
    <3>2. PICK j \in Above(heads, k, l) : Outline(title, heads, k, l) = heads[j].title
      BY <2>1, <3>1 DEF Outline
    <3>3. j \in 1..N
      BY DEF Above
    <3> QED BY <1>1, <3>2, <3>3
  <2>2. CASE Above(heads, k, l) = {}
    BY <1>2, <2>2 DEF Outline
  <2> QED BY <2>1, <2>2
<1>4. \A k \in 0..N : path(k) \in Paths(title, parts)
  BY <1>2, <1>3
<1>5. ASSUME NEW k \in 1..N PROVE steps[k][path(k - 1)] = path(k)
  <2> DEFINE p == path(k - 1)
             h == heads[k]
  <2>1. k - 1 \in 0..N /\ k \in 0..N /\ k \in Nat \ {0} /\ k # 0
    OBVIOUS
  <2>2. p \in Paths(title, parts)
    BY <1>4, <2>1
  <2>3. h.level \in 1..3
    BY <1>1
  <2>4. \A l \in 1..3 : Outline(title, heads, k, l) =
            IF l = h.level THEN h.title
            ELSE IF l > h.level THEN NoTitle ELSE Outline(title, heads, k - 1, l)
    <3> SUFFICES ASSUME NEW l \in 1..3
                 PROVE  Outline(title, heads, k, l) =
                            IF l = h.level THEN h.title
                            ELSE IF l > h.level THEN NoTitle ELSE Outline(title, heads, k - 1, l)
      OBVIOUS
    <3>1. \A i \in 1..k : heads[i].level \in 1..3
      BY <1>1
    <3>2. Above(heads, k, l) =
                IF l = h.level THEN {k}
                ELSE IF l > h.level THEN {} ELSE Above(heads, k - 1, l)
      BY <2>1, <3>1, OutlineGoesOn
    <3>3. CASE l = h.level
      <4>1. Above(heads, k, l) = {k}
        BY <3>2, <3>3
      <4>2. (CHOOSE j \in {k} : TRUE) = k
        OBVIOUS
      <4>3. Outline(title, heads, k, l) = h.title
        BY <4>1, <4>2 DEF Outline
      <4> QED BY <3>3, <4>3
    <3>4. CASE l # h.level /\ l > h.level
      <4>1. Above(heads, k, l) = {} /\ l # 1
        BY <2>3, <3>2, <3>4
      <4> QED BY <3>4, <4>1 DEF Outline
    <3>5. CASE l # h.level /\ ~(l > h.level)
      <4>1. Above(heads, k, l) = Above(heads, k - 1, l)
        BY <3>2, <3>5
      <4> QED BY <3>5, <4>1 DEF Outline
    <3> QED BY <3>3, <3>4, <3>5
  <2>5. \A l \in 1..3 : (IF l = 1 /\ p[1] = NoTitle THEN title ELSE p[l]) = Outline(title, heads, k - 1, l)
    <3> SUFFICES ASSUME NEW l \in 1..3
                 PROVE  (IF l = 1 /\ p[1] = NoTitle THEN title ELSE p[l]) = Outline(title, heads, k - 1, l)
      OBVIOUS
    <3>1. CASE k - 1 = 0
      <4>1. p = none
        BY <3>1
      <4>2. Above(heads, k - 1, l) = {}
        BY <3>1 DEF Above
      <4>3. Outline(title, heads, k - 1, l) = IF l = 1 THEN title ELSE NoTitle
        BY <4>2 DEF Outline
      <4> QED BY <4>1, <4>3
    <3>2. CASE k - 1 # 0
      <4>1. p = [m \in 1..3 |-> Outline(title, heads, k - 1, m)]
        BY <3>2
      <4>2. p[l] = Outline(title, heads, k - 1, l) /\ p[1] = Outline(title, heads, k - 1, 1)
        BY <4>1
      <4>3. Outline(title, heads, k - 1, 1) = NoTitle => Outline(title, heads, k - 1, 1) = title
        <5>1. CASE Above(heads, k - 1, 1) = {}
          BY <5>1 DEF Outline
        <5>2. CASE Above(heads, k - 1, 1) # {}
          <6>1. PICK j \in Above(heads, k - 1, 1) : Outline(title, heads, k - 1, 1) = heads[j].title
            BY <5>2 DEF Outline
          <6>2. j \in 1..N
            BY DEF Above
          <6> QED BY <1>1, <6>1, <6>2
        <5> QED BY <5>1, <5>2
      <4> HIDE DEF p
      <4> QED BY <4>2, <4>3
    <3> QED BY <3>1, <3>2
  <2>6. steps[k][p] = [l \in 1..3 |-> IF l = h.level THEN h.title
                                      ELSE IF l > h.level THEN NoTitle
                                      ELSE IF l = 1 /\ p[1] = NoTitle THEN title ELSE p[l]]
    <3> HIDE DEF p
    <3> QED BY <2>2 DEF Descend
  <2>7. path(k) = [l \in 1..3 |-> Outline(title, heads, k, l)]
    BY <2>1
  <2> HIDE DEF p, path, h
  <2>8. steps[k][p] = path(k)
    BY <2>4, <2>5, <2>6, <2>7
  <2> QED BY <2>8 DEF p
<1>6. none \in Reached[0]
  OBVIOUS
<1>7. \A k \in 1..N : \A v \in Reached[k - 1] : steps[k][v] \in Reached[k]
  <2> HIDE DEF path
  <2> QED BY <1>5
<1> SUFFICES ASSUME NEW k \in 1..N
             PROVE  After(steps, none, k) = [l \in 1..3 |-> Outline(title, heads, k, l)]
  OBVIOUS
<1>8. k \in Nat /\ \A i \in 1..k : i \in 1..N
  OBVIOUS
<1>9. After(steps, none, k) \in Reached[k]
  <2> HIDE DEF Reached, none
  <2> QED BY <1>6, <1>7, <1>8, AfterReaches
<1>10. k \in 0..N /\ k # 0
  OBVIOUS
<1> QED BY <1>9, <1>10

-----------------------------------------------------------------------------
(* The sections of a page.                                                 *)

Headed(title, parts, n, anchors, heads, sections) ==
    /\ DOMAIN sections \subseteq 0..Len(heads)
    /\ DOMAIN heads = 1..Len(heads) /\ Len(heads) \in Nat
    /\ HeadsOf(parts, n, heads, Len(heads))
    /\ 0 \in DOMAIN sections => sections[0].path = [l \in 1..3 |-> IF l = 1 THEN title ELSE NoTitle]
    /\ \A k \in DOMAIN sections \ {0} :
        /\ sections[k].path = After([j \in DOMAIN heads |-> Descend(title, parts, heads[j])],
                                    [l \in 1..3 |-> NoTitle], k)
        /\ sections[k].anchor = IF k \in DOMAIN anchors /\ anchors[k] # NoAnchor THEN anchors[k]
                                ELSE Slug(heads, anchors, k)

\* Every section but the text before the first heading is one of a heading.
LEMMA SectionsAreOfHeadings ==
    ASSUME NEW title, NEW n \in Nat, NEW parts, DOMAIN parts = 1..n, NEW anchors
    PROVE  Headed(title, parts, n, anchors, Picked(parts, HeadingsAt(parts)), Sections(title, parts, anchors))
<1> DEFINE H == HeadingsAt(parts)
           at == InTurn(H)
           heads == Picked(parts, H)
           body(k) == (IF k = 0 THEN 1 ELSE at[k])..(IF k = Len(at) THEN Len(parts) ELSE at[k + 1] - 1)
           steps == [j \in DOMAIN heads |-> Descend(title, parts, heads[j])]
           told == {m \in 0..Len(at) : \E i \in body(m) : parts[i].blocks # <<>>}
           sections == Sections(title, parts, anchors)
           preamble == [path |-> [l \in 1..3 |-> IF l = 1 THEN title ELSE NoTitle], anchor |-> NoAnchor]
           section(k) ==
                [path |-> After(steps, [l \in 1..3 |-> NoTitle], k),
                 anchor |-> IF k \in DOMAIN anchors /\ anchors[k] # NoAnchor THEN anchors[k]
                            ELSE Slug(heads, anchors, k)]
<1>1. H \subseteq 1..n
  BY DEF HeadingsAt
<1>2. /\ DOMAIN heads = 1..Len(at) /\ Len(at) \in Nat
      /\ \A k \in 1..Len(at) : at[k] \in H /\ heads[k] = parts[at[k]]
      /\ Len(heads) = Len(at)
  <2> HIDE DEF H
  <2> QED BY <1>1, PickedAreParts
<1>3. Len(heads) = Len(at)
  BY <1>2
<1>4. \A i \in H : i \in 1..n /\ Counts(parts[i])
  BY DEF HeadingsAt
<1>5. sections = [k \in told |-> IF k = 0 THEN preamble ELSE section(k)]
  BY DEF Sections
<1> HIDE DEF H, at, heads, body, sections, steps
<1>6. DOMAIN sections \subseteq 0..Len(heads)
  BY <1>3, <1>5
<1>7. HeadsOf(parts, n, heads, Len(heads))
  BY <1>2, <1>3, <1>4 DEF HeadsOf
<1>8. 0 \in DOMAIN sections => sections[0] = preamble
  BY <1>5
<1>9. \A k \in DOMAIN sections \ {0} : sections[k] = section(k)
  <2> HIDE DEF section, preamble, told
  <2> QED BY <1>5
<1>10. 0 \in DOMAIN sections => sections[0].path = [l \in 1..3 |-> IF l = 1 THEN title ELSE NoTitle]
  BY <1>8
<1>11. ASSUME NEW k \in DOMAIN sections \ {0}
       PROVE  /\ sections[k].path = After(steps, [l \in 1..3 |-> NoTitle], k)
              /\ sections[k].anchor = IF k \in DOMAIN anchors /\ anchors[k] # NoAnchor THEN anchors[k]
                                      ELSE Slug(heads, anchors, k)
  BY <1>9
<1>12. Headed(title, parts, n, anchors, heads, sections)
  BY <1>2, <1>3, <1>6, <1>7, <1>10, <1>11 DEF Headed, steps
<1> QED BY <1>12 DEF heads, sections, H

\* The path of every section is the outline above it.
LEMMA OutlineIsFollowed ==
    ASSUME NEW title, NEW T, NEW page \in Seq(T)
    PROVE  FollowsOutline(title, page)
<1> DEFINE parts == AsMarkdown(page)
           heads == Picked(parts, HeadingsAt(parts))
           sections == Sections(title, parts, AnchorsOf(page))
           steps == [j \in DOMAIN heads |-> Descend(title, parts, heads[j])]
           markdown == {i \in DOMAIN page : page[i].place # "cell"}
           n == Len(InTurn(markdown))
           N == Len(heads)
<1>1. DOMAIN page = 1..Len(page) /\ Len(page) \in Nat /\ markdown \subseteq 1..Len(page)
  OBVIOUS
<1>2. DOMAIN parts = 1..n /\ n \in Nat
  <2> HIDE DEF markdown
  <2>1. DOMAIN Picked(page, markdown) = 1..Len(InTurn(markdown)) /\ Len(InTurn(markdown)) \in Nat
    BY <1>1, PickedAreParts
  <2> QED BY <2>1 DEF AsMarkdown, markdown
<1> HIDE DEF parts, n
<1>3. Headed(title, parts, n, AnchorsOf(page), heads, sections)
  BY <1>2, SectionsAreOfHeadings
<1> HIDE DEF heads, sections
<1>4. DOMAIN sections \subseteq 0..N /\ DOMAIN heads = 1..N /\ N \in Nat /\ HeadsOf(parts, n, heads, N)
  BY <1>3 DEF Headed
<1>7. 0 \in DOMAIN sections => sections[0].path = [l \in 1..3 |-> IF l = 1 THEN title ELSE NoTitle]
  BY <1>3 DEF Headed
<1>8. \A k \in DOMAIN sections \ {0} : sections[k].path = After(steps, [l \in 1..3 |-> NoTitle], k)
  BY <1>3 DEF Headed
<1>9. \A k \in 1..N : steps[k] = Descend(title, parts, heads[k])
  BY <1>4
<1> HIDE DEF steps, N
<1>5. \A k \in 1..N : After(steps, [l \in 1..3 |-> NoTitle], k) = [l \in 1..3 |-> Outline(title, heads, k, l)]
  BY <1>2, <1>4, <1>9, HierarchyIsOutline
<1>6. ASSUME NEW k \in DOMAIN sections PROVE sections[k].path = [l \in 1..3 |-> Outline(title, heads, k, l)]
  <2>1. CASE k = 0
    <3>1. \A l \in 1..3 : Above(heads, k, l) = {}
      BY <2>1 DEF Above
    <3>2. \A l \in 1..3 : Outline(title, heads, k, l) = IF l = 1 THEN title ELSE NoTitle
      BY <3>1 DEF Outline
    <3> QED BY <1>7, <2>1, <3>2
  <2>2. CASE k # 0
    <3>1. k \in 1..N
      BY <1>4, <2>2
    <3> QED BY <1>5, <1>8, <2>2, <3>1
  <2> QED BY <2>1, <2>2
<1> QED BY <1>6 DEF FollowsOutline, sections, heads, parts, Outline, Above, OpenIn

\* Without headings in tables, every anchor is that of its own heading.
LEMMA AnchorsAreOwn ==
    ASSUME NEW title, NEW T, NEW page \in Seq(T)
    PROVE  AnchorsPointHome(title, page)
<1> DEFINE sections == Sections(title, AsMarkdown(page), AnchorsOf(page))
           heads == Picked(page, HeadingsAt(page))
           anchors == AnchorsOf(page)
           own(k) == IF heads[k].id # NoAnchor THEN heads[k].id ELSE heads[k].link
           told == DOMAIN sections \ {0}
           N == Len(heads)
<1> SUFFICES ASSUME \A i \in DOMAIN page : page[i].place # "cell"
             PROVE  /\ \A k \in told : own(k) # NoAnchor => sections[k].anchor = own(k)
                    /\ \A j, k \in told :
                        own(j) = NoAnchor /\ own(k) = NoAnchor /\ sections[j].anchor = sections[k].anchor => j = k
  BY DEF AnchorsPointHome
<1>1. AsMarkdown(page) = page
  <2>1. {i \in DOMAIN page : page[i].place # "cell"} = DOMAIN page
    OBVIOUS
  <2>2. Picked(page, DOMAIN page) = page
    BY AllArePicked
  <2> QED BY <2>1, <2>2 DEF AsMarkdown
<1>2. DOMAIN page = 1..Len(page) /\ Len(page) \in Nat
  OBVIOUS
<1>3. sections = Sections(title, page, anchors)
  BY <1>1
<1>4. anchors = [k \in DOMAIN heads |-> own(k)]
  BY DEF AnchorsOf
<1> HIDE DEF anchors
<1>5. Headed(title, page, Len(page), anchors, heads, Sections(title, page, anchors))
  BY <1>2, SectionsAreOfHeadings
<1> HIDE DEF sections, heads, own
<1>6. told \subseteq 1..N /\ DOMAIN anchors = 1..N /\ N \in Nat
  <2>1. DOMAIN sections \subseteq 0..N /\ N \in Nat /\ DOMAIN heads = 1..N
    BY <1>3, <1>5 DEF Headed
  <2> QED BY <1>4, <2>1
<1>7. \A k \in told : sections[k].anchor = IF own(k) # NoAnchor THEN own(k) ELSE Slug(heads, anchors, k)
  <2>1. \A k \in told : sections[k].anchor = IF k \in DOMAIN anchors /\ anchors[k] # NoAnchor THEN anchors[k]
                                              ELSE Slug(heads, anchors, k)
    BY <1>3, <1>5 DEF Headed
  <2>2. \A k \in told : k \in DOMAIN anchors /\ anchors[k] = own(k)
    BY <1>4, <1>6
  <2> HIDE DEF told
  <2> QED BY <2>1, <2>2
<1> DEFINE given(j) == j \in DOMAIN anchors /\ anchors[j] # NoAnchor
           Same(k) == {j \in 1..(k - 1) : heads[j].title = heads[k].title /\ ~given(j)}
<1> HIDE DEF told, N
<1>8. \A k \in told : Slug(heads, anchors, k) = <<heads[k].title, Cardinality(Same(k))>>
  BY DEF Slug
<1>9. ASSUME NEW k \in told PROVE IsFiniteSet(Same(k)) /\ Cardinality(Same(k)) \in Nat
  <2>1. k - 1 \in Nat
    BY <1>6
  <2>2. IsFiniteSet(1..(k - 1)) /\ Same(k) \subseteq 1..(k - 1)
    BY <2>1, FirstNumbers
  <2> HIDE DEF Same
  <2> QED BY <2>2, FS_Subset, FS_CardinalityType
<1>10. ASSUME NEW j \in told, NEW k \in told, j < k, own(j) = NoAnchor, own(k) = NoAnchor
       PROVE  Slug(heads, anchors, j) # Slug(heads, anchors, k)
  <2> SUFFICES ASSUME heads[j].title = heads[k].title PROVE Cardinality(Same(j)) < Cardinality(Same(k))
    <3> HIDE DEF Same
    <3> QED BY <1>8, <1>9
  <2>1. j \in 1..N /\ k \in 1..N
    BY <1>6
  <2>2. j \in Same(k)
    <3>1. ~given(j)
      BY <1>4, <1>6, <1>10, <2>1
    <3>2. j \in 1..(k - 1)
      BY <1>6, <1>10, <2>1
    <3> HIDE DEF given
    <3> QED BY <3>1, <3>2
  <2>3. Same(j) \subseteq Same(k)
    <3>1. \A i \in 1..(j - 1) : i \in 1..(k - 1)
      BY <1>6, <1>10, <2>1
    <3> HIDE DEF given
    <3> QED BY <3>1
  <2>4. j \notin Same(j)
    BY <1>6, <2>1
  <2> HIDE DEF Same
  <2>5. IsFiniteSet(Same(k)) /\ Cardinality(Same(k)) \in Nat /\ Cardinality(Same(j)) \in Nat
    BY <1>9
  <2>6. Cardinality(Same(j)) <= Cardinality(Same(k)) /\ (Cardinality(Same(j)) = Cardinality(Same(k)) => Same(j) = Same(k))
    BY <2>3, <2>5, FS_Subset
  <2>7. Same(j) # Same(k)
    BY <2>2, <2>4
  <2> QED BY <2>5, <2>6, <2>7
<1> HIDE DEF Same
<1>11. \A k \in told : own(k) # NoAnchor => sections[k].anchor = own(k)
  BY <1>7
<1>12. ASSUME NEW j \in told, NEW k \in told,
              own(j) = NoAnchor, own(k) = NoAnchor, sections[j].anchor = sections[k].anchor
       PROVE  j = k
  <2>1. Slug(heads, anchors, j) = Slug(heads, anchors, k)
    BY <1>7, <1>12
  <2>2. ~(j < k) /\ ~(k < j)
    BY <1>10, <1>12, <2>1
  <2>3. j \in 1..N /\ k \in 1..N
    BY <1>6
  <2> QED BY <2>2, <2>3
<1> QED BY <1>11, <1>12

-----------------------------------------------------------------------------
(* The chunks of a section.                                                *)

\* Whether a fragment fits alone is a matter of its size.
LEMMA FitsAlone ==
    ASSUME NEW prefix \in Nat, NEW b, NEW block, block.wrap \in Nat,
           NEW from \in Nat, NEW to \in Nat, from <= to
    PROVE  Fits(prefix, <<Fragment(b, block, from, to)>>)
               <=> prefix + Gap + (to - from) + block.wrap <= ChunkSize
<1> DEFINE f == Fragment(b, block, from, to)
           size == to - from + block.wrap
           sizes == [i \in DOMAIN <<f>> |-> Gap + <<f>>[i].size]
<1>1. f.size = size
  BY DEF Fragment
<1> HIDE DEF f
<1>2. size \in Nat /\ Gap \in Nat /\ ChunkSize \in Nat
  BY ChunkAssumption
<1>3. sizes = <<Gap + size>>
  BY <1>1
<1>4. Rendered(prefix, <<f>>) = Total(prefix, sizes)
  BY DEF Rendered
<1> HIDE DEF sizes
<1>5. Total(prefix, <<Gap + size>>) = prefix + (Gap + size)
  <2>1. Gap + size \in Nat
    BY <1>2
  <2> HIDE DEF size
  <2> QED BY <2>1, TotalOfOne
<1>6. Rendered(prefix, <<f>>) = prefix + (Gap + size)
  BY <1>3, <1>4, <1>5
<1>7. prefix + (Gap + size) = prefix + Gap + (to - from) + block.wrap
  BY <1>2
<1> QED BY <1>6, <1>7 DEF Fits, f

\* Where the next window begins.
LEMMA NextBegins ==
    ASSUME NEW prefix, NEW block, NEW from \in Nat, NEW to \in Nat, from < to
    PROVE  /\ NextWindow(prefix, block, from, to) =
                IF Overlap <= to - from - 1 THEN to - Overlap ELSE from + 1
           /\ NextWindow(prefix, block, from, to) \in (from + 1)..to
<1>1. Overlap \in Nat
  BY ChunkAssumption
<1> DEFINE least == IF Overlap <= to - from - 1 THEN Overlap ELSE to - from - 1
<1>2. Min({Overlap, to - from - 1}) = least
  <2>1. Overlap \in Int /\ to - from - 1 \in Int
    BY <1>1
  <2> QED BY <2>1, OfTwo
<1>3. Max({from + 1, to - least}) = IF from + 1 <= to - least THEN to - least ELSE from + 1
  <2>1. from + 1 \in Int /\ to - least \in Int
    BY <1>1
  <2> HIDE DEF least
  <2> QED BY <2>1, OfTwo
<1>4. NextWindow(prefix, block, from, to) = Max({from + 1, to - least})
  BY <1>2 DEF NextWindow
<1> QED BY <1>1, <1>3, <1>4

\* A window ends where it is full, and never where it began.
LEMMA WindowEnds ==
    ASSUME NEW prefix \in Nat, NEW block, ProperBlock(block), CanSplit(prefix, block),
           NEW from \in 0..(Len(block.text) - 1)
    PROVE  LET e == WindowEnd(prefix, block, from)
           IN  /\ e \in (from + 1)..Len(block.text)
               /\ e <= from + WindowSize(prefix)
               /\ prefix + Gap + (e - from) + block.wrap <= ChunkSize
               /\ \A to \in (from + 1)..Len(block.text) :
                    /\ to <= from + WindowSize(prefix)
                    /\ prefix + Gap + (to - from) + block.wrap <= ChunkSize
                    => to <= e
<1> DEFINE n == Len(block.text)
           w == WindowSize(prefix)
           furthest == IF from + w <= n THEN from + w ELSE n
           ends == {to \in (from + 1)..furthest : Fits(prefix, <<Fragment(1, block, from, to)>>)}
           short(to) == prefix + Gap + (to - from) + block.wrap <= ChunkSize
<1>1. /\ n \in Nat /\ from \in Nat /\ from < n /\ block.wrap \in Nat
      /\ ChunkSize \in Nat /\ Reserve \in Nat /\ Gap \in Nat
  BY ChunkAssumption DEF ProperBlock
<1>2. w \in Nat /\ w >= 1
  BY <1>1 DEF CanSplit, WindowSize
<1> HIDE DEF w, n
<1>3. Min({from + w, n}) = furthest
  <2>1. from + w \in Int /\ n \in Int
    BY <1>1, <1>2
  <2> QED BY <2>1, OfTwo
<1>4. furthest \in Nat /\ from + 1 <= furthest /\ furthest <= n /\ furthest <= from + w
  BY <1>1, <1>2
<1>5. WindowEnd(prefix, block, from) = Max(ends)
  BY <1>3 DEF WindowEnd, w, n
<1> HIDE DEF furthest
<1>6. \A to \in (from + 1)..furthest : to \in ends <=> short(to)
  <2> SUFFICES ASSUME NEW to \in (from + 1)..furthest PROVE to \in ends <=> short(to)
    OBVIOUS
  <2>1. to \in Nat /\ from <= to
    BY <1>1, <1>4
  <2>2. Fits(prefix, <<Fragment(1, block, from, to)>>) <=> short(to)
    BY <1>1, <2>1, FitsAlone
  <2> QED BY <2>2
<1>7. from + 1 \in ends
  <2>1. Fits(prefix, <<Fragment(1, block, 0, 1)>>) <=> prefix + Gap + (1 - 0) + block.wrap <= ChunkSize
    BY <1>1, FitsAlone
  <2>2. short(from + 1)
    <3>1. prefix + Gap + (1 - 0) + block.wrap <= ChunkSize
      BY <2>1 DEF CanSplit
    <3> QED BY <1>1, <3>1
  <2> QED BY <1>1, <1>4, <1>6, <2>2
<1>8. ends \in SUBSET (0..furthest)
  BY <1>1, <1>4
<1> HIDE DEF ends
<1>9. Max(ends) \in ends /\ \A to \in ends : to <= Max(ends)
  BY <1>4, <1>7, <1>8, Largest
<1>10. Max(ends) \in (from + 1)..furthest
  BY <1>9 DEF ends
<1>11. short(Max(ends))
  BY <1>6, <1>9, <1>10
<1>12. \A to \in (from + 1)..n : to <= from + w /\ short(to) => to <= Max(ends)
  <2> SUFFICES ASSUME NEW to \in (from + 1)..n, to <= from + w, short(to)
               PROVE  to <= Max(ends)
    OBVIOUS
  <2>1. to \in (from + 1)..furthest
    BY <1>1, <1>2 DEF furthest
  <2> QED BY <1>6, <1>9, <2>1
<1>13. Max(ends) \in (from + 1)..n /\ Max(ends) <= from + w
  BY <1>1, <1>2, <1>4, <1>10
<1> QED BY <1>5, <1>11, <1>12, <1>13 DEF n, w

\* A fragment of a block that is not empty, and fits.
IsPiece(prefix, b, block, f) ==
    /\ f \in Fragments /\ f = Fragment(b, block, f.from, f.to)
    /\ f.from < f.to /\ f.to <= Len(block.text)
    /\ Fits(prefix, <<f>>)

LEMMA PieceIsFragment ==
    ASSUME NEW prefix, NEW b, NEW block, NEW f, IsPiece(prefix, b, block, f)
    PROVE  f \in Fragments /\ f.block = b /\ f.block \in Nat /\ f.from \in Nat /\ f.to \in Nat
<1>1. f \in Fragments /\ f = Fragment(b, block, f.from, f.to)
  BY DEF IsPiece
<1>2. Fragment(b, block, f.from, f.to).block = b
  BY DEF Fragment
<1>3. f.block = b
  BY <1>1, <1>2
<1> QED BY <1>1, <1>3 DEF Fragments

\* A fragment that another one of the same block goes on from.
GoesOn(prefix, block, f, g) ==
    /\ f.to # Len(block.text) /\ f.to < g.to
    /\ g.from = NextWindow(prefix, block, f.from, f.to)

\* Fragments one after another from the beginning of a block.
InPieces(prefix, b, block) ==
    {w \in Seq(Fragments) :
        /\ \A i \in 1..Len(w) : IsPiece(prefix, b, block, w[i])
        /\ \A i \in 1..(Len(w) - 1) : GoesOn(prefix, block, w[i], w[i + 1])
        /\ w # <<>> => w[1].from = 0}

\* What has been cut after i windows, or before.
CutOff(prefix, b, block, i) ==
    {w \in InPieces(prefix, b, block) :
        /\ \A j \in 1..Len(w) : w[j].to <= w[j].from + WindowSize(prefix)
        /\ i > 0 => w # <<>> /\ (w[Len(w)].to = Len(block.text) \/ w[Len(w)].from >= i - 1)}

LEMMA FragmentMade ==
    ASSUME NEW prefix \in Nat, NEW b \in Nat, NEW block, ProperBlock(block),
           NEW from \in Nat, NEW to \in Nat, from < to, to <= Len(block.text),
           prefix + Gap + (to - from) + block.wrap <= ChunkSize
    PROVE  LET f == Fragment(b, block, from, to)
           IN  IsPiece(prefix, b, block, f) /\ f.from = from /\ f.to = to
<1> DEFINE f == Fragment(b, block, from, to)
           size == to - from + block.wrap
<1>1. block.wrap \in Nat
  BY DEF ProperBlock
<1>2. size \in Nat
  BY <1>1
<1>3. f = [block |-> b, from |-> from, to |-> to, size |-> size]
  BY DEF Fragment
<1>4. Fits(prefix, <<f>>)
  BY <1>1, FitsAlone
<1> HIDE DEF f, size
<1>5. f \in Fragments /\ f.from = from /\ f.to = to
  BY <1>2, <1>3 DEF Fragments
<1>6. f = Fragment(b, block, f.from, f.to)
  BY <1>5 DEF f
<1> QED BY <1>4, <1>5, <1>6 DEF IsPiece, f

LEMMA OneMoreFits ==
    ASSUME NEW prefix \in Nat, NEW gap \in Nat, NEW wrap \in Nat, NEW most \in Nat,
           NEW from \in Nat, NEW to \in Nat, NEW cursor \in Nat, from + 1 <= cursor,
           prefix + gap + (to - from) + wrap <= most
    PROVE  prefix + gap + ((to + 1) - cursor) + wrap <= most
  OBVIOUS

\* A window more begins behind the beginning of the last, and ends behind its end.
LEMMA CutGoesOn ==
    ASSUME NEW prefix \in Nat, NEW b \in Nat, NEW block, ProperBlock(block), CanSplit(prefix, block),
           NEW i \in 1..Len(block.text), NEW w \in CutOff(prefix, b, block, i - 1)
    PROVE  Cut(prefix, b, block)[w] \in CutOff(prefix, b, block, i)
<1> DEFINE n == Len(block.text)
           L == Len(w)
           last == w[L]
           cursor == IF w = <<>> THEN 0 ELSE NextWindow(prefix, block, last.from, last.to)
           g == Fragment(b, block, cursor, WindowEnd(prefix, block, cursor))
           t == Append(w, g)
<1>1. /\ w \in Seq(Fragments) /\ L \in Nat /\ n \in Nat /\ n > 0
      /\ \A j \in 1..L : IsPiece(prefix, b, block, w[j])
      /\ \A j \in 1..(L - 1) : GoesOn(prefix, block, w[j], w[j + 1])
      /\ w # <<>> => w[1].from = 0
      /\ \A j \in 1..L : w[j].to <= w[j].from + WindowSize(prefix)
      /\ i > 1 => w # <<>> /\ (last.to = n \/ last.from >= i - 2)
  BY DEF CutOff, InPieces, ProperBlock
<1>2. Cut(prefix, b, block)[w] = IF w # <<>> /\ (last.to = n \/ cursor >= n) THEN w ELSE t
  BY <1>1 DEF Cut
<1>3. ASSUME w # <<>>
      PROVE  /\ L \in 1..L /\ L # 0 /\ last \in Fragments /\ last.from \in Nat /\ last.to \in Nat
             /\ last.from < last.to /\ last.to <= n
             /\ prefix + Gap + (last.to - last.from) + block.wrap <= ChunkSize
             /\ last.to <= last.from + WindowSize(prefix)
             /\ cursor = NextWindow(prefix, block, last.from, last.to)
             /\ cursor \in (last.from + 1)..last.to
  <2>1. L \in 1..L /\ L # 0
    BY <1>1, <1>3
  <2>2. IsPiece(prefix, b, block, last) /\ last.to <= last.from + WindowSize(prefix)
    BY <1>1, <2>1
  <2> HIDE DEF last
  <2>3. /\ last \in Fragments /\ last.from < last.to /\ last.to <= n
        /\ Fits(prefix, <<last>>) /\ last = Fragment(b, block, last.from, last.to)
    BY <2>2 DEF IsPiece
  <2>4. last.from \in Nat /\ last.to \in Nat
    BY <2>3 DEF Fragments
  <2>5. Fits(prefix, <<Fragment(b, block, last.from, last.to)>>)
    BY <2>3
  <2>6. prefix + Gap + (last.to - last.from) + block.wrap <= ChunkSize
    <3>1. block.wrap \in Nat /\ last.from <= last.to
      BY <2>3, <2>4 DEF ProperBlock
    <3> QED BY <2>4, <2>5, <3>1, FitsAlone
  <2>7. cursor = NextWindow(prefix, block, last.from, last.to)
    BY <1>3
  <2>8. cursor \in (last.from + 1)..last.to
    BY <2>3, <2>4, <2>7, NextBegins
  <2> QED BY <2>1, <2>2, <2>3, <2>4, <2>6, <2>7, <2>8
<1> HIDE DEF last, cursor
<1>4. CASE w # <<>> /\ (last.to = n \/ cursor >= n)
  <2>1. last.to = n
    BY <1>1, <1>3, <1>4
  <2> QED BY <1>2, <1>4, <2>1 DEF CutOff, last
<1>5. CASE ~ (w # <<>> /\ (last.to = n \/ cursor >= n))
  <2>1. cursor \in 0..(n - 1)
    <3>1. CASE w = <<>>
      BY <1>1, <3>1 DEF cursor
    <3>2. CASE w # <<>>
      BY <1>1, <1>3, <1>5, <3>2
    <3> QED BY <3>1, <3>2
  <2> DEFINE e == WindowEnd(prefix, block, cursor)
  <2>2. /\ e \in (cursor + 1)..n
        /\ prefix + Gap + (e - cursor) + block.wrap <= ChunkSize
        /\ e <= cursor + WindowSize(prefix)
        /\ \A to \in (cursor + 1)..n :
             /\ to <= cursor + WindowSize(prefix)
             /\ prefix + Gap + (to - cursor) + block.wrap <= ChunkSize
             => to <= e
    BY <2>1, WindowEnds
  <2> HIDE DEF e
  <2>3. IsPiece(prefix, b, block, g) /\ g.from = cursor /\ g.to = e
    <3>1. cursor \in Nat /\ e \in Nat /\ cursor < e /\ e <= n
      BY <1>1, <2>1, <2>2
    <3> QED BY <2>2, <3>1, FragmentMade DEF e
  <2> HIDE DEF g
  <2>4. g \in Fragments
    BY <2>3 DEF IsPiece
  <2>5. /\ t \in Seq(Fragments) /\ Len(t) = L + 1 /\ t # <<>> /\ t[L + 1] = g
        /\ \A j \in 1..L : t[j] = w[j]
    <3> HIDE DEF t
    <3>1. w \in Seq(Fragments)
      BY <1>1
    <3> QED BY <2>4, <3>1, Appended DEF t
  <2> HIDE DEF t
  <2>6. ASSUME w # <<>> PROVE GoesOn(prefix, block, last, g)
    <3>1. last.to # n /\ last.to <= n /\ last.to \in Nat /\ last.from \in Nat
      BY <1>3, <1>5, <2>6
    <3>2. cursor \in (last.from + 1)..last.to
      BY <1>3, <2>6
    <3>3. WindowSize(prefix) \in Int /\ Gap \in Nat /\ block.wrap \in Nat /\ ChunkSize \in Nat
      BY ChunkAssumption DEF WindowSize, ProperBlock
    <3>4. last.to + 1 \in (cursor + 1)..n
      BY <1>1, <3>1, <3>2
    <3>5. last.to + 1 <= cursor + WindowSize(prefix)
      <4>1. last.to <= last.from + WindowSize(prefix)
        BY <1>3, <2>6
      <4> QED BY <3>1, <3>2, <3>3, <4>1
    <3>6. prefix + Gap + ((last.to + 1) - cursor) + block.wrap <= ChunkSize
      <4>1. prefix + Gap + (last.to - last.from) + block.wrap <= ChunkSize
        BY <1>3, <2>6
      <4>2. cursor \in Nat /\ last.from + 1 <= cursor
        BY <3>1, <3>2
      <4> QED BY <3>1, <3>3, <4>1, <4>2, OneMoreFits
    <3>7. last.to + 1 <= e
      <4> DEFINE m == last.to + 1
      <4>1. m \in (cursor + 1)..n
        BY <3>4
      <4>2. m <= cursor + WindowSize(prefix)
        BY <3>5
      <4>3. prefix + Gap + (m - cursor) + block.wrap <= ChunkSize
        BY <3>6
      <4> HIDE DEF m
      <4>4. m <= e
        BY <2>2, <4>1, <4>2, <4>3
      <4> QED BY <4>4 DEF m
    <3>8. last.to < g.to
      BY <2>1, <2>2, <2>3, <3>1, <3>7
    <3>9. g.from = NextWindow(prefix, block, last.from, last.to)
      BY <1>3, <2>3, <2>6
    <3> QED BY <3>1, <3>8, <3>9 DEF GoesOn
  <2>7. /\ \A j \in 1..(L + 1) : IsPiece(prefix, b, block, t[j])
        /\ \A j \in 1..(L + 1) : t[j].to <= t[j].from + WindowSize(prefix)
    <3> SUFFICES ASSUME NEW j \in 1..(L + 1)
                 PROVE  IsPiece(prefix, b, block, t[j]) /\ t[j].to <= t[j].from + WindowSize(prefix)
      OBVIOUS
    <3>1. CASE j = L + 1
      BY <2>2, <2>3, <2>5, <3>1
    <3>2. CASE j # L + 1
      <4>1. j \in 1..L
        BY <1>1, <3>2
      <4> QED BY <1>1, <2>5, <4>1
    <3> QED BY <3>1, <3>2
  <2>8. ASSUME NEW j \in 1..L PROVE GoesOn(prefix, block, t[j], t[j + 1])
    <3>1. CASE j = L
      <4>1. w # <<>> /\ t[j] = last /\ t[j + 1] = g
        BY <1>1, <2>5, <3>1 DEF last
      <4> QED BY <2>6, <4>1
    <3>2. CASE j # L
      <4>1. j \in 1..(L - 1) /\ j + 1 \in 1..L
        BY <1>1, <3>2
      <4> QED BY <1>1, <2>5, <4>1
    <3> QED BY <3>1, <3>2
  <2>9. t[1].from = 0
    <3>1. CASE w = <<>>
      <4>1. L = 0 /\ t[1] = g /\ cursor = 0
        BY <2>5, <3>1 DEF cursor
      <4> QED BY <2>3, <4>1
    <3>2. CASE w # <<>>
      <4>1. 1 \in 1..L
        BY <1>1, <3>2
      <4> QED BY <1>1, <2>5, <3>2, <4>1
    <3> QED BY <3>1, <3>2
  <2>10. t[L + 1].to = n \/ t[L + 1].from >= i - 1
    <3>1. CASE w = <<>>
      <4>1. cursor = 0 /\ i = 1
        BY <1>1, <3>1 DEF cursor
      <4> QED BY <2>3, <2>5, <4>1
    <3>2. CASE w # <<>>
      <4>1. last.to # n
        BY <1>5, <3>2
      <4>2. cursor >= last.from + 1 /\ last.from \in Nat /\ cursor \in Nat
        BY <1>3, <3>2
      <4>3. CASE i = 1
        BY <2>3, <2>5, <4>2, <4>3
      <4>4. CASE i # 1
        <5>1. last.from >= i - 2
          BY <1>1, <4>1, <4>4
        <5> QED BY <1>1, <2>3, <2>5, <4>2, <5>1
      <4> QED BY <4>3, <4>4
    <3> QED BY <3>1, <3>2
  <2>11. t \in CutOff(prefix, b, block, i)
    <3>1. t \in InPieces(prefix, b, block)
      <4>1. Len(t) - 1 = L
        BY <1>1, <2>5
      <4> QED BY <2>5, <2>7, <2>8, <2>9, <4>1 DEF InPieces
    <3> QED BY <2>5, <2>7, <2>10, <3>1 DEF CutOff
  <2> QED BY <1>2, <1>5, <2>11
<1> QED BY <1>4, <1>5

\* What _expand_blocks makes of a block.
LEMMA PiecesFill ==
    ASSUME NEW prefix \in Nat, NEW b \in Nat, NEW block, ProperBlock(block),
           Fits(prefix, <<Whole(b, block)>>) \/ CanSplit(prefix, block)
    PROVE  LET w == Pieces(prefix, b, block)
           IN  w \in InPieces(prefix, b, block) /\ w # <<>> /\ w[Len(w)].to = Len(block.text)
<1> DEFINE n == Len(block.text)
           whole == Whole(b, block)
<1>1. n \in Nat /\ n > 0 /\ DOMAIN block.text = 1..n /\ block.wrap \in Nat
  BY DEF ProperBlock
<1>2. CASE Fits(prefix, <<whole>>)
  <2>1. Pieces(prefix, b, block) = <<whole>>
    BY <1>2 DEF Pieces
  <2>2. whole = [block |-> b, from |-> 0, to |-> n, size |-> n - 0 + block.wrap]
    BY DEF Whole, Fragment
  <2>3. whole \in Fragments /\ whole.from = 0 /\ whole.to = n
    BY <1>1, <2>2 DEF Fragments
  <2>4. whole = Fragment(b, block, whole.from, whole.to)
    BY <2>3 DEF Whole
  <2> HIDE DEF whole
  <2>5. IsPiece(prefix, b, block, whole)
    BY <1>1, <1>2, <2>3, <2>4 DEF IsPiece
  <2>6. /\ <<whole>> \in Seq(Fragments) /\ Len(<<whole>>) = 1 /\ <<whole>> # <<>>
        /\ <<whole>>[1] = whole
    BY <2>3
  <2> DEFINE w == <<whole>>
  <2> HIDE DEF w
  <2>7. w \in Seq(Fragments) /\ Len(w) = 1 /\ w # <<>> /\ w[1] = whole
    BY <2>6 DEF w
  <2>8. w \in InPieces(prefix, b, block)
    <3>1. \A i \in 1..Len(w) : w[i] = whole
      BY <2>7
    <3>2. 1..(Len(w) - 1) = {}
      BY <2>7
    <3> QED BY <2>3, <2>5, <2>7, <3>1, <3>2 DEF InPieces
  <2> QED BY <2>1, <2>3, <2>7, <2>8 DEF w
<1>3. CASE ~ Fits(prefix, <<whole>>)
  <2> DEFINE Reached == [i \in 0..n |-> CutOff(prefix, b, block, i)]
             steps == [i \in DOMAIN block.text |-> Cut(prefix, b, block)]
             w == Windows(prefix, b, block)
  <2>1. <<>> \in Reached[0]
    <3>1. <<>> \in InPieces(prefix, b, block)
      BY DEF InPieces
    <3>2. <<>> \in CutOff(prefix, b, block, 0)
      BY <3>1 DEF CutOff
    <3> QED BY <1>1, <3>2
  <2>2. \A i \in 1..n : \A v \in Reached[i - 1] : steps[i][v] \in Reached[i]
    <3> SUFFICES ASSUME NEW i \in 1..n, NEW v \in Reached[i - 1]
                 PROVE  steps[i][v] \in Reached[i]
      OBVIOUS
    <3>1. i \in 0..n /\ i - 1 \in 0..n /\ i \in DOMAIN block.text
      BY <1>1
    <3>2. v \in CutOff(prefix, b, block, i - 1)
      BY <3>1
    <3>3. Cut(prefix, b, block)[v] \in CutOff(prefix, b, block, i)
      BY <1>3, <3>2, CutGoesOn
    <3> QED BY <3>1, <3>3
  <2>3. After(steps, <<>>, n) \in Reached[n]
    <3> HIDE DEF steps, Reached, n
    <3> QED BY <1>1, <2>1, <2>2, AfterReaches
  <2>4. w \in CutOff(prefix, b, block, n)
    BY <1>1, <2>3 DEF Windows
  <2> HIDE DEF w
  <2>5. /\ w \in InPieces(prefix, b, block) /\ w # <<>>
        /\ w[Len(w)].to = n \/ w[Len(w)].from >= n - 1
    BY <1>1, <2>4 DEF CutOff
  <2>6. IsPiece(prefix, b, block, w[Len(w)])
    <3>1. w \in Seq(Fragments)
      BY <2>5 DEF InPieces
    <3>2. Len(w) \in 1..Len(w)
      BY <2>5, <3>1
    <3> QED BY <2>5, <3>2 DEF InPieces
  <2>7. w[Len(w)].to = n
    <3> DEFINE f == w[Len(w)]
    <3>1. f \in Fragments /\ f.from < f.to /\ f.to <= n
      BY <2>6 DEF IsPiece
    <3>2. f.from \in Nat /\ f.to \in Nat
      BY <3>1 DEF Fragments
    <3>3. f.to = n \/ f.from >= n - 1
      BY <2>5
    <3> HIDE DEF f
    <3>4. f.to = n
      BY <1>1, <3>1, <3>2, <3>3
    <3> QED BY <3>4 DEF f
  <2>8. Pieces(prefix, b, block) = w
    BY <1>3 DEF Pieces, w
  <2> QED BY <2>5, <2>7, <2>8
<1> QED BY <1>2, <1>3

\* A fragment that the next one of the section goes on from.
LeadsTo(prefix, blocks, f, g) ==
    \/ g.block = f.block /\ GoesOn(prefix, blocks[f.block], f, g)
    \/ g.block = f.block + 1 /\ f.to = Len(blocks[f.block].text) /\ g.from = 0

\* The fragments of the first blocks of a section.
AllPieces(prefix, blocks, count) ==
    {s \in Seq(Fragments) :
        /\ \A i \in 1..Len(s) :
            s[i].block \in 1..count /\ IsPiece(prefix, s[i].block, blocks[s[i].block], s[i])
        /\ \A i \in 1..(Len(s) - 1) : LeadsTo(prefix, blocks, s[i], s[i + 1])
        /\ count = 0 => s = <<>>
        /\ count > 0 =>
            /\ s # <<>> /\ s[1].block = 1 /\ s[1].from = 0
            /\ s[Len(s)].block = count /\ s[Len(s)].to = Len(blocks[count].text)}

LEMMA ExpandGoesOn ==
    ASSUME NEW prefix \in Nat, NEW S, NEW blocks \in Seq(S),
           \A c \in DOMAIN blocks : ProperBlock(blocks[c]), Expandable(prefix, blocks),
           NEW b \in 1..Len(blocks), NEW s \in AllPieces(prefix, blocks, b - 1)
    PROVE  Expand(prefix, blocks, b)[s] \in AllPieces(prefix, blocks, b)
<1> DEFINE w == Pieces(prefix, b, blocks[b])
           L == Len(s)
           M == Len(w)
           t == s \o w
           n == Len(blocks[b].text)
<1>1. b \in DOMAIN blocks /\ b \in Nat /\ b > 0
  OBVIOUS
<1>2. w \in InPieces(prefix, b, blocks[b]) /\ w # <<>> /\ w[M].to = n
  BY <1>1, PiecesFill DEF Expandable
<1> HIDE DEF w
<1>3. /\ w \in Seq(Fragments) /\ M \in Nat /\ M > 0 /\ w[1].from = 0
      /\ \A i \in 1..M : IsPiece(prefix, b, blocks[b], w[i])
      /\ \A i \in 1..(M - 1) : GoesOn(prefix, blocks[b], w[i], w[i + 1])
  BY <1>2 DEF InPieces
<1>4. /\ s \in Seq(Fragments) /\ L \in Nat
      /\ \A i \in 1..L :
            s[i].block \in 1..(b - 1) /\ IsPiece(prefix, s[i].block, blocks[s[i].block], s[i])
      /\ \A i \in 1..(L - 1) : LeadsTo(prefix, blocks, s[i], s[i + 1])
      /\ b - 1 = 0 => s = <<>>
      /\ b - 1 > 0 =>
            /\ s # <<>> /\ s[1].block = 1 /\ s[1].from = 0
            /\ s[L].block = b - 1 /\ s[L].to = Len(blocks[b - 1].text)
  BY DEF AllPieces
<1>5. \A i \in 1..M : w[i].block = b
  BY <1>3, PieceIsFragment
<1>6. Expand(prefix, blocks, b)[s] = t
  BY <1>4 DEF Expand, w
<1>7. /\ t \in Seq(Fragments) /\ Len(t) = L + M
      /\ \A i \in 1..L : t[i] = s[i]
      /\ \A i \in (L + 1)..(L + M) : t[i] = w[i - L]
  BY <1>3, <1>4, Joined
<1> HIDE DEF t
<1>8. ASSUME NEW i \in 1..(L + M)
      PROVE  t[i].block \in 1..b /\ IsPiece(prefix, t[i].block, blocks[t[i].block], t[i])
  <2>1. CASE i <= L
    <3>1. i \in 1..L
      BY <1>4, <2>1
    <3>2. s[i].block \in 1..b
      BY <1>1, <1>4, <3>1
    <3> QED BY <1>4, <1>7, <3>1, <3>2
  <2>2. CASE ~ (i <= L)
    <3>1. i - L \in 1..M /\ i \in (L + 1)..(L + M)
      BY <1>3, <1>4, <2>2
    <3>2. t[i] = w[i - L] /\ w[i - L].block = b /\ b \in 1..b
      BY <1>1, <1>5, <1>7, <3>1
    <3> QED BY <1>3, <3>1, <3>2
  <2> QED BY <2>1, <2>2
<1>9. ASSUME NEW i \in 1..((L + M) - 1)
      PROVE  LeadsTo(prefix, blocks, t[i], t[i + 1])
  <2>1. CASE i < L
    <3>1. i \in 1..(L - 1) /\ i \in 1..L /\ i + 1 \in 1..L
      BY <1>4, <2>1
    <3> QED BY <1>4, <1>7, <3>1
  <2>2. CASE i = L
    <3>1. L \in 1..L /\ L + 1 \in (L + 1)..(L + M) /\ (L + 1) - L = 1 /\ 1 \in 1..M
      BY <1>3, <1>4, <2>2
    <3>2. t[i] = s[L] /\ t[i + 1] = w[1]
      BY <1>7, <2>2, <3>1
    <3>3. b - 1 > 0
      BY <1>1, <1>4, <3>1
    <3>4. s[L].block = b - 1 /\ s[L].to = Len(blocks[b - 1].text) /\ w[1].block = b /\ w[1].from = 0
      BY <1>3, <1>4, <1>5, <3>1, <3>3
    <3>5. w[1].block = s[L].block + 1
      BY <1>1, <3>4
    <3> QED BY <3>2, <3>4, <3>5 DEF LeadsTo
  <2>3. CASE i > L
    <3>1. /\ i - L \in 1..(M - 1) /\ i - L \in 1..M /\ (i - L) + 1 \in 1..M /\ (i + 1) - L = (i - L) + 1
          /\ i \in (L + 1)..(L + M) /\ i + 1 \in (L + 1)..(L + M)
      BY <1>3, <1>4, <2>3
    <3>2. t[i] = w[i - L] /\ t[i + 1] = w[(i - L) + 1]
      <4>1. t[i] = w[i - L] /\ t[i + 1] = w[(i + 1) - L]
        BY <1>7, <3>1
      <4> QED BY <3>1, <4>1
    <3>3. GoesOn(prefix, blocks[b], w[i - L], w[(i - L) + 1])
      BY <1>3, <3>1
    <3>4. w[i - L].block = b /\ w[(i - L) + 1].block = b
      BY <1>5, <3>1
    <3> QED BY <3>2, <3>3, <3>4 DEF LeadsTo
  <2> QED BY <1>3, <1>4, <2>1, <2>2, <2>3
<1>10. t # <<>> /\ t[1].block = 1 /\ t[1].from = 0
  <2>1. t # <<>>
    BY <1>3, <1>4, <1>7
  <2>2. CASE b = 1
    <3>1. L = 0
      BY <1>4, <2>2
    <3>2. 1 \in (L + 1)..(L + M) /\ 1 - L = 1 /\ 1 \in 1..M
      BY <1>3, <3>1
    <3> QED BY <1>3, <1>5, <1>7, <2>1, <2>2, <3>2
  <2>3. CASE b # 1
    <3>1. b - 1 > 0
      BY <1>1, <2>3
    <3>2. 1 \in 1..L
      BY <1>4, <3>1
    <3> QED BY <1>4, <1>7, <2>1, <3>1, <3>2
  <2> QED BY <2>2, <2>3
<1>11. t[L + M].block = b /\ t[L + M].to = n
  <2>1. L + M \in (L + 1)..(L + M) /\ (L + M) - L = M /\ M \in 1..M
    BY <1>3, <1>4
  <2>2. t[L + M] = w[M]
    BY <1>7, <2>1
  <2> QED BY <1>2, <1>5, <2>1, <2>2
<1>12. t \in AllPieces(prefix, blocks, b)
  <2>1. \A i \in 1..Len(t) :
            t[i].block \in 1..b /\ IsPiece(prefix, t[i].block, blocks[t[i].block], t[i])
    BY <1>7, <1>8
  <2>2. \A i \in 1..(Len(t) - 1) : LeadsTo(prefix, blocks, t[i], t[i + 1])
    BY <1>7, <1>9
  <2>3. t[Len(t)].block = b /\ t[Len(t)].to = Len(blocks[b].text)
    BY <1>7, <1>11
  <2>4. t \in Seq(Fragments) /\ b # 0
    BY <1>1, <1>7
  <2> QED BY <1>10, <2>1, <2>2, <2>3, <2>4 DEF AllPieces
<1> QED BY <1>6, <1>12

LEMMA ExpandedFills ==
    ASSUME NEW prefix \in Nat, NEW S, NEW blocks \in Seq(S),
           \A c \in DOMAIN blocks : ProperBlock(blocks[c]), Expandable(prefix, blocks)
    PROVE  Expanded(prefix, blocks) \in AllPieces(prefix, blocks, Len(blocks))
<1> DEFINE n == Len(blocks)
           Reached == [i \in 0..n |-> AllPieces(prefix, blocks, i)]
           steps == [b \in DOMAIN blocks |-> Expand(prefix, blocks, b)]
<1>1. n \in Nat /\ DOMAIN blocks = 1..n
  OBVIOUS
<1>2. <<>> \in Reached[0]
  <2>1. <<>> \in AllPieces(prefix, blocks, 0)
    BY DEF AllPieces
  <2> QED BY <1>1, <2>1
<1>3. \A i \in 1..n : \A v \in Reached[i - 1] : steps[i][v] \in Reached[i]
  <2> SUFFICES ASSUME NEW i \in 1..n, NEW v \in Reached[i - 1]
               PROVE  steps[i][v] \in Reached[i]
    OBVIOUS
  <2>1. i \in 0..n /\ i - 1 \in 0..n /\ i \in DOMAIN blocks
    BY <1>1
  <2>2. v \in AllPieces(prefix, blocks, i - 1)
    BY <2>1
  <2>3. Expand(prefix, blocks, i)[v] \in AllPieces(prefix, blocks, i)
    BY <2>2, ExpandGoesOn
  <2> QED BY <2>1, <2>3
<1>4. After(steps, <<>>, n) \in Reached[n]
  <2> HIDE DEF steps, Reached, n
  <2> QED BY <1>1, <1>2, <1>3, AfterReaches
<1> QED BY <1>1, <1>4 DEF Expanded

\* Of two fragments, which one reaches less far into the section.
ReachesLess(f, g) == f.block < g.block \/ (f.block = g.block /\ f.to < g.to)

\* A fragment reaches farther than those before it.
LEMMA LaterReachesFarther ==
    ASSUME NEW prefix \in Nat, NEW blocks, NEW count \in Nat, NEW s \in AllPieces(prefix, blocks, count),
           NEW k \in 1..Len(s), NEW j \in 1..(k - 1)
    PROVE  ReachesLess(s[j], s[k])
<1> DEFINE N == Len(s) - j
           T == {d \in 0..N : d > 0 => ReachesLess(s[j], s[j + d])}
<1>1. /\ Len(s) \in Nat /\ j \in Nat /\ j > 0 /\ k \in Nat /\ N \in Nat
      /\ \A i \in 1..Len(s) : s[i].block \in Nat /\ s[i].to \in Nat
      /\ \A i \in 1..(Len(s) - 1) : LeadsTo(prefix, blocks, s[i], s[i + 1])
  <2>1. /\ s \in Seq(Fragments)
        /\ \A i \in 1..Len(s) : IsPiece(prefix, s[i].block, blocks[s[i].block], s[i])
        /\ \A i \in 1..(Len(s) - 1) : LeadsTo(prefix, blocks, s[i], s[i + 1])
    BY DEF AllPieces
  <2>2. \A i \in 1..Len(s) : s[i].block \in Nat /\ s[i].to \in Nat
    BY <2>1, PieceIsFragment
  <2>3. Len(s) \in Nat
    BY <2>1
  <2>4. j \in Nat /\ j > 0 /\ k \in Nat /\ N \in Nat
    BY <2>3
  <2> QED BY <2>1, <2>2, <2>3, <2>4
<1>2. \A i \in 1..(Len(s) - 1) : ReachesLess(s[i], s[i + 1])
  <2> SUFFICES ASSUME NEW i \in 1..(Len(s) - 1) PROVE ReachesLess(s[i], s[i + 1])
    OBVIOUS
  <2>1. i \in 1..Len(s) /\ i + 1 \in 1..Len(s)
    BY <1>1
  <2>2. s[i].block \in Nat /\ s[i + 1].block \in Nat /\ LeadsTo(prefix, blocks, s[i], s[i + 1])
    BY <1>1, <2>1
  <2> QED BY <2>2 DEF LeadsTo, GoesOn, ReachesLess
<1> HIDE DEF N, T
<1>3. 0 \in T
  BY <1>1 DEF T
<1>4. \A d \in 1..N : d - 1 \in T => d \in T
  <2> SUFFICES ASSUME NEW d \in 1..N, d - 1 \in T PROVE d \in T
    OBVIOUS
  <2>1. /\ j + (d - 1) \in 1..(Len(s) - 1) /\ (j + (d - 1)) + 1 = j + d
        /\ j \in 1..Len(s) /\ j + (d - 1) \in 1..Len(s) /\ j + d \in 1..Len(s) /\ d \in 0..N
    BY <1>1 DEF N
  <2>2. ReachesLess(s[j + (d - 1)], s[j + d])
    BY <1>2, <2>1
  <2>3. CASE d = 1
    <3>1. j + (d - 1) = j
      BY <1>1, <2>3
    <3> QED BY <2>1, <2>2, <3>1 DEF T
  <2>4. CASE d # 1
    <3>1. ReachesLess(s[j], s[j + (d - 1)])
      BY <2>4 DEF T
    <3> DEFINE f == s[j]
               g == s[j + (d - 1)]
               h == s[j + d]
    <3>2. /\ f.block \in Nat /\ g.block \in Nat /\ h.block \in Nat
          /\ f.to \in Nat /\ g.to \in Nat /\ h.to \in Nat
      BY <1>1, <2>1
    <3>3. ReachesLess(f, g) /\ ReachesLess(g, h)
      BY <2>2, <3>1
    <3> HIDE DEF f, g, h
    <3>4. ReachesLess(f, h)
      BY <3>2, <3>3 DEF ReachesLess
    <3> QED BY <2>1, <3>4 DEF T, f, h
  <2> QED BY <2>3, <2>4
<1>5. \A d \in 0..N : d \in T
  BY <1>1, <1>3, <1>4, UpTo
<1>6. k - j \in 0..N /\ k - j > 0 /\ j + (k - j) = k
  BY <1>1 DEF N
<1>7. k - j \in T
  BY <1>5, <1>6
<1> QED BY <1>6, <1>7 DEF T

\* The first fragment that reaches a token is of its block, and begins there or
\* goes on from one that does not reach it.
LEMMA ReachedFirst ==
    ASSUME NEW prefix \in Nat, NEW blocks, NEW count \in Nat, NEW s \in AllPieces(prefix, blocks, count),
           \A c \in 1..count : Len(blocks[c].text) \in Nat,
           NEW b \in 1..count, NEW m \in 1..Len(blocks[b].text)
    PROVE  \E i \in 1..Len(s) :
                /\ s[i].block = b /\ m <= s[i].to
                /\ \/ s[i].from = 0
                   \/ /\ i - 1 \in 1..Len(s) /\ s[i - 1].block = b /\ s[i - 1].to < m
                      /\ GoesOn(prefix, blocks[b], s[i - 1], s[i])
<1> DEFINE reaches(i) == s[i].block > b \/ (s[i].block = b /\ s[i].to >= m)
           T == {i \in 1..Len(s) : reaches(i)}
<1>1. /\ s \in Seq(Fragments) /\ Len(s) \in Nat /\ b \in Nat /\ m \in Nat /\ count > 0
      /\ \A i \in 1..Len(s) :
            s[i].block \in 1..count /\ IsPiece(prefix, s[i].block, blocks[s[i].block], s[i])
      /\ \A i \in 1..(Len(s) - 1) : LeadsTo(prefix, blocks, s[i], s[i + 1])
      /\ s # <<>> /\ s[1].block = 1 /\ s[1].from = 0
      /\ s[Len(s)].block = count /\ s[Len(s)].to = Len(blocks[count].text)
  BY DEF AllPieces
<1>2. \A i \in 1..Len(s) : s[i].block \in Nat /\ s[i].to \in Nat
  BY <1>1, PieceIsFragment
<1>3. Len(s) \in T
  <2>1. Len(s) \in 1..Len(s)
    BY <1>1
  <2>2. CASE count = b
    BY <1>1, <2>1, <2>2
  <2>3. CASE count # b
    <3>1. count > b
      BY <1>1, <2>3
    <3> QED BY <1>1, <2>1, <3>1
  <2> QED BY <2>2, <2>3
<1>4. T \in SUBSET Nat
  BY <1>1
<1>5. PICK i \in T : \A j \in T : i <= j
  <2> HIDE DEF T
  <2> QED BY <1>3, <1>4, LeastNatural
<1>6. i \in 1..Len(s) /\ reaches(i)
  OBVIOUS
<1>7. CASE i = 1
  <2>1. s[i].block = b /\ s[i].to >= m
    BY <1>1, <1>6, <1>7
  <2> QED BY <1>1, <1>2, <1>6, <1>7, <2>1
<1>8. CASE i # 1
  <2>1. i - 1 \in 1..Len(s) /\ i - 1 \in 1..(Len(s) - 1) /\ (i - 1) + 1 = i /\ i - 1 < i
    BY <1>1, <1>6, <1>8
  <2>2. ~ reaches(i - 1)
    <3> DEFINE j == i - 1
    <3>1. j \in 1..Len(s) /\ ~ (i <= j)
      BY <2>1, <1>6
    <3> HIDE DEF j
    <3>2. ~ reaches(j)
      BY <1>5, <3>1
    <3> QED BY <3>2 DEF j
  <2> DEFINE f == s[i - 1]
             g == s[i]
  <2>3. LeadsTo(prefix, blocks, f, g)
    <3>1. LeadsTo(prefix, blocks, s[i - 1], s[(i - 1) + 1])
      BY <1>1, <2>1
    <3> QED BY <2>1, <3>1
  <2>4. /\ f.block \in Nat /\ f.block \in 1..count /\ f.to \in Nat /\ g.block \in Nat /\ g.to \in Nat
        /\ g.block > b \/ (g.block = b /\ g.to >= m)
        /\ ~ (f.block > b) /\ ~ (f.block = b /\ f.to >= m)
    BY <1>1, <1>2, <1>6, <2>1, <2>2
  <2> HIDE DEF f, g, T
  <2>5. CASE g.block = f.block /\ GoesOn(prefix, blocks[f.block], f, g)
    <3>1. g.block = b /\ f.block = b /\ f.to < m /\ m <= g.to
      BY <1>1, <2>4, <2>5
    <3> QED BY <1>6, <2>1, <2>5, <3>1 DEF f, g
  <2>6. CASE g.block = f.block + 1 /\ f.to = Len(blocks[f.block].text) /\ g.from = 0
    <3>1. f.block # b
      BY <1>1, <2>4, <2>6
    <3>2. g.block = b /\ m <= g.to
      BY <1>1, <2>4, <2>6, <3>1
    <3> QED BY <1>6, <2>6, <3>2 DEF f, g
  <2> QED BY <2>3, <2>5, <2>6 DEF LeadsTo
<1> QED BY <1>7, <1>8

\* The tokens of a character follow each other, and are no more than the widest has.
LEMMA CharacterIsRun ==
    ASSUME NEW block, ProperBlock(block), NEW n \in DOMAIN block.text
    PROVE  /\ Widest(block.text) \in Nat /\ Widest(block.text) > 0
           /\ \E last \in Character(block.text, n) : \A m \in Character(block.text, n) :
                m <= last /\ last < m + Widest(block.text)
<1> DEFINE text == block.text
           N == Len(text)
           C == Character(text, n)
           widths == {Cardinality(Character(text, k)) : k \in DOMAIN text}
<1>1. /\ N \in Nat /\ DOMAIN text = 1..N /\ n \in 1..N
      /\ \A i, j \in 1..N : i <= j => text[i] <= text[j]
      /\ \A i \in 1..N : text[i] \in Nat
  BY DEF ProperBlock
<1>2. ASSUME NEW k \in DOMAIN text
      PROVE  /\ IsFiniteSet(Character(text, k)) /\ Character(text, k) \subseteq 1..N
             /\ Cardinality(Character(text, k)) \in 0..N
  <2>1. IsFiniteSet(1..N) /\ Cardinality(1..N) <= N
    BY <1>1, FS_Interval
  <2>2. Character(text, k) \subseteq 1..N
    BY <1>1 DEF Character
  <2>3. /\ IsFiniteSet(Character(text, k))
        /\ Cardinality(Character(text, k)) <= Cardinality(1..N)
    BY <2>1, <2>2, FS_Subset
  <2>4. Cardinality(Character(text, k)) \in Nat /\ Cardinality(1..N) \in Nat
    BY <2>1, <2>3, FS_CardinalityType
  <2> QED BY <1>1, <2>1, <2>2, <2>3, <2>4
<1>3. n \in C /\ C \subseteq 1..N /\ IsFiniteSet(C)
  BY <1>2 DEF Character
<1>4. widths \in SUBSET (0..N) /\ Cardinality(C) \in widths
  BY <1>2
<1>5. /\ Max(widths) \in 0..N /\ Cardinality(C) <= Max(widths)
  <2> HIDE DEF widths, C, N
  <2>1. Max(widths) \in widths /\ \A x \in widths : x <= Max(widths)
    BY <1>1, <1>4, Largest
  <2> QED BY <1>4, <2>1
<1>6. Widest(text) = Max(widths)
  BY DEF Widest
<1>7. PICK last \in C : \A m \in C : m <= last
  <2>1. C \in SUBSET (0..N) /\ C # {}
    BY <1>3
  <2>2. Max(C) \in C /\ \A m \in C : m <= Max(C)
    <3> HIDE DEF C, N
    <3> QED BY <1>1, <2>1, Largest
  <2> QED BY <2>2
<1>8. ASSUME NEW m \in C
      PROVE  last < m + Widest(text)
  <2>1. m \in 1..N /\ last \in 1..N /\ m <= last /\ text[m] = text[n] /\ text[last] = text[n]
    BY <1>3, <1>7 DEF Character
  <2>2. m..last \subseteq C
    <3> SUFFICES ASSUME NEW k \in m..last PROVE k \in C
      OBVIOUS
    <3>1. k \in 1..N /\ m <= k /\ k <= last
      BY <1>1, <2>1
    <3>2. text[m] <= text[k] /\ text[k] <= text[last]
      BY <1>1, <2>1, <3>1
    <3>3. text[k] = text[n]
      BY <1>1, <2>1, <3>1, <3>2
    <3> QED BY <1>1, <3>1, <3>3 DEF Character
  <2>3. Cardinality(m..last) = last - m + 1
    <3> HIDE DEF C, widths
    <3>1. m \in Int /\ last \in Int /\ ~ (m > last)
      BY <1>1, <2>1
    <3> QED BY <3>1, FS_Interval
  <2>4. Cardinality(m..last) <= Cardinality(C)
    <3> HIDE DEF C
    <3> QED BY <1>3, <2>2, FS_Subset
  <2>5. Cardinality(C) \in Nat
    BY <1>4
  <2> HIDE DEF C, N, widths, text
  <2>6. last - m + 1 <= Widest(text) /\ Widest(text) \in Nat /\ m \in Nat /\ last \in Nat
    BY <1>1, <1>5, <1>6, <2>1, <2>3, <2>4, <2>5
  <2> QED BY <2>6
<1>9. Widest(text) \in Nat /\ Widest(text) > 0
  <2>1. Cardinality(C) # 0 /\ Cardinality(C) \in Nat
    <3> HIDE DEF C
    <3>1. Cardinality(C) \in Nat
      BY <1>3, FS_CardinalityType
    <3> QED BY <1>3, <3>1, FS_EmptySet
  <2> HIDE DEF C, N, widths, text
  <2> QED BY <1>1, <1>5, <1>6, <2>1
<1> QED BY <1>7, <1>8, <1>9

\* Every token is in a fragment, and fragments have no other tokens.
LEMMA EveryTokenIsThere ==
    ASSUME NEW prefix \in Nat, NEW blocks, NEW count \in Nat, NEW s \in AllPieces(prefix, blocks, count),
           \A c \in 1..count : ProperBlock(blocks[c])
    PROVE  UNION {TokensOfFragment(f) : f \in ToSet(s)}
             = UNION {{<<b, n>> : n \in DOMAIN blocks[b].text} : b \in 1..count}
<1>1. /\ s \in Seq(Fragments)
      /\ \A i \in 1..Len(s) :
            s[i].block \in 1..count /\ IsPiece(prefix, s[i].block, blocks[s[i].block], s[i])
      /\ \A c \in 1..count : Len(blocks[c].text) \in Nat /\ DOMAIN blocks[c].text = 1..Len(blocks[c].text)
  <2>1. ASSUME NEW c \in 1..count
        PROVE  Len(blocks[c].text) \in Nat /\ DOMAIN blocks[c].text = 1..Len(blocks[c].text)
    <3>1. blocks[c].text \in Seq(Nat)
      BY DEF ProperBlock
    <3> QED BY <3>1
  <2> QED BY <2>1 DEF AllPieces
<1>2. ASSUME NEW f \in ToSet(s), NEW k \in (f.from + 1)..f.to
      PROVE  f.block \in 1..count /\ k \in DOMAIN blocks[f.block].text
  <2>1. PICK i \in 1..Len(s) : f = s[i]
    BY <1>1 DEF ToSet
  <2>2. f.block \in 1..count /\ IsPiece(prefix, f.block, blocks[f.block], f)
    BY <1>1, <2>1
  <2>3. f.from \in Nat /\ f.to \in Nat /\ f.to <= Len(blocks[f.block].text)
    BY <2>2, PieceIsFragment DEF IsPiece
  <2>4. k \in 1..Len(blocks[f.block].text)
    BY <1>1, <2>2, <2>3
  <2> QED BY <1>1, <2>2, <2>4
<1>3. ASSUME NEW b \in 1..count, NEW n \in DOMAIN blocks[b].text
      PROVE  \E f \in ToSet(s) : <<b, n>> \in TokensOfFragment(f)
  <2>1. n \in 1..Len(blocks[b].text)
    BY <1>1
  <2>2. PICK i \in 1..Len(s) :
            /\ s[i].block = b /\ n <= s[i].to
            /\ \/ s[i].from = 0
               \/ /\ i - 1 \in 1..Len(s) /\ s[i - 1].block = b /\ s[i - 1].to < n
                  /\ GoesOn(prefix, blocks[b], s[i - 1], s[i])
    BY <1>1, <2>1, ReachedFirst
  <2> DEFINE f == s[i]
  <2>3. f \in ToSet(s)
    BY <1>1 DEF ToSet
  <2>4. f.from \in Nat /\ f.to \in Nat
    BY <1>1, PieceIsFragment
  <2>5. f.from < n
    <3>1. CASE f.from = 0
      BY <2>1, <3>1, <1>1
    <3>2. CASE f.from # 0
      <4> DEFINE e == s[i - 1]
      <4>1. i - 1 \in 1..Len(s) /\ e.block = b /\ e.to < n /\ f.from = NextWindow(prefix, blocks[b], e.from, e.to)
        BY <2>2, <3>2 DEF GoesOn
      <4>2. IsPiece(prefix, e.block, blocks[e.block], e)
        BY <1>1, <4>1
      <4>3. e.from \in Nat /\ e.to \in Nat /\ e.from < e.to
        BY <4>2, PieceIsFragment DEF IsPiece
      <4> HIDE DEF e, f
      <4>4. f.from \in (e.from + 1)..e.to
        BY <4>1, <4>3, NextBegins
      <4> QED BY <1>1, <2>1, <4>1, <4>3, <4>4
    <3> QED BY <3>1, <3>2
  <2>6. n \in (f.from + 1)..f.to
    <3> HIDE DEF f
    <3>1. n <= f.to
      BY <2>2 DEF f
    <3> QED BY <1>1, <2>1, <2>4, <2>5, <3>1
  <2> QED BY <2>2, <2>3, <2>6 DEF TokensOfFragment
<1>4. ASSUME NEW x \in UNION {TokensOfFragment(f) : f \in ToSet(s)}
      PROVE  x \in UNION {{<<b, n>> : n \in DOMAIN blocks[b].text} : b \in 1..count}
  <2>1. PICK f \in ToSet(s) : x \in TokensOfFragment(f)
    OBVIOUS
  <2>2. PICK k \in (f.from + 1)..f.to : x = <<f.block, k>>
    BY <2>1 DEF TokensOfFragment
  <2> QED BY <1>2, <2>2
<1>5. ASSUME NEW x \in UNION {{<<b, n>> : n \in DOMAIN blocks[b].text} : b \in 1..count}
      PROVE  x \in UNION {TokensOfFragment(f) : f \in ToSet(s)}
  <2>1. PICK b \in 1..count : x \in {<<b, n>> : n \in DOMAIN blocks[b].text}
    OBVIOUS
  <2>2. PICK n \in DOMAIN blocks[b].text : x = <<b, n>>
    BY <2>1
  <2> QED BY <1>3, <2>2
<1> QED BY <1>4, <1>5

\* A character that is cut is whole in the fragment that goes on.
LEMMA CharactersAreWhole ==
    ASSUME NEW prefix \in Nat, NEW blocks, NEW count \in Nat, NEW s \in AllPieces(prefix, blocks, count),
           \A c \in 1..count : ProperBlock(blocks[c]),
           NEW b \in 1..count, CutsAreCovered(ToSet(s), b, blocks[b].text),
           NEW n \in DOMAIN blocks[b].text
    PROVE  IsWhole(ToSet(s), b, blocks[b].text, n)
<1> DEFINE text == blocks[b].text
           C == Character(text, n)
           W == Widest(text)
<1>1. /\ s \in Seq(Fragments)
      /\ \A i \in 1..Len(s) : IsPiece(prefix, s[i].block, blocks[s[i].block], s[i])
      /\ \A c \in 1..count : Len(blocks[c].text) \in Nat /\ DOMAIN blocks[c].text = 1..Len(blocks[c].text)
  <2>1. /\ s \in Seq(Fragments)
        /\ \A i \in 1..Len(s) : IsPiece(prefix, s[i].block, blocks[s[i].block], s[i])
    BY DEF AllPieces
  <2>2. ASSUME NEW c \in 1..count
        PROVE  Len(blocks[c].text) \in Nat /\ DOMAIN blocks[c].text = 1..Len(blocks[c].text)
    <3>1. blocks[c].text \in Seq(Nat)
      BY DEF ProperBlock
    <3> QED BY <3>1
  <2> QED BY <2>1, <2>2
<1>2. PICK last \in C : \A m \in C : m <= last /\ last < m + W
  BY CharacterIsRun
<1>3. W \in Nat /\ W > 0
  BY CharacterIsRun
<1>4. last \in 1..Len(text) /\ C \subseteq 1..Len(text) /\ Len(text) \in Nat
  BY <1>1 DEF Character
<1>5. PICK i \in 1..Len(s) :
          /\ s[i].block = b /\ last <= s[i].to
          /\ \/ s[i].from = 0
             \/ /\ i - 1 \in 1..Len(s) /\ s[i - 1].block = b /\ s[i - 1].to < last
                /\ GoesOn(prefix, blocks[b], s[i - 1], s[i])
  BY <1>1, <1>4, ReachedFirst
<1> DEFINE f == s[i]
<1>6. f \in ToSet(s) /\ f.block = b /\ last <= f.to /\ f.from \in Nat /\ f.to \in Nat
  BY <1>1, <1>5, PieceIsFragment DEF ToSet
<1>7. \A m \in C : f.from < m
  <2>1. CASE f.from = 0
    <3> HIDE DEF C, f
    <3> QED BY <1>4, <2>1
  <2>2. CASE f.from # 0
    <3> DEFINE e == s[i - 1]
    <3>1. /\ i - 1 \in 1..Len(s) /\ e.block = b /\ e.to < last
          /\ f.from = NextWindow(prefix, blocks[b], e.from, e.to)
      BY <1>5, <2>2 DEF GoesOn
    <3>2. IsPiece(prefix, e.block, blocks[e.block], e) /\ e \in ToSet(s)
      BY <1>1, <3>1 DEF ToSet
    <3> HIDE DEF e, f, C, W
    <3>3. e.from \in Nat /\ e.to \in Nat /\ e.from < e.to
      BY <3>2, PieceIsFragment DEF IsPiece
    <3>4. e.to # Len(text)
      BY <1>4, <3>1, <3>3
    <3>5. e.to - e.from >= Overlap + W /\ Overlap >= W - 1
      BY <3>1, <3>2, <3>4 DEF CutsAreCovered, W
    <3>6. Overlap \in Nat
      BY ChunkAssumption
    <3>7. Overlap <= e.to - e.from - 1
      BY <1>3, <3>3, <3>5, <3>6
    <3>8. f.from = e.to - Overlap
      BY <3>1, <3>3, <3>7, NextBegins
    <3> QED BY <1>2, <1>3, <1>4, <3>1, <3>3, <3>5, <3>6, <3>8
  <2> QED BY <2>1, <2>2
<1>8. C \subseteq (f.from + 1)..f.to
  <2> SUFFICES ASSUME NEW m \in C PROVE m \in (f.from + 1)..f.to
    OBVIOUS
  <2>1. m \in Nat /\ m <= last /\ last \in Nat /\ f.from < m
    BY <1>2, <1>4, <1>7
  <2> HIDE DEF f, C
  <2> QED BY <1>6, <2>1
<1> QED BY <1>6, <1>8 DEF IsWhole

\* The end of a sequence.
LEMMA EndOfSequence ==
    ASSUME NEW S, NEW s \in Seq(S), NEW n \in 0..Len(s)
    PROVE  /\ Suffix(s, n) \in Seq(S) /\ Len(Suffix(s, n)) = n
           /\ ToSet(Suffix(s, n)) \subseteq ToSet(s)
<1> DEFINE L == Len(s)
           t == SubSeq(s, L - n + 1, L)
<1>1. L \in Nat /\ n \in Nat /\ n <= L /\ DOMAIN s = 1..L
  OBVIOUS
<1>2. /\ t \in Seq(S) /\ Len(t) = n
      /\ \A i \in 1..n : t[i] = s[(L - n) + i]
  BY <1>1
<1>3. \A i \in 1..n : (L - n) + i \in 1..L
  BY <1>1
<1> HIDE DEF t, L
<1>4. ToSet(t) \subseteq ToSet(s)
  <2>1. DOMAIN t = 1..n
    BY <1>2
  <2> QED BY <1>1, <1>2, <1>3, <2>1 DEF ToSet
<1> QED BY <1>2, <1>4 DEF Suffix, t, L

\* What is carried over to the next chunk is of the last one, and leaves room.
LEMMA CarriedFits ==
    ASSUME NEW prefix, NEW current \in Seq(Fragments), NEW f \in Fragments, Fits(prefix, <<f>>)
    PROVE  /\ Carried(prefix, current, f) \in Seq(Fragments)
           /\ ToSet(Carried(prefix, current, f)) \subseteq ToSet(current)
           /\ Fits(prefix, Append(Carried(prefix, current, f), f))
<1> DEFINE end(n) == Suffix(current, n)
           body(n) == Total(Gap * (n - 1), [i \in 1..n |-> end(n)[i].size])
           short == {n \in 0..Len(current) : \A m \in 1..n : body(m) <= Overlap}
           suffix == OverlapSuffix(current)
           room == {n \in 0..Len(suffix) : Fits(prefix, Append(Suffix(suffix, n), f))}
<1>1. Len(current) \in Nat
  OBVIOUS
<1>2. Max(short) \in 0..Len(current)
  <2>1. 0 \in short /\ short \in SUBSET (0..Len(current))
    BY <1>1
  <2> HIDE DEF short
  <2>2. Max(short) \in short
    BY <1>1, <2>1, Largest
  <2> QED BY <2>1, <2>2
<1>3. suffix = Suffix(current, Max(short))
  BY DEF OverlapSuffix
<1> HIDE DEF short, suffix
<1>4. suffix \in Seq(Fragments) /\ Len(suffix) \in Nat /\ ToSet(suffix) \subseteq ToSet(current)
  BY <1>2, <1>3, EndOfSequence
<1>5. 0 \in room
  <2>1. 0 \in 0..Len(suffix)
    BY <1>4
  <2>2. Suffix(suffix, 0) \in Seq(Fragments) /\ Len(Suffix(suffix, 0)) = 0
    BY <1>4, <2>1, EndOfSequence
  <2>3. Suffix(suffix, 0) = <<>>
    BY <2>2
  <2>4. Append(<<>>, f) = <<f>>
    OBVIOUS
  <2> QED BY <2>1, <2>3, <2>4
<1>6. Max(room) \in 0..Len(suffix) /\ Fits(prefix, Append(Suffix(suffix, Max(room)), f))
  <2>1. room \in SUBSET (0..Len(suffix)) /\ \A n \in room : Fits(prefix, Append(Suffix(suffix, n), f))
    OBVIOUS
  <2> HIDE DEF room
  <2>2. Max(room) \in room
    BY <1>4, <1>5, <2>1, Largest
  <2> QED BY <2>1, <2>2
<1>7. Carried(prefix, current, f) = Suffix(suffix, Max(room))
  <2>1. room # {}
    BY <1>5
  <2> QED BY <2>1 DEF Carried, suffix
<1> HIDE DEF room
<1>8. Suffix(suffix, Max(room)) \in Seq(Fragments) /\ ToSet(Suffix(suffix, Max(room))) \subseteq ToSet(suffix)
  BY <1>4, <1>6, EndOfSequence
<1> QED BY <1>4, <1>6, <1>7, <1>8

Told(chunks) == UNION {ToSet(chunks[c]) : c \in DOMAIN chunks}

\* Chunks of the first fragments of a section: each has a fragment that none
\* before it has.
ChunksOfFirst(prefix, s, chunks, k) ==
    /\ chunks \in Seq(Seq(Fragments))
    /\ \A c \in 1..Len(chunks) :
        /\ Fits(prefix, chunks[c]) /\ ToSet(chunks[c]) \subseteq FirstOf(s, k)
        /\ \E j \in 1..k :
            s[j] \in ToSet(chunks[c]) /\ \A d \in 1..(c - 1) : ToSet(chunks[d]) \subseteq FirstOf(s, j - 1)

OneChunkMore(prefix, s, chunks, chunk, k) ==
    /\ ChunksOfFirst(prefix, s, Append(chunks, chunk), k)
    /\ Told(Append(chunks, chunk)) = Told(chunks) \cup ToSet(chunk)

\* A chunk more, that has a fragment more.
LEMMA ChunkEnds ==
    ASSUME NEW prefix, NEW s, NEW k \in Nat, NEW chunks, ChunksOfFirst(prefix, s, chunks, k),
           NEW chunk \in Seq(Fragments), Fits(prefix, chunk),
           s[k + 1] \in ToSet(chunk), ToSet(chunk) \subseteq FirstOf(s, k + 1)
    PROVE  OneChunkMore(prefix, s, chunks, chunk, k + 1)
<1> DEFINE L == Len(chunks)
           t == Append(chunks, chunk)
<1>1. /\ chunks \in Seq(Seq(Fragments)) /\ L \in Nat
      /\ \A c \in 1..L :
            /\ Fits(prefix, chunks[c]) /\ ToSet(chunks[c]) \subseteq FirstOf(s, k)
            /\ \E j \in 1..k :
                s[j] \in ToSet(chunks[c]) /\ \A d \in 1..(c - 1) : ToSet(chunks[d]) \subseteq FirstOf(s, j - 1)
  <2>1. chunks \in Seq(Seq(Fragments))
    BY DEF ChunksOfFirst
  <2>2. L \in Nat
    BY <2>1
  <2>3. ASSUME NEW c \in 1..L
        PROVE  /\ Fits(prefix, chunks[c]) /\ ToSet(chunks[c]) \subseteq FirstOf(s, k)
               /\ \E j \in 1..k :
                    s[j] \in ToSet(chunks[c])
                    /\ \A d \in 1..(c - 1) : ToSet(chunks[d]) \subseteq FirstOf(s, j - 1)
    BY DEF ChunksOfFirst
  <2> QED BY <2>1, <2>2, <2>3
<1>2. /\ t \in Seq(Seq(Fragments)) /\ Len(t) = L + 1 /\ t[L + 1] = chunk
      /\ \A c \in 1..L : t[c] = chunks[c]
  BY <1>1, Appended
<1> HIDE DEF t
<1>3. FirstOf(s, k) \subseteq FirstOf(s, k + 1)
  <2>1. \A j \in 1..k : j \in 1..(k + 1)
    OBVIOUS
  <2> QED BY <2>1 DEF FirstOf
<1>4. ASSUME NEW c \in 1..(L + 1)
      PROVE  /\ Fits(prefix, t[c]) /\ ToSet(t[c]) \subseteq FirstOf(s, k + 1)
             /\ \E j \in 1..(k + 1) :
                s[j] \in ToSet(t[c]) /\ \A d \in 1..(c - 1) : ToSet(t[d]) \subseteq FirstOf(s, j - 1)
  <2>1. CASE c = L + 1
    <3>1. \A d \in 1..(c - 1) : ToSet(t[d]) \subseteq FirstOf(s, k)
      <4>1. c - 1 = L
        BY <1>1, <2>1
      <4> QED BY <1>1, <1>2, <4>1
    <3>2. k + 1 \in 1..(k + 1) /\ (k + 1) - 1 = k
      OBVIOUS
    <3>3. t[c] = chunk
      BY <1>2, <2>1
    <3>4. \E j \in 1..(k + 1) :
                s[j] \in ToSet(t[c]) /\ \A d \in 1..(c - 1) : ToSet(t[d]) \subseteq FirstOf(s, j - 1)
      BY <3>1, <3>2, <3>3
    <3> QED BY <3>3, <3>4
  <2>2. CASE c # L + 1
    <3>1. c \in 1..L /\ \A d \in 1..(c - 1) : d \in 1..L
      BY <1>1, <2>2
    <3>2. PICK j \in 1..k :
                s[j] \in ToSet(chunks[c]) /\ \A d \in 1..(c - 1) : ToSet(chunks[d]) \subseteq FirstOf(s, j - 1)
      BY <1>1, <3>1
    <3>3. j \in 1..(k + 1)
      OBVIOUS
    <3>4. s[j] \in ToSet(t[c]) /\ \A d \in 1..(c - 1) : ToSet(t[d]) \subseteq FirstOf(s, j - 1)
      BY <1>2, <3>1, <3>2
    <3>5. Fits(prefix, t[c]) /\ ToSet(t[c]) \subseteq FirstOf(s, k + 1)
      BY <1>1, <1>2, <1>3, <3>1
    <3> QED BY <3>3, <3>4, <3>5
  <2> QED BY <2>1, <2>2
<1>5. ChunksOfFirst(prefix, s, t, k + 1)
  BY <1>2, <1>4 DEF ChunksOfFirst
<1>6. Told(t) = Told(chunks) \cup ToSet(chunk)
  <2>1. DOMAIN t = 1..(L + 1) /\ DOMAIN chunks = 1..L /\ 1..(L + 1) = 1..L \cup {L + 1}
    BY <1>1, <1>2
  <2>2. ASSUME NEW x \in Told(t) PROVE x \in Told(chunks) \cup ToSet(chunk)
    <3>1. PICK c \in 1..(L + 1) : x \in ToSet(t[c])
      BY <2>1 DEF Told
    <3> QED BY <1>2, <2>1, <3>1 DEF Told
  <2>3. ASSUME NEW x \in Told(chunks) \cup ToSet(chunk) PROVE x \in Told(t)
    <3>1. CASE x \in ToSet(chunk)
      BY <1>2, <2>1, <3>1 DEF Told
    <3>2. CASE x \notin ToSet(chunk)
      <4>1. PICK c \in 1..L : x \in ToSet(chunks[c])
        BY <2>1, <2>3, <3>2 DEF Told
      <4> QED BY <1>2, <2>1, <4>1 DEF Told
    <3> QED BY <3>1, <3>2
  <2> QED BY <2>2, <2>3
<1> QED BY <1>5, <1>6 DEF t, OneChunkMore

States == [packed : Seq(Seq(Fragments)), current : Seq(Fragments)]

\* What _pack_blocks has made of the first i fragments: chunks of those before
\* the last one, which is in the current chunk.
PackedOff(prefix, s, i) ==
    {packing \in States :
        /\ i = 0 => packing.packed = <<>> /\ packing.current = <<>>
        /\ i > 0 =>
            /\ ChunksOfFirst(prefix, s, packing.packed, i - 1)
            /\ s[i] \in ToSet(packing.current) /\ ToSet(packing.current) \subseteq FirstOf(s, i)
            /\ Fits(prefix, packing.current)
            /\ FirstOf(s, i) \subseteq Told(packing.packed) \cup ToSet(packing.current)}

\* A sequence with one more at its end has that, and what it had.
LEMMA OneMore ==
    ASSUME NEW S, NEW s \in Seq(S), NEW x \in S
    PROVE  Append(s, x) \in Seq(S) /\ ToSet(Append(s, x)) = ToSet(s) \cup {x}
  BY Beginnings

LEMMA PackGoesOn ==
    ASSUME NEW prefix, NEW s \in Seq(Fragments), \A j \in 1..Len(s) : Fits(prefix, <<s[j]>>),
           NEW i \in 1..Len(s), NEW packing \in PackedOff(prefix, s, i - 1)
    PROVE  Pack(prefix, s[i])[packing] \in PackedOff(prefix, s, i)
<1> DEFINE packed == packing.packed
           current == packing.current
           f == s[i]
           new == Pack(prefix, f)[packing]
<1>1. /\ i \in Nat /\ i > 0 /\ Len(s) \in Nat
      /\ packing \in States /\ packed \in Seq(Seq(Fragments)) /\ current \in Seq(Fragments)
      /\ f \in Fragments /\ Fits(prefix, <<f>>)
  BY DEF PackedOff, States
<1>2. /\ i - 1 = 0 => packed = <<>> /\ current = <<>>
      /\ i - 1 > 0 =>
            /\ ChunksOfFirst(prefix, s, packed, (i - 1) - 1)
            /\ s[i - 1] \in ToSet(current) /\ ToSet(current) \subseteq FirstOf(s, i - 1)
            /\ Fits(prefix, current)
            /\ FirstOf(s, i - 1) \subseteq Told(packed) \cup ToSet(current)
  BY DEF PackedOff
<1>3. FirstOf(s, i) = FirstOf(s, i - 1) \cup {f}
  <2>1. 1..i = 1..(i - 1) \cup {i}
    BY <1>1
  <2> QED BY <2>1 DEF FirstOf
<1>4. ToSet(current) \subseteq FirstOf(s, i - 1) /\ FirstOf(s, i - 1) \subseteq Told(packed) \cup ToSet(current)
  <2>1. CASE i - 1 = 0
    <3>1. ToSet(current) = {} /\ FirstOf(s, i - 1) = {}
      BY <1>1, <1>2, <2>1 DEF ToSet, FirstOf
    <3> QED BY <3>1
  <2>2. CASE i - 1 # 0
    BY <1>1, <1>2, <2>2
  <2> QED BY <2>1, <2>2
<1>5. new = IF Fits(prefix, Append(current, f))
            THEN [packing EXCEPT !.current = Append(@, f)]
            ELSE [packed |-> Append(packed, current),
                  current |-> Append(Carried(prefix, current, f), f)]
  BY <1>1 DEF Pack, States
<1> HIDE DEF f, new
<1>6. CASE Fits(prefix, Append(current, f))
  <2> DEFINE longer == Append(current, f)
  <2>1. new = [packing EXCEPT !.current = longer]
    BY <1>5, <1>6
  <2>2. longer \in Seq(Fragments) /\ ToSet(longer) = ToSet(current) \cup {f} /\ Fits(prefix, longer)
    <3>1. longer \in Seq(Fragments) /\ ToSet(longer) = ToSet(current) \cup {f}
      <4> HIDE DEF current
      <4> QED BY <1>1, OneMore
    <3> QED BY <1>6, <3>1
  <2> HIDE DEF longer
  <2>3. new \in States /\ new.packed = packed /\ new.current = longer
    BY <1>1, <2>1, <2>2 DEF States
  <2> HIDE DEF packed, current
  <2>4. ChunksOfFirst(prefix, s, packed, i - 1)
    <3>1. CASE i - 1 = 0
      BY <1>1, <1>2, <3>1 DEF ChunksOfFirst
    <3>2. CASE i - 1 # 0
      <4> DEFINE k == (i - 1) - 1
      <4>1. ChunksOfFirst(prefix, s, packed, k) /\ k \in Nat /\ i - 1 = k + 1
        BY <1>1, <1>2, <3>2
      <4>2. FirstOf(s, k) \subseteq FirstOf(s, k + 1) /\ 1..k \subseteq 1..(k + 1)
        <5> HIDE DEF k
        <5>1. 1..k \subseteq 1..(k + 1)
          BY <4>1
        <5> QED BY <5>1 DEF FirstOf
      <4> HIDE DEF k
      <4>3. ChunksOfFirst(prefix, s, packed, k + 1)
        BY <4>1, <4>2 DEF ChunksOfFirst
      <4> QED BY <4>1, <4>3
    <3> QED BY <3>1, <3>2
  <2>5. /\ f \in ToSet(longer) /\ ToSet(longer) \subseteq FirstOf(s, i)
        /\ FirstOf(s, i) \subseteq Told(packed) \cup ToSet(longer)
    BY <1>3, <1>4, <2>2
  <2>6. new \in PackedOff(prefix, s, i)
    BY <1>1, <2>2, <2>3, <2>4, <2>5 DEF PackedOff, f
  <2> QED BY <2>6 DEF new, f
<1>7. CASE ~ Fits(prefix, Append(current, f))
  <2> DEFINE carried == Carried(prefix, current, f)
             begun == Append(carried, f)
             more == Append(packed, current)
  <2>1. new = [packed |-> more, current |-> begun]
    BY <1>5, <1>7
  <2>2. i - 1 > 0
    <3>1. CASE i - 1 = 0
      <4>1. current = <<>>
        BY <1>2, <3>1
      <4> HIDE DEF current
      <4>2. Append(<<>>, f) = <<f>>
        OBVIOUS
      <4> QED BY <1>1, <1>7, <4>1, <4>2
    <3> QED BY <1>1, <3>1
  <2>3. carried \in Seq(Fragments) /\ ToSet(carried) \subseteq ToSet(current) /\ Fits(prefix, begun)
    <3> HIDE DEF current
    <3> QED BY <1>1, CarriedFits
  <2>4. begun \in Seq(Fragments) /\ ToSet(begun) = ToSet(carried) \cup {f}
    <3> HIDE DEF carried
    <3> QED BY <1>1, <2>3, OneMore
  <2> HIDE DEF carried, begun
  <2>5. ChunksOfFirst(prefix, s, more, i - 1) /\ Told(more) = Told(packed) \cup ToSet(current)
    <3> DEFINE k == (i - 1) - 1
    <3> HIDE DEF packed, current
    <3>1. k \in Nat /\ k + 1 = i - 1
      BY <1>1, <2>2
    <3>2. /\ ChunksOfFirst(prefix, s, packed, k) /\ Fits(prefix, current)
          /\ s[k + 1] \in ToSet(current) /\ ToSet(current) \subseteq FirstOf(s, k + 1)
      BY <1>2, <2>2, <3>1
    <3> HIDE DEF k
    <3>3. OneChunkMore(prefix, s, packed, current, k + 1)
      BY <1>1, <3>1, <3>2, ChunkEnds
    <3> QED BY <3>1, <3>3 DEF OneChunkMore
  <2>6. more \in Seq(Seq(Fragments))
    BY <2>5 DEF ChunksOfFirst
  <2> HIDE DEF more
  <2>7. new \in States /\ new.packed = more /\ new.current = begun
    BY <2>1, <2>4, <2>6 DEF States
  <2>8. /\ f \in ToSet(begun) /\ ToSet(begun) \subseteq FirstOf(s, i)
        /\ FirstOf(s, i) \subseteq Told(more) \cup ToSet(begun)
    BY <1>3, <1>4, <2>3, <2>4, <2>5
  <2>9. new \in PackedOff(prefix, s, i)
    BY <1>1, <2>3, <2>5, <2>7, <2>8 DEF PackedOff, f
  <2> QED BY <2>9 DEF new, f
<1> QED BY <1>6, <1>7

\* The chunks of a section are chunks of its fragments, and of all of them.
LEMMA PackedTells ==
    ASSUME NEW prefix, NEW s \in Seq(Fragments), \A j \in 1..Len(s) : Fits(prefix, <<s[j]>>)
    PROVE  ChunksOfFirst(prefix, s, Packed(prefix, s), Len(s)) /\ Told(Packed(prefix, s)) = ToSet(s)
<1> DEFINE n == Len(s)
           none == [packed |-> <<>>, current |-> <<>>]
           Reached == [i \in 0..n |-> PackedOff(prefix, s, i)]
           steps == [i \in DOMAIN s |-> Pack(prefix, s[i])]
           last == After(steps, none, n)
           chunks == Packed(prefix, s)
<1>1. n \in Nat /\ DOMAIN s = 1..n
  OBVIOUS
<1>2. none \in Reached[0]
  <2>1. none \in States /\ none.packed = <<>> /\ none.current = <<>>
    BY DEF States
  <2>2. none \in PackedOff(prefix, s, 0)
    BY <2>1 DEF PackedOff
  <2> QED BY <1>1, <2>2
<1>3. \A i \in 1..n : \A v \in Reached[i - 1] : steps[i][v] \in Reached[i]
  <2> SUFFICES ASSUME NEW i \in 1..n, NEW v \in Reached[i - 1]
               PROVE  steps[i][v] \in Reached[i]
    OBVIOUS
  <2>1. i \in 0..n /\ i - 1 \in 0..n /\ i \in DOMAIN s
    BY <1>1
  <2>2. v \in PackedOff(prefix, s, i - 1)
    BY <2>1
  <2>3. Pack(prefix, s[i])[v] \in PackedOff(prefix, s, i)
    BY <2>2, PackGoesOn
  <2> QED BY <2>1, <2>3
<1>4. After(steps, none, n) \in Reached[n]
  <2> HIDE DEF steps, Reached, n, none
  <2> QED BY <1>1, <1>2, <1>3, AfterReaches
<1>5. last \in PackedOff(prefix, s, n)
  BY <1>1, <1>4
<1>6. chunks = IF last.current = <<>> THEN last.packed ELSE Append(last.packed, last.current)
  BY DEF Packed
<1> HIDE DEF last, chunks
<1>7. ToSet(s) = FirstOf(s, n)
  BY <1>1 DEF ToSet, FirstOf
<1>8. CASE n = 0
  <2>1. chunks = <<>>
    BY <1>5, <1>6, <1>8 DEF PackedOff
  <2>2. ChunksOfFirst(prefix, s, <<>>, n) /\ Told(<<>>) = {}
    BY DEF ChunksOfFirst, Told
  <2>3. FirstOf(s, n) = {}
    BY <1>8 DEF FirstOf
  <2> QED BY <1>7, <2>1, <2>2, <2>3 DEF chunks
<1>9. CASE n # 0
  <2> DEFINE packed == last.packed
             current == last.current
             k == n - 1
  <2>1. k \in Nat /\ k + 1 = n /\ n > 0
    BY <1>1, <1>9
  <2>2. /\ ChunksOfFirst(prefix, s, packed, k) /\ current \in Seq(Fragments) /\ Fits(prefix, current)
        /\ s[k + 1] \in ToSet(current) /\ ToSet(current) \subseteq FirstOf(s, k + 1)
        /\ FirstOf(s, n) \subseteq Told(packed) \cup ToSet(current)
    BY <1>5, <2>1 DEF PackedOff, States
  <2>3. current # <<>>
    <3>1. ToSet(<<>>) = {}
      BY DEF ToSet
    <3> QED BY <2>2, <3>1
  <2>4. chunks = Append(packed, current)
    BY <1>6, <2>3
  <2> HIDE DEF packed, current, k
  <2>5. OneChunkMore(prefix, s, packed, current, k + 1)
    BY <2>1, <2>2, ChunkEnds
  <2>6. ChunksOfFirst(prefix, s, chunks, n) /\ FirstOf(s, n) \subseteq Told(chunks)
    BY <2>1, <2>2, <2>4, <2>5 DEF OneChunkMore
  <2>7. Told(chunks) \subseteq FirstOf(s, n)
    <3>1. chunks \in Seq(Seq(Fragments)) /\ \A c \in 1..Len(chunks) : ToSet(chunks[c]) \subseteq FirstOf(s, n)
      BY <2>6 DEF ChunksOfFirst
    <3>2. DOMAIN chunks = 1..Len(chunks)
      BY <3>1
    <3> QED BY <3>1, <3>2 DEF Told
  <2> QED BY <1>7, <2>6, <2>7 DEF chunks
<1> QED BY <1>8, <1>9

\* However a section is divided into blocks, and however long they are: when it
\* can be split at all, its chunks fit, each says something new, none of the
\* text is lost, and no character is cut in all the chunks that have a part of it.
LEMMA SplittingLosesNothing ==
    ASSUME NEW prefix \in Nat, NEW S, NEW blocks \in Seq(S),
           \A b \in DOMAIN blocks : ProperBlock(blocks[b])
    PROVE  LosesNothing(prefix, blocks)
<1> DEFINE s == Expanded(prefix, blocks)
           N == Len(blocks)
           chunks == ChunksOfSection(prefix, blocks)
           everything == UNION {{<<b, n>> : n \in DOMAIN blocks[b].text} : b \in DOMAIN blocks}
<1> SUFFICES ASSUME Expandable(prefix, blocks)
             PROVE  /\ \A i \in DOMAIN chunks : Fits(prefix, chunks[i])
                    /\ \A i \in DOMAIN chunks :
                        ~(TokensOfChunk(chunks[i]) \subseteq UNION {TokensOfChunk(chunks[j]) : j \in 1..(i - 1)})
                    /\ UNION {TokensOfChunk(chunks[i]) : i \in DOMAIN chunks} = everything
                    /\ \A b \in DOMAIN blocks : CutsAreCovered(Told(chunks), b, blocks[b].text) =>
                        \A n \in DOMAIN blocks[b].text : IsWhole(Told(chunks), b, blocks[b].text, n)
  BY DEF LosesNothing, Told
<1>1. N \in Nat /\ DOMAIN blocks = 1..N
  OBVIOUS
<1>2. s \in AllPieces(prefix, blocks, N)
  BY ExpandedFills
<1>3. chunks = Packed(prefix, s)
  BY DEF ChunksOfSection
<1> HIDE DEF s, chunks
<1>4. /\ s \in Seq(Fragments) /\ Len(s) \in Nat
      /\ \A j \in 1..Len(s) : IsPiece(prefix, s[j].block, blocks[s[j].block], s[j])
      /\ \A j \in 1..Len(s) : Fits(prefix, <<s[j]>>)
  <2>1. /\ s \in Seq(Fragments)
        /\ \A j \in 1..Len(s) : IsPiece(prefix, s[j].block, blocks[s[j].block], s[j])
    BY <1>2 DEF AllPieces
  <2>2. \A j \in 1..Len(s) : Fits(prefix, <<s[j]>>)
    BY <2>1 DEF IsPiece
  <2>3. Len(s) \in Nat
    BY <2>1
  <2> QED BY <2>1, <2>2, <2>3
<1>5. ChunksOfFirst(prefix, s, chunks, Len(s)) /\ Told(chunks) = ToSet(s)
  BY <1>3, <1>4, PackedTells
<1>6. DOMAIN chunks = 1..Len(chunks) /\ Len(chunks) \in Nat
  BY <1>5 DEF ChunksOfFirst
<1>7. \A i \in DOMAIN chunks : Fits(prefix, chunks[i])
  BY <1>5, <1>6 DEF ChunksOfFirst
<1>8. ASSUME NEW i \in DOMAIN chunks,
             TokensOfChunk(chunks[i]) \subseteq UNION {TokensOfChunk(chunks[j]) : j \in 1..(i - 1)}
      PROVE  FALSE
  <2>1. PICK k \in 1..Len(s) :
            s[k] \in ToSet(chunks[i]) /\ \A d \in 1..(i - 1) : ToSet(chunks[d]) \subseteq FirstOf(s, k - 1)
    BY <1>5, <1>6 DEF ChunksOfFirst
  <2> DEFINE x == <<s[k].block, s[k].to>>
  <2>2. s[k].from \in Nat /\ s[k].to \in Nat /\ s[k].block \in Nat /\ s[k].from < s[k].to
    BY <1>4, PieceIsFragment DEF IsPiece
  <2>3. x \in TokensOfFragment(s[k])
    <3>1. s[k].to \in (s[k].from + 1)..s[k].to
      BY <2>2
    <3> QED BY <3>1 DEF TokensOfFragment
  <2>4. x \in TokensOfChunk(chunks[i])
    BY <2>1, <2>3 DEF TokensOfChunk
  <2>5. PICK d \in 1..(i - 1) : x \in TokensOfChunk(chunks[d])
    BY <1>8, <2>4
  <2>6. PICK f \in ToSet(chunks[d]) : x \in TokensOfFragment(f)
    BY <2>5 DEF TokensOfChunk
  <2>7. PICK j \in 1..(k - 1) : f = s[j]
    BY <2>1, <2>6 DEF FirstOf
  <2>8. j \in 1..Len(s)
    BY <1>4
  <2>9. f.from \in Nat /\ f.to \in Nat /\ f.block \in Nat
    BY <1>4, <2>7, <2>8, PieceIsFragment
  <2>10. f.block = s[k].block /\ s[k].to \in (f.from + 1)..f.to
    BY <2>6 DEF TokensOfFragment
  <2>11. ReachesLess(f, s[k])
    BY <1>1, <1>2, <2>7, LaterReachesFarther
  <2> QED BY <2>2, <2>9, <2>10, <2>11 DEF ReachesLess
<1>9. UNION {TokensOfChunk(chunks[i]) : i \in DOMAIN chunks} = everything
  <2>1. UNION {TokensOfChunk(chunks[i]) : i \in DOMAIN chunks} = UNION {TokensOfFragment(f) : f \in Told(chunks)}
    BY DEF TokensOfChunk, Told
  <2>2. UNION {TokensOfFragment(f) : f \in ToSet(s)}
            = UNION {{<<b, n>> : n \in DOMAIN blocks[b].text} : b \in 1..N}
    <3> HIDE DEF N
    <3> QED BY <1>1, <1>2, EveryTokenIsThere
  <2> QED BY <1>1, <1>5, <2>1, <2>2
<1>10. ASSUME NEW b \in DOMAIN blocks, CutsAreCovered(Told(chunks), b, blocks[b].text),
              NEW n \in DOMAIN blocks[b].text
       PROVE  IsWhole(Told(chunks), b, blocks[b].text, n)
  <2>1. b \in 1..N /\ CutsAreCovered(ToSet(s), b, blocks[b].text) /\ \A c \in 1..N : ProperBlock(blocks[c])
    BY <1>1, <1>5, <1>10
  <2>2. IsWhole(ToSet(s), b, blocks[b].text, n)
    <3> HIDE DEF N
    <3> QED BY <1>1, <1>2, <2>1, CharactersAreWhole
  <2> QED BY <1>5, <2>2
<1> QED BY <1>7, <1>8, <1>9, <1>10

-----------------------------------------------------------------------------
(* The fusion of two rankings.                                             *)

\* No earlier id of the list has the same key.
IsFirst(key, list, j) == \A k \in 1..(j - 1) : key[list[k]] # key[list[j]]

\* What may be kept of the first i ids: the first of each key, in their order.
Kept(key, list, i) ==
    {s \in Seq(Items) :
        /\ \A a \in 1..Len(s) : \E j \in 1..i : IsFirst(key, list, j) /\ s[a] = list[j]
        /\ \A b \in 1..Len(s) : \A a \in 1..(b - 1) :
            \E k \in 1..i : \E j \in 1..(k - 1) :
                IsFirst(key, list, j) /\ IsFirst(key, list, k) /\ s[a] = list[j] /\ s[b] = list[k]
        /\ \A j \in 1..i : \E a \in 1..Len(s) : key[s[a]] = key[list[j]]}

LEMMA KeepGoesOn ==
    ASSUME NEW key, NEW list \in Seq(Items), NEW i \in 1..Len(list), NEW s \in Kept(key, list, i - 1)
    PROVE  Keep(key, list[i])[s] \in Kept(key, list, i)
<1> DEFINE x == list[i]
           L == Len(s)
<1>1. i \in Nat /\ Len(list) \in Nat /\ x \in Items
  OBVIOUS
<1>2. /\ s \in Seq(Items) /\ L \in Nat /\ DOMAIN s = 1..L
      /\ \A a \in 1..L : \E j \in 1..(i - 1) : IsFirst(key, list, j) /\ s[a] = list[j]
      /\ \A b \in 1..L : \A a \in 1..(b - 1) :
            \E k \in 1..(i - 1) : \E j \in 1..(k - 1) :
                IsFirst(key, list, j) /\ IsFirst(key, list, k) /\ s[a] = list[j] /\ s[b] = list[k]
      /\ \A j \in 1..(i - 1) : \E a \in 1..L : key[s[a]] = key[list[j]]
  <2>1. s \in Seq(Items)
    BY DEF Kept
  <2>2. L \in Nat /\ DOMAIN s = 1..L
    BY <2>1
  <2> QED BY <2>1, <2>2 DEF Kept
<1>3. 1..(i - 1) \subseteq 1..i /\ \A j \in 1..i : j = i \/ j \in 1..(i - 1)
  BY <1>1
<1>4. Keep(key, x)[s] = IF \E y \in ToSet(s) : key[y] = key[x] THEN s ELSE Append(s, x)
  BY <1>2 DEF Keep
<1> HIDE DEF x
<1>5. CASE \E y \in ToSet(s) : key[y] = key[x]
  <2>1. \E a \in 1..L : key[s[a]] = key[x]
    <3>1. PICK y \in ToSet(s) : key[y] = key[x]
      BY <1>5
    <3>2. PICK a \in 1..L : y = s[a]
      BY <1>2 DEF ToSet
    <3> QED BY <3>1, <3>2
  <2>2. \A j \in 1..i : \E c \in 1..L : key[s[c]] = key[list[j]]
    BY <1>2, <1>3, <2>1 DEF x
  <2>3. \A c \in 1..L : \E j \in 1..i : IsFirst(key, list, j) /\ s[c] = list[j]
    BY <1>2, <1>3
  <2>4. \A b \in 1..L : \A c \in 1..(b - 1) :
            \E k \in 1..i : \E j \in 1..(k - 1) :
                IsFirst(key, list, j) /\ IsFirst(key, list, k) /\ s[c] = list[j] /\ s[b] = list[k]
    BY <1>2, <1>3
  <2>5. s \in Kept(key, list, i)
    BY <1>2, <2>2, <2>3, <2>4 DEF Kept
  <2> QED BY <1>4, <1>5, <2>5 DEF x
<1>6. CASE ~ \E y \in ToSet(s) : key[y] = key[x]
  <2> DEFINE t == Append(s, x)
  <2>1. /\ t \in Seq(Items) /\ Len(t) = L + 1 /\ t[L + 1] = x
        /\ \A a \in 1..L : t[a] = s[a]
    BY <1>1, <1>2, Appended
  <2> HIDE DEF t
  <2>2. \A a \in 1..L : key[s[a]] # key[x]
    BY <1>2, <1>6 DEF ToSet
  <2>3. IsFirst(key, list, i)
    <3> SUFFICES ASSUME NEW k \in 1..(i - 1) PROVE key[list[k]] # key[x]
      BY DEF IsFirst, x
    <3>1. PICK a \in 1..L : key[s[a]] = key[list[k]]
      BY <1>2
    <3> QED BY <2>2, <3>1
  <2>4. \A a \in 1..(L + 1) : a = L + 1 \/ a \in 1..L
    BY <1>2
  <2>5. ASSUME NEW a \in 1..(L + 1)
        PROVE  \E j \in 1..i : IsFirst(key, list, j) /\ t[a] = list[j]
    <3>1. CASE a = L + 1
      BY <1>1, <2>1, <2>3, <3>1 DEF x
    <3>2. CASE a \in 1..L
      <4>1. PICK j \in 1..(i - 1) : IsFirst(key, list, j) /\ s[a] = list[j]
        BY <1>2, <3>2
      <4>2. j \in 1..i /\ t[a] = s[a]
        BY <1>3, <2>1, <3>2
      <4> QED BY <4>1, <4>2
    <3> QED BY <2>4, <3>1, <3>2
  <2>6. ASSUME NEW b \in 1..(L + 1), NEW a \in 1..(b - 1)
        PROVE  \E k \in 1..i : \E j \in 1..(k - 1) :
                    IsFirst(key, list, j) /\ IsFirst(key, list, k) /\ t[a] = list[j] /\ t[b] = list[k]
    <3>1. a \in 1..L
      BY <1>2
    <3>2. CASE b = L + 1
      <4>1. PICK j \in 1..(i - 1) : IsFirst(key, list, j) /\ s[a] = list[j]
        BY <1>2, <3>1
      <4>2. i \in 1..i /\ t[b] = list[i] /\ t[a] = list[j]
        BY <1>1, <2>1, <3>1, <3>2, <4>1 DEF x
      <4> QED BY <2>3, <4>1, <4>2
    <3>3. CASE b \in 1..L
      <4>1. PICK k \in 1..(i - 1) : \E j \in 1..(k - 1) :
                IsFirst(key, list, j) /\ IsFirst(key, list, k) /\ s[a] = list[j] /\ s[b] = list[k]
        BY <1>2, <3>3
      <4>2. k \in 1..i /\ t[a] = s[a] /\ t[b] = s[b]
        BY <1>3, <2>1, <3>1, <3>3, <4>1
      <4> QED BY <4>1, <4>2
    <3> QED BY <2>4, <3>2, <3>3
  <2>7. ASSUME NEW j \in 1..i PROVE \E a \in 1..(L + 1) : key[t[a]] = key[list[j]]
    <3>1. CASE j = i
      <4>1. L + 1 \in 1..(L + 1)
        BY <1>2
      <4> QED BY <2>1, <3>1, <4>1 DEF x
    <3>2. CASE j \in 1..(i - 1)
      <4>1. PICK a \in 1..L : key[s[a]] = key[list[j]]
        BY <1>2, <3>2
      <4>2. a \in 1..(L + 1) /\ t[a] = s[a]
        BY <1>2, <2>1
      <4> QED BY <4>1, <4>2
    <3> QED BY <1>3, <3>1, <3>2
  <2>8. t \in Kept(key, list, i)
    BY <2>1, <2>5, <2>6, <2>7 DEF Kept
  <2> QED BY <1>4, <1>6, <2>8 DEF t, x
<1> QED BY <1>5, <1>6

LEMMA FirstsAreKept ==
    ASSUME NEW key, NEW list \in Seq(Items)
    PROVE  Firsts(key, list) \in Kept(key, list, Len(list))
<1> DEFINE n == Len(list)
           Reached == [i \in 0..n |-> Kept(key, list, i)]
           steps == [i \in DOMAIN list |-> Keep(key, list[i])]
<1>1. n \in Nat /\ DOMAIN list = 1..n
  OBVIOUS
<1>2. <<>> \in Reached[0]
  <2>1. <<>> \in Seq(Items) /\ Len(<<>>) = 0 /\ 1..0 = {}
    OBVIOUS
  <2>2. <<>> \in Kept(key, list, 0)
    BY <2>1 DEF Kept
  <2> QED BY <1>1, <2>2
<1>3. \A i \in 1..n : \A v \in Reached[i - 1] : steps[i][v] \in Reached[i]
  <2> SUFFICES ASSUME NEW i \in 1..n, NEW v \in Reached[i - 1]
               PROVE  steps[i][v] \in Reached[i]
    OBVIOUS
  <2>1. i \in 0..n /\ i - 1 \in 0..n /\ i \in DOMAIN list
    BY <1>1
  <2>2. v \in Kept(key, list, i - 1)
    BY <2>1
  <2>3. Keep(key, list[i])[v] \in Kept(key, list, i)
    BY <2>2, KeepGoesOn
  <2> QED BY <2>1, <2>3
<1>4. After(steps, <<>>, n) \in Reached[n]
  <2> HIDE DEF steps, Reached, n
  <2> QED BY <1>1, <1>2, <1>3, AfterReaches
<1>5. n \in 0..n
  BY <1>1
<1> QED BY <1>4, <1>5 DEF Firsts

\* What is kept has each key once.
LEMMA KeptOnce ==
    ASSUME NEW key, NEW list \in Seq(Items), NEW s \in Kept(key, list, Len(list)),
           NEW a \in 1..Len(s), NEW b \in 1..Len(s), key[s[a]] = key[s[b]]
    PROVE  a = b
<1>1. a \in Nat /\ b \in Nat
  BY DEF Kept
<1>2. ASSUME NEW d \in 1..Len(s), NEW c \in 1..(d - 1) PROVE key[s[c]] # key[s[d]]
  <2>1. PICK k \in 1..Len(list) : \E j \in 1..(k - 1) :
            IsFirst(key, list, k) /\ s[c] = list[j] /\ s[d] = list[k]
    BY DEF Kept
  <2> QED BY <2>1 DEF IsFirst
<1>3. CASE a < b
  <2>1. a \in 1..(b - 1)
    BY <1>1, <1>3
  <2> QED BY <1>2, <2>1
<1>4. CASE b < a
  <2>1. b \in 1..(a - 1)
    BY <1>1, <1>4
  <2> QED BY <1>2, <2>1
<1> QED BY <1>1, <1>3, <1>4

-----------------------------------------------------------------------------
(* The ranks of a list.                                                    *)

\* In a list without repetitions, to be ahead is to be earlier.
LEMMA AheadIsEarlier ==
    ASSUME NEW s \in Seq(Items), \A a, b \in 1..Len(s) : s[a] = s[b] => a = b,
           NEW a \in 1..Len(s), NEW b \in 1..Len(s)
    PROVE  Ahead(s, s[a], s[b]) <=> a < b
<1>1. DOMAIN s = 1..Len(s) /\ Len(s) \in Nat /\ a \in Nat /\ b \in Nat
  OBVIOUS
<1>2. ASSUME a < b PROVE Ahead(s, s[a], s[b])
  <2>1. \A j \in 1..a : s[j] # s[b]
    <3> SUFFICES ASSUME NEW j \in 1..a PROVE s[j] # s[b]
      OBVIOUS
    <3>1. j \in 1..Len(s) /\ j # b
      BY <1>1, <1>2
    <3> QED BY <3>1
  <2> QED BY <1>1, <2>1 DEF Ahead
<1>3. ASSUME Ahead(s, s[a], s[b]) PROVE a < b
  <2>1. PICK i \in 1..Len(s) : s[i] = s[a] /\ \A j \in 1..i : s[j] # s[b]
    BY <1>1, <1>3 DEF Ahead
  <2>2. i = a
    BY <2>1
  <2>3. b \notin 1..a
    BY <2>1, <2>2
  <2> QED BY <1>1, <2>3
<1> QED BY <1>2, <1>3

\* The ranks of the ids of a list.
RankIs(list, x, a) == a \in 1..Len(Distinct(list)) /\ Distinct(list)[a] = x /\ RankIn(list, x) = a

LEMMA DistinctIds ==
    ASSUME NEW list \in Seq(Items)
    PROVE  /\ Distinct(list) \in Seq(Items) /\ ToSet(Distinct(list)) = ToSet(list)
           /\ \A a, b \in 1..Len(Distinct(list)) : Distinct(list)[a] = Distinct(list)[b] => a = b
<1> DEFINE same == [x \in Items |-> x]
           s == Distinct(list)
<1>1. s \in Kept(same, list, Len(list))
  BY FirstsAreKept DEF Distinct
<1> HIDE DEF s
<1>2. /\ s \in Seq(Items) /\ Len(s) \in Nat /\ DOMAIN s = 1..Len(s)
      /\ \A a \in 1..Len(s) : s[a] \in Items
  BY <1>1 DEF Kept
<1>3. DOMAIN list = 1..Len(list) /\ \A j \in 1..Len(list) : list[j] \in Items
  OBVIOUS
<1>4. ToSet(s) \subseteq ToSet(list)
  <2> SUFFICES ASSUME NEW a \in 1..Len(s) PROVE s[a] \in ToSet(list)
    BY <1>2 DEF ToSet
  <2>1. PICK j \in 1..Len(list) : s[a] = list[j]
    BY <1>1 DEF Kept
  <2> QED BY <1>3, <2>1 DEF ToSet
<1>5. ToSet(list) \subseteq ToSet(s)
  <2> SUFFICES ASSUME NEW j \in 1..Len(list) PROVE list[j] \in ToSet(s)
    BY <1>3 DEF ToSet
  <2>1. PICK a \in 1..Len(s) : same[s[a]] = same[list[j]]
    BY <1>1 DEF Kept
  <2> QED BY <1>2, <1>3, <2>1 DEF ToSet
<1>6. \A a, b \in 1..Len(s) : s[a] = s[b] => a = b
  <2> SUFFICES ASSUME NEW a \in 1..Len(s), NEW b \in 1..Len(s), s[a] = s[b] PROVE a = b
    OBVIOUS
  <2>1. same[s[a]] = same[s[b]]
    OBVIOUS
  <2> HIDE DEF same
  <2> QED BY <1>1, <2>1, KeptOnce
<1> QED BY <1>2, <1>4, <1>5, <1>6 DEF s

LEMMA ListedHasRank ==
    ASSUME NEW list \in Seq(Items), NEW x \in ToSet(list)
    PROVE  \E a \in 1..Len(Distinct(list)) : RankIs(list, x, a)
<1> DEFINE s == Distinct(list)
<1>1. s \in Seq(Items) /\ ToSet(s) = ToSet(list) /\ \A a, b \in 1..Len(s) : s[a] = s[b] => a = b
  BY DistinctIds
<1>2. RankIn(list, x) = CHOOSE i \in DOMAIN s : s[i] = x
  BY DEF RankIn
<1> HIDE DEF s
<1>3. DOMAIN s = 1..Len(s)
  BY <1>1
<1>4. PICK a \in 1..Len(s) : s[a] = x
  BY <1>1, <1>3 DEF ToSet
<1>5. (CHOOSE i \in DOMAIN s : s[i] = x) = a
  BY <1>1, <1>3, <1>4
<1> QED BY <1>2, <1>4, <1>5 DEF RankIs, s

\* The rank of an id is a number, 0 if it is not listed.
LEMMA RankIsNumber ==
    ASSUME NEW list \in Seq(Items), NEW x
    PROVE  RankIn(list, x) \in Nat /\ (RankIn(list, x) = 0 <=> x \notin ToSet(list))
<1>1. CASE x \in ToSet(list)
  <2>1. PICK a \in 1..Len(Distinct(list)) : RankIs(list, x, a)
    BY <1>1, ListedHasRank
  <2>2. RankIn(list, x) = a /\ a \in Nat /\ a > 0
    BY <2>1 DEF RankIs
  <2> QED BY <1>1, <2>2
<1>2. CASE x \notin ToSet(list)
  BY <1>2 DEF RankIn
<1> QED BY <1>1, <1>2

\* An id that is ahead of another has the lower rank.
LEMMA AheadRanksBetter ==
    ASSUME NEW list \in Seq(Items), NEW x, NEW y, Ahead(list, x, y)
    PROVE  /\ x # y /\ RankIn(list, x) > 0
           /\ RankIn(list, y) # 0 => RankIn(list, x) < RankIn(list, y)
<1> DEFINE same == [z \in Items |-> z]
           s == Distinct(list)
<1>1. DOMAIN list = 1..Len(list) /\ Len(list) \in Nat /\ \A j \in 1..Len(list) : list[j] \in Items
  OBVIOUS
<1>2. PICK i \in 1..Len(list) : list[i] = x /\ \A j \in 1..i : list[j] # y
  BY <1>1 DEF Ahead
<1>3. x # y /\ x \in ToSet(list)
  BY <1>1, <1>2 DEF ToSet
<1>4. PICK a \in 1..Len(s) : RankIs(list, x, a)
  BY <1>3, ListedHasRank
<1>5. s \in Kept(same, list, Len(list))
  BY FirstsAreKept DEF Distinct
<1>6. a \in Nat /\ a > 0 /\ RankIn(list, x) = a /\ s[a] = x
  BY <1>4 DEF RankIs
<1>7. ASSUME RankIn(list, y) # 0 PROVE a < RankIn(list, y)
  <2>1. y \in ToSet(list)
    BY <1>7, RankIsNumber
  <2>2. PICK b \in 1..Len(s) : RankIs(list, y, b)
    BY <2>1, ListedHasRank
  <2>3. b \in Nat /\ RankIn(list, y) = b /\ s[b] = y
    BY <2>2 DEF RankIs
  <2> HIDE DEF s
  <2>4. ASSUME b < a PROVE FALSE
    <3>1. b \in 1..(a - 1)
      BY <1>6, <2>2, <2>3, <2>4
    <3>2. PICK k \in 1..Len(list) : \E j \in 1..(k - 1) :
              IsFirst(same, list, k) /\ s[b] = list[j] /\ s[a] = list[k]
      BY <1>4, <1>5, <3>1 DEF Kept
    <3>3. PICK j \in 1..(k - 1) : y = list[j]
      BY <2>3, <3>2
    <3>4. list[k] = x /\ IsFirst(same, list, k)
      BY <1>6, <3>2
    <3>5. i < k
      <4>1. j \notin 1..i
        BY <1>2, <3>3
      <4> QED BY <1>1, <3>3, <4>1
    <3>6. i \in 1..(k - 1)
      BY <1>1, <3>5
    <3>7. same[list[i]] # same[list[k]]
      BY <3>4, <3>6 DEF IsFirst
    <3> QED BY <1>1, <1>2, <3>4, <3>7
  <2>5. a # b
    BY <1>3, <1>6, <2>3
  <2> QED BY <1>6, <2>3, <2>4, <2>5
<1> QED BY <1>3, <1>6, <1>7

-----------------------------------------------------------------------------
(* Scores, and their order.                                                *)

\* Fractions as Score makes them.
Fractions == (Nat \ {0}) \X (Nat \ {0})

LEMMA ProductGrows ==
    ASSUME NEW a \in Nat, NEW b \in Nat, NEW c \in Nat \ {0}
    PROVE  a < b <=> a * c < b * c
<1>1. ASSUME a < b PROVE a * c < b * c
  <2>1. PICK d \in Nat \ {0} : b = a + d
    <3>1. b - a \in Nat \ {0} /\ b = a + (b - a)
      BY <1>1
    <3> QED BY <3>1
  <2>2. b * c = a * c + d * c /\ d * c \in Nat /\ d * c > 0 /\ a * c \in Nat
    BY <2>1
  <2> QED BY <2>2
<1>2. ASSUME ~(a < b) PROVE ~(a * c < b * c)
  <2>1. PICK d \in Nat : a = b + d
    <3>1. a - b \in Nat /\ a = b + (a - b)
      BY <1>2
    <3> QED BY <3>1
  <2>2. a * c = b * c + d * c /\ d * c \in Nat /\ b * c \in Nat
    BY <2>1
  <2> QED BY <2>2
<1> QED BY <1>1, <1>2

LEMMA Products ==
    ASSUME NEW a \in Nat \ {0}, NEW b \in Nat \ {0}, NEW c \in Nat \ {0}
    PROVE  /\ a * b \in Nat \ {0} /\ a * b = b * a
           /\ (a * b) * c = (a * c) * b /\ (a * b) * c = a * (b * c)
  OBVIOUS

\* The order of fractions is one: what is not greater than what is not greater
\* is not greater.
LEMMA GreaterIsTransitive ==
    ASSUME NEW p \in Fractions, NEW q \in Fractions, NEW r \in Fractions,
           ~Greater(q, p), ~Greater(r, q)
    PROVE  /\ ~Greater(r, p)
           /\ Greater(p, q) \/ Greater(q, r) => Greater(p, r)
<1> DEFINE a == p[1]
           b == p[2]
           c == q[1]
           d == q[2]
           e == r[1]
           f == r[2]
<1>1. /\ a \in Nat \ {0} /\ b \in Nat \ {0} /\ c \in Nat \ {0}
      /\ d \in Nat \ {0} /\ e \in Nat \ {0} /\ f \in Nat \ {0}
  BY DEF Fractions
<1>2. /\ ~(c * b > a * d) /\ ~(e * d > c * f)
      /\ Greater(r, p) <=> e * b > a * f
      /\ Greater(p, q) <=> a * d > c * b
      /\ Greater(q, r) <=> c * f > e * d
      /\ Greater(p, r) <=> a * f > e * b
  BY DEF Greater
<1> HIDE DEF a, b, c, d, e, f
<1> DEFINE ad == a * d
           cb == c * b
           cf == c * f
           ed == e * d
           af == a * f
           eb == e * b
<1>3. /\ ad \in Nat \ {0} /\ cb \in Nat \ {0} /\ cf \in Nat \ {0}
      /\ ed \in Nat \ {0} /\ af \in Nat \ {0} /\ eb \in Nat \ {0}
  BY <1>1, Products
<1>4. ad * f = af * d /\ cb * f = cf * b /\ ed * b = eb * d
  BY <1>1, Products
<1>5. /\ ~(cb > ad) /\ ~(ed > cf)
      /\ Greater(r, p) <=> eb > af
      /\ Greater(p, q) <=> ad > cb
      /\ Greater(q, r) <=> cf > ed
      /\ Greater(p, r) <=> af > eb
  BY <1>2
<1> HIDE DEF ad, cb, cf, ed, af, eb
<1>6. /\ ad < cb <=> ad * f < cb * f
      /\ cb < ad <=> cb * f < ad * f
      /\ cf < ed <=> cf * b < ed * b
      /\ ed < cf <=> ed * b < cf * b
      /\ eb < af <=> eb * d < af * d
      /\ af < eb <=> af * d < eb * d
  BY <1>1, <1>3, ProductGrows
<1> DEFINE x == af * d
           y == cf * b
           z == eb * d
<1>7. x \in Nat /\ y \in Nat /\ z \in Nat
  BY <1>1, <1>3, Products
<1>8. /\ ~(x < y) /\ ~(y < z)
      /\ Greater(p, q) <=> y < x
      /\ Greater(q, r) <=> z < y
      /\ Greater(p, r) <=> z < x
      /\ Greater(r, p) <=> x < z
  <2>1. /\ cb > ad <=> ad < cb
        /\ ed > cf <=> cf < ed
        /\ eb > af <=> af < eb
        /\ ad > cb <=> cb < ad
        /\ cf > ed <=> ed < cf
        /\ af > eb <=> eb < af
    BY <1>3
  <2>2. ad * f = x /\ cb * f = y /\ cf * b = y /\ ed * b = z
    BY <1>4
  <2> HIDE DEF x, y, z
  <2>3. ad < cb <=> x < y
    BY <1>6, <2>2
  <2>4. cb < ad <=> y < x
    BY <1>6, <2>2
  <2>5. cf < ed <=> y < z
    BY <1>6, <2>2
  <2>6. ed < cf <=> z < y
    BY <1>6, <2>2
  <2>7. (eb < af <=> z < x) /\ (af < eb <=> x < z)
    BY <1>6 DEF x, z
  <2> QED BY <1>5, <2>1, <2>3, <2>4, <2>5, <2>6, <2>7
<1> HIDE DEF x, y, z
<1>9. ~(x < z) /\ (y < x \/ z < y => z < x)
  BY <1>7, <1>8
<1> QED BY <1>8, <1>9

\* A score is a fraction.
LEMMA ScoreIsFraction ==
    ASSUME NEW vector \in Seq(Items), NEW lexical \in Seq(Items), NEW x
    PROVE  Score(vector, lexical, x) \in Fractions
<1> DEFINE v == RankIn(vector, x)
           l == RankIn(lexical, x)
<1>1. v \in Nat /\ l \in Nat /\ K \in Nat \ {0}
  BY RankIsNumber, FusionAssumption
<1>2. Score(vector, lexical, x) = IF l = 0 THEN <<1, K + v>>
                                  ELSE IF v = 0 THEN <<1, K + l>>
                                  ELSE <<(K + l) + (K + v), (K + v) * (K + l)>>
  BY DEF Score
<1> HIDE DEF v, l
<1>3. K + v \in Nat \ {0} /\ K + l \in Nat \ {0} /\ (K + l) + (K + v) \in Nat \ {0}
  BY <1>1
<1>4. (K + v) * (K + l) \in Nat \ {0}
  BY <1>3, Products
<1> QED BY <1>2, <1>3, <1>4 DEF Fractions

\* The sum of two unit fractions is greater than one with greater denominators,
\* or than one unit fraction with a greater denominator than either.
LEMMA SumIsGreater ==
    ASSUME NEW a \in Nat \ {0}, NEW b \in Nat \ {0}, NEW c \in Nat \ {0}, NEW d \in Nat \ {0}
    PROVE  /\ a < c => Greater(<<1, a>>, <<1, c>>)
           /\ a < c \/ b < c => Greater(<<b + a, a * b>>, <<1, c>>)
           /\ a < c /\ b < d => Greater(<<b + a, a * b>>, <<d + c, c * d>>)
<1> DEFINE ab == a * b
           ac == a * c
           bc == b * c
           cd == c * d
<1>1. ab \in Nat \ {0} /\ ac \in Nat \ {0} /\ bc \in Nat \ {0} /\ cd \in Nat \ {0}
      /\ b * a = ab
  BY Products
<1>2. a < c => Greater(<<1, a>>, <<1, c>>)
  BY DEF Greater
<1>3. ASSUME a < c \/ b < c PROVE Greater(<<b + a, ab>>, <<1, c>>)
  <2>1. (b + a) * c = bc + ac
    OBVIOUS
  <2>2. a < c => ab < bc
    <3>1. a < c <=> a * b < c * b
      BY ProductGrows
    <3>2. c * b = bc
      BY Products
    <3> QED BY <3>1, <3>2
  <2>3. b < c => ab < ac
    <3>1. b < c <=> b * a < c * a
      BY ProductGrows
    <3>2. c * a = ac
      BY Products
    <3> QED BY <1>1, <3>1, <3>2
  <2> HIDE DEF ab, bc, ac
  <2>4. ab * 1 < bc + ac
    BY <1>1, <1>3, <2>2, <2>3
  <2> QED BY <1>1, <2>1, <2>4 DEF Greater
<1>4. ASSUME a < c, b < d PROVE Greater(<<b + a, ab>>, <<d + c, cd>>)
  <2> DEFINE bcd == b * cd
             acd == a * cd
             dab == d * ab
             cab == c * ab
  <2>1. /\ (b + a) * cd = bcd + acd
        /\ ab * (d + c) = dab + cab
    <3>1. cd \in Nat /\ ab \in Nat
      BY <1>1
    <3> HIDE DEF ab, cd
    <3> QED BY <3>1
  <2>2. /\ bcd \in Nat /\ acd \in Nat /\ dab \in Nat /\ cab \in Nat
    BY <1>1
  <2>3. dab < bcd
    <3>1. ab < bc
      <4>1. a * b < c * b
        BY <1>4, ProductGrows
      <4>2. c * b = bc
        BY Products
      <4> QED BY <4>1, <4>2
    <3>2. d * ab = ab * d /\ bc * d = bcd
      BY <1>1, Products
    <3> HIDE DEF ab, bc, bcd
    <3>3. ab * d < bc * d
      BY <1>1, <3>1, ProductGrows
    <3> QED BY <3>2, <3>3
  <2>4. cab < acd
    <3> DEFINE ad == a * d
    <3>1. ab < ad
      <4>1. b * a < d * a
        BY <1>4, ProductGrows
      <4>2. d * a = ad
        BY Products
      <4> QED BY <1>1, <4>1, <4>2
    <3>2. c * ab = ab * c
      BY <1>1, Products
    <3>3. ad * c = acd
      <4>1. ad * c = a * (d * c) /\ d * c = cd
        BY Products
      <4> QED BY <4>1
    <3>4. ad \in Nat \ {0}
      BY Products
    <3> HIDE DEF ab, ad, acd
    <3>5. ab * c < ad * c
      BY <1>1, <3>1, <3>4, ProductGrows
    <3> QED BY <3>2, <3>3, <3>5
  <2> HIDE DEF bcd, acd, dab, cab
  <2>5. dab + cab < bcd + acd
    BY <2>2, <2>3, <2>4
  <2> QED BY <2>1, <2>5 DEF Greater
<1> QED BY <1>2, <1>3, <1>4

-----------------------------------------------------------------------------
(* The order of the fusion.                                                *)

\* Before is a strict total order of the ids.
LEMMA BeforeIsOrder ==
    ASSUME NEW vector \in Seq(Items), NEW lexical \in Seq(Items),
           NEW x \in Items, NEW y \in Items, NEW z \in Items
    PROVE  /\ ~Before(vector, lexical, x, x)
           /\ x # y => Before(vector, lexical, x, y) \/ Before(vector, lexical, y, x)
           /\ Before(vector, lexical, x, y) /\ Before(vector, lexical, y, z)
                => Before(vector, lexical, x, z)
<1> DEFINE p == Score(vector, lexical, x)
           q == Score(vector, lexical, y)
           r == Score(vector, lexical, z)
<1>1. p \in Fractions /\ q \in Fractions /\ r \in Fractions
  BY ScoreIsFraction
<1>2. /\ TieOrder[x] \in Nat /\ TieOrder[y] \in Nat /\ TieOrder[z] \in Nat
      /\ TieOrder[x] = TieOrder[y] => x = y
  BY FusionAssumption
<1>3. /\ Before(vector, lexical, x, y) <=> Greater(p, q) \/ (~Greater(q, p) /\ TieOrder[x] < TieOrder[y])
      /\ Before(vector, lexical, y, x) <=> Greater(q, p) \/ (~Greater(p, q) /\ TieOrder[y] < TieOrder[x])
      /\ Before(vector, lexical, y, z) <=> Greater(q, r) \/ (~Greater(r, q) /\ TieOrder[y] < TieOrder[z])
      /\ Before(vector, lexical, x, z) <=> Greater(p, r) \/ (~Greater(r, p) /\ TieOrder[x] < TieOrder[z])
      /\ Before(vector, lexical, x, x) <=> Greater(p, p) \/ (~Greater(p, p) /\ TieOrder[x] < TieOrder[x])
  BY DEF Before
<1> HIDE DEF p, q, r
<1>4. ~(Greater(p, q) /\ Greater(q, p)) /\ ~(Greater(q, r) /\ Greater(r, q)) /\ ~Greater(p, p)
  <2>1. ASSUME NEW f \in Fractions, NEW g \in Fractions PROVE ~(Greater(f, g) /\ Greater(g, f))
    <3>1. f[1] * g[2] \in Nat /\ g[1] * f[2] \in Nat
      BY DEF Fractions
    <3> QED BY <3>1 DEF Greater
  <2> QED BY <1>1, <2>1
<1>5. ~Greater(q, p) /\ ~Greater(r, q) =>
        ~Greater(r, p) /\ (Greater(p, q) \/ Greater(q, r) => Greater(p, r))
  BY <1>1, GreaterIsTransitive
<1>6. ~Before(vector, lexical, x, x)
  BY <1>2, <1>3, <1>4
<1>7. x # y => Before(vector, lexical, x, y) \/ Before(vector, lexical, y, x)
  BY <1>2, <1>3, <1>4
<1>8. ASSUME Before(vector, lexical, x, y), Before(vector, lexical, y, z)
      PROVE  Before(vector, lexical, x, z)
  BY <1>2, <1>3, <1>4, <1>5, <1>8
<1> QED BY <1>6, <1>7, <1>8

\* An id that is ahead of another in one list, and not behind it in the other,
\* comes before it.
LEMMA DominantIsBefore ==
    ASSUME NEW vector \in Seq(Items), NEW lexical \in Seq(Items),
           NEW x, NEW y \in ToSet(vector) \cup ToSet(lexical),
           NotBehind(vector, x, y), NotBehind(lexical, x, y),
           Ahead(vector, x, y) \/ Ahead(lexical, x, y)
    PROVE  x # y /\ Before(vector, lexical, x, y)
<1> DEFINE v == RankIn(vector, x)
           l == RankIn(lexical, x)
           w == RankIn(vector, y)
           m == RankIn(lexical, y)
<1>1. /\ v \in Nat /\ l \in Nat /\ w \in Nat /\ m \in Nat /\ K \in Nat \ {0}
      /\ w # 0 \/ m # 0
  <2>1. K \in Nat \ {0}
    BY FusionAssumption
  <2>2. v \in Nat /\ l \in Nat /\ w \in Nat /\ m \in Nat
    BY RankIsNumber
  <2>3. w # 0 \/ m # 0
    BY RankIsNumber
  <2> QED BY <2>1, <2>2, <2>3
<1>2. x # y
  BY AheadRanksBetter
<1>3. (v > 0 /\ (w # 0 => v < w)) \/ (v = 0 /\ w = 0 /\ ~Ahead(vector, x, y))
  <2>1. CASE Ahead(vector, x, y)
    BY <2>1, AheadRanksBetter
  <2>2. CASE ~Ahead(vector, x, y)
    <3>1. x \notin ToSet(vector) /\ y \notin ToSet(vector)
      BY <2>2 DEF NotBehind
    <3> QED BY <2>2, <3>1, RankIsNumber
  <2> QED BY <2>1, <2>2
<1>4. (l > 0 /\ (m # 0 => l < m)) \/ (l = 0 /\ m = 0 /\ ~Ahead(lexical, x, y))
  <2>1. CASE Ahead(lexical, x, y)
    BY <2>1, AheadRanksBetter
  <2>2. CASE ~Ahead(lexical, x, y)
    <3>1. x \notin ToSet(lexical) /\ y \notin ToSet(lexical)
      BY <2>2 DEF NotBehind
    <3> QED BY <2>2, <3>1, RankIsNumber
  <2> QED BY <2>1, <2>2
<1>5. /\ Score(vector, lexical, x) = IF l = 0 THEN <<1, K + v>>
                                     ELSE IF v = 0 THEN <<1, K + l>>
                                     ELSE <<(K + l) + (K + v), (K + v) * (K + l)>>
      /\ Score(vector, lexical, y) = IF m = 0 THEN <<1, K + w>>
                                     ELSE IF w = 0 THEN <<1, K + m>>
                                     ELSE <<(K + m) + (K + w), (K + w) * (K + m)>>
  BY DEF Score
<1> HIDE DEF v, l, w, m
<1> DEFINE a == K + v
           b == K + l
           c == K + w
           d == K + m
<1>6. a \in Nat \ {0} /\ b \in Nat \ {0} /\ c \in Nat \ {0} /\ d \in Nat \ {0}
  BY <1>1
<1>7. (v < w => a < c) /\ (l < m => b < d)
  BY <1>1
<1>8. /\ Score(vector, lexical, x) = IF l = 0 THEN <<1, a>> ELSE IF v = 0 THEN <<1, b>> ELSE <<b + a, a * b>>
      /\ Score(vector, lexical, y) = IF m = 0 THEN <<1, c>> ELSE IF w = 0 THEN <<1, d>> ELSE <<d + c, c * d>>
  BY <1>5
<1> HIDE DEF a, b, c, d
<1>9. Greater(Score(vector, lexical, x), Score(vector, lexical, y))
  <2>1. CASE l = 0
    <3>1. m = 0 /\ w # 0 /\ v < w
      BY <1>1, <1>3, <1>4, <2>1
    <3> QED BY <1>6, <1>7, <1>8, <2>1, <3>1, SumIsGreater
  <2>2. CASE v = 0
    <3>1. w = 0 /\ m # 0 /\ l < m /\ l # 0
      BY <1>1, <1>3, <1>4, <2>2
    <3>2. Greater(<<1, b>>, <<1, d>>)
      BY <1>6, <1>7, <3>1, SumIsGreater
    <3> QED BY <1>8, <2>2, <3>1, <3>2
  <2>3. CASE l # 0 /\ v # 0
    <3>1. (w # 0 => a < c) /\ (m # 0 => b < d)
      BY <1>1, <1>3, <1>4, <1>7, <2>3
    <3>2. CASE m = 0
      <4>1. Greater(<<b + a, a * b>>, <<1, c>>)
        BY <1>1, <1>6, <3>1, <3>2, SumIsGreater
      <4> QED BY <1>8, <2>3, <3>2, <4>1
    <3>3. CASE w = 0 /\ m # 0
      <4>1. Greater(<<b + a, a * b>>, <<1, d>>)
        BY <1>6, <3>1, <3>3, SumIsGreater
      <4> QED BY <1>8, <2>3, <3>3, <4>1
    <3>4. CASE w # 0 /\ m # 0
      <4>1. Greater(<<b + a, a * b>>, <<d + c, c * d>>)
        BY <1>6, <3>1, <3>4, SumIsGreater
      <4> QED BY <1>8, <2>3, <3>4, <4>1
    <3> QED BY <3>2, <3>3, <3>4
  <2> QED BY <2>1, <2>2, <2>3
<1> QED BY <1>2, <1>9 DEF Before

\* The fusion has each id of the lists once, in the order of Before.
LEMMA FusedIsSorted ==
    ASSUME NEW vector \in Seq(Items), NEW lexical \in Seq(Items)
    PROVE  LET out == Fused(vector, lexical)
               all == ToSet(vector) \cup ToSet(lexical)
           IN  /\ out \in Seq(Items) /\ ToSet(out) = all /\ Len(out) <= Len(vector) + Len(lexical)
               /\ \A a, b \in 1..Len(out) : out[a] = out[b] => a = b
               /\ \A a, b \in 1..Len(out) : Before(vector, lexical, out[a], out[b]) => a < b
<1> DEFINE all == ToSet(vector) \cup ToSet(lexical)
           n == Cardinality(all)
           below(x) == {y \in all : Before(vector, lexical, y, x)}
           place == [x \in all |-> Cardinality(below(x)) + 1]
           out == Fused(vector, lexical)
<1>1. all \subseteq Items
  BY DEF ToSet
<1>2. IsFiniteSet(all) /\ n \in Nat /\ n <= Len(vector) + Len(lexical)
  <2> DEFINE V == ToSet(vector)
             W == ToSet(lexical)
  <2>1. /\ IsFiniteSet(V) /\ Cardinality(V) \in Nat /\ Cardinality(V) <= Len(vector)
        /\ IsFiniteSet(W) /\ Cardinality(W) \in Nat /\ Cardinality(W) <= Len(lexical)
    BY ListIsFinite
  <2> HIDE DEF V, W
  <2>2. IsFiniteSet(V \cup W) /\ Cardinality(V \cup W) = Cardinality(V) + Cardinality(W) - Cardinality(V \cap W)
    BY <2>1, FS_Union
  <2>3. Cardinality(V \cup W) \in Nat
    BY <2>2, FS_CardinalityType
  <2>4. IsFiniteSet(V \cap W)
    <3>1. V \cap W \in SUBSET V
      OBVIOUS
    <3> QED BY <2>1, <3>1, FS_Subset
  <2>5. Cardinality(V \cap W) \in Nat
    BY <2>4, FS_CardinalityType
  <2>6. Len(vector) \in Nat /\ Len(lexical) \in Nat
    OBVIOUS
  <2>7. IsFiniteSet(V \cup W) /\ Cardinality(V \cup W) \in Nat /\ Cardinality(V \cup W) <= Len(vector) + Len(lexical)
    BY <2>1, <2>2, <2>3, <2>5, <2>6
  <2> QED BY <2>7 DEF V, W
<1>3. out = [i \in 1..n |-> CHOOSE x \in all : FusedRank(vector, lexical, x) = i]
  BY DEF Fused
<1>4. \A x \in all : FusedRank(vector, lexical, x) = place[x]
  BY DEF FusedRank
<1> HIDE DEF all, out
<1>5. ASSUME NEW x \in all
      PROVE  /\ IsFiniteSet(below(x)) /\ Cardinality(below(x)) \in Nat /\ Cardinality(below(x)) < n
             /\ place[x] \in 1..n
  <2> DEFINE B == below(x)
  <2>1. B \in SUBSET all
    OBVIOUS
  <2>2. x \notin B
    BY <1>1, BeforeIsOrder
  <2>3. place[x] = Cardinality(B) + 1
    OBVIOUS
  <2> HIDE DEF B, place
  <2>4. IsFiniteSet(B) /\ Cardinality(B) <= n /\ (n = Cardinality(B) => all = B)
    BY <1>2, <2>1, FS_Subset
  <2>5. Cardinality(B) \in Nat
    BY <2>4, FS_CardinalityType
  <2>6. Cardinality(B) < n
    BY <1>2, <2>2, <2>4, <2>5
  <2> QED BY <1>2, <2>3, <2>4, <2>5, <2>6 DEF B
<1>6. ASSUME NEW x \in all, NEW y \in all, Before(vector, lexical, x, y)
      PROVE  place[x] < place[y]
  <2> DEFINE B == below(x)
             C == below(y)
  <2>1. B \in SUBSET C
    <3> SUFFICES ASSUME NEW z \in B PROVE z \in C
      OBVIOUS
    <3> QED BY <1>1, <1>6, BeforeIsOrder
  <2>2. x \in C /\ x \notin B
    BY <1>1, <1>6, BeforeIsOrder
  <2>3. /\ IsFiniteSet(B) /\ Cardinality(B) \in Nat
        /\ IsFiniteSet(C) /\ Cardinality(C) \in Nat
    BY <1>5
  <2>4. place[x] = Cardinality(B) + 1 /\ place[y] = Cardinality(C) + 1
    OBVIOUS
  <2> HIDE DEF B, C, place
  <2>5. Cardinality(B) <= Cardinality(C) /\ (Cardinality(C) = Cardinality(B) => C = B)
    BY <2>1, <2>3, FS_Subset
  <2>6. Cardinality(B) < Cardinality(C)
    BY <2>2, <2>3, <2>5
  <2> QED BY <2>3, <2>4, <2>6
<1>7. DOMAIN place = all
  OBVIOUS
<1> HIDE DEF place
<1>8. \A x, y \in all : place[x] = place[y] => x = y
  <2> SUFFICES ASSUME NEW x \in all, NEW y \in all, place[x] = place[y] PROVE x = y
    OBVIOUS
  <2>1. place[x] \in 1..n /\ place[x] \in Nat
    <3> HIDE DEF n
    <3>1. place[x] \in 1..n
      BY <1>5
    <3> QED BY <1>2, <3>1
  <2>2. ~(place[x] < place[y]) /\ ~(place[y] < place[x])
    BY <2>1
  <2>3. ~Before(vector, lexical, x, y) /\ ~Before(vector, lexical, y, x)
    BY <1>6, <2>2
  <2> QED BY <1>1, <2>3, BeforeIsOrder
<1>9. \A i \in 1..n : \E x \in all : place[x] = i
  <2>1. place \in [all -> 1..n]
    <3>1. place = [x \in all |-> place[x]]
      BY DEF place
    <3> QED BY <1>5, <3>1
  <2>2. n = Cardinality(all)
    OBVIOUS
  <2> HIDE DEF n
  <2> QED BY <1>2, <1>8, <2>1, <2>2, NumberedIsReached
<1> HIDE DEF n
<1>10. ASSUME NEW i \in 1..n PROVE out[i] \in all /\ place[out[i]] = i
  <2>1. PICK x \in all : place[x] = i
    BY <1>9
  <2>2. out[i] = CHOOSE z \in all : FusedRank(vector, lexical, z) = i
    BY <1>3
  <2>3. out[i] \in all /\ FusedRank(vector, lexical, out[i]) = i
    BY <1>4, <2>1, <2>2
  <2> QED BY <1>4, <2>3
<1>11. out \in Seq(Items) /\ Len(out) = n
  <2>1. out \in [1..n -> Items]
    <3>1. DOMAIN out = 1..n /\ out = [i \in 1..n |-> out[i]]
      BY <1>3
    <3>2. \A i \in 1..n : out[i] \in Items
      BY <1>1, <1>10
    <3> QED BY <3>1, <3>2
  <2> QED BY <1>2, <2>1, InARow
<1>12. ToSet(out) = all
  <2>1. DOMAIN out = 1..n
    BY <1>3
  <2>2. ToSet(out) \subseteq all
    BY <1>10, <2>1 DEF ToSet
  <2>3. ASSUME NEW x \in all PROVE x \in ToSet(out)
    <3>1. place[x] \in 1..n
      BY <1>5
    <3>2. place[out[place[x]]] = place[x] /\ out[place[x]] \in all
      BY <1>10, <3>1
    <3>3. out[place[x]] = x
      BY <1>8, <3>2
    <3> QED BY <2>1, <3>1, <3>3 DEF ToSet
  <2> QED BY <2>2, <2>3
<1>13. ASSUME NEW a \in 1..n, NEW b \in 1..n
       PROVE  /\ out[a] = out[b] => a = b
              /\ Before(vector, lexical, out[a], out[b]) => a < b
  BY <1>6, <1>10
<1> QED BY <1>2, <1>11, <1>12, <1>13 DEF all, out

\* A list without repetitions is its own one.
LEMMA DistinctStays ==
    ASSUME NEW list \in Seq(Items), \A a, b \in 1..Len(list) : list[a] = list[b] => a = b
    PROVE  Distinct(list) = list
<1> DEFINE n == Len(list)
           same == [x \in Items |-> x]
           start(i) == SubSeq(list, 1, i)
           Reached == [i \in 0..n |-> {start(i)}]
           steps == [i \in DOMAIN list |-> Keep(same, list[i])]
<1>1. n \in Nat /\ DOMAIN list = 1..n /\ \A i \in 1..n : list[i] \in Items
  OBVIOUS
<1>2. start(0) = <<>> /\ start(n) = list
  OBVIOUS
<1>3. ASSUME NEW i \in 1..n PROVE Keep(same, list[i])[start(i - 1)] = start(i)
  <2> DEFINE s == start(i - 1)
             x == list[i]
  <2>1. i \in Nat /\ i - 1 \in Nat /\ i - 1 <= n /\ i <= n /\ x \in Items
    BY <1>1
  <2>2. s \in Seq(Items) /\ Len(s) = i - 1 /\ \A j \in 1..(i - 1) : s[j] = list[j]
    BY <2>1
  <2>3. /\ start(i) \in Seq(Items) /\ Len(start(i)) = i
        /\ \A j \in 1..i : start(i)[j] = list[j]
    BY <2>1
  <2>4. ToSet(s) = {list[j] : j \in 1..(i - 1)}
    <3> HIDE DEF s
    <3>1. DOMAIN s = 1..(i - 1)
      BY <2>1, <2>2
    <3> QED BY <2>2, <3>1 DEF ToSet
  <2>5. ~ \E y \in ToSet(s) : same[y] = same[x]
    <3> SUFFICES ASSUME NEW j \in 1..(i - 1) PROVE same[list[j]] # same[x]
      BY <2>4
    <3>1. j \in 1..n /\ j # i /\ list[j] \in Items
      BY <1>1, <2>1
    <3> QED BY <1>1, <3>1
  <2>6. Keep(same, x)[s] = Append(s, x)
    BY <2>2, <2>5 DEF Keep
  <2> DEFINE t == Append(s, x)
  <2>7. t \in Seq(Items) /\ Len(t) = i /\ \A j \in 1..i : t[j] = list[j]
    <3> HIDE DEF s
    <3>1. t \in Seq(Items) /\ Len(t) = Len(s) + 1 /\ t[Len(s) + 1] = x /\ \A j \in 1..Len(s) : t[j] = s[j]
      BY <2>1, <2>2, Appended
    <3>2. Len(t) = i /\ t[i] = x /\ \A j \in 1..(i - 1) : t[j] = list[j]
      BY <2>1, <2>2, <3>1
    <3>3. \A j \in 1..i : j = i \/ j \in 1..(i - 1)
      BY <2>1
    <3> HIDE DEF t
    <3> QED BY <3>1, <3>2, <3>3
  <2>8. t = start(i)
    <3> DEFINE u == start(i)
    <3>1. u \in Seq(Items) /\ Len(u) = Len(t) /\ \A j \in 1..Len(t) : u[j] = t[j]
      BY <2>3, <2>7
    <3> HIDE DEF u, t
    <3> QED BY <2>7, <3>1
  <2> QED BY <2>6, <2>8
<1>4. <<>> \in Reached[0]
  BY <1>1, <1>2
<1>5. \A i \in 1..n : \A v \in Reached[i - 1] : steps[i][v] \in Reached[i]
  <2> SUFFICES ASSUME NEW i \in 1..n, NEW v \in Reached[i - 1] PROVE steps[i][v] \in Reached[i]
    OBVIOUS
  <2>1. i \in 0..n /\ i - 1 \in 0..n /\ i \in DOMAIN list
    BY <1>1
  <2>2. v = start(i - 1)
    BY <2>1
  <2>3. Keep(same, list[i])[v] = start(i)
    BY <1>3, <2>2
  <2> QED BY <2>1, <2>3
<1>6. After(steps, <<>>, n) \in Reached[n]
  <2> HIDE DEF steps, Reached, n
  <2> QED BY <1>1, <1>4, <1>5, AfterReaches
<1>7. n \in 0..n
  BY <1>1
<1> QED BY <1>2, <1>6, <1>7 DEF Distinct, Firsts

\* Repeated ids change no rank.
LEMMA RanksOfDistinct ==
    ASSUME NEW list \in Seq(Items), NEW x
    PROVE  RankIn(Distinct(list), x) = RankIn(list, x)
<1>1. Distinct(Distinct(list)) = Distinct(list) /\ ToSet(Distinct(list)) = ToSet(list)
  BY DistinctIds, DistinctStays
<1> QED BY <1>1 DEF RankIn

LEMMA FusedOfDistinct ==
    ASSUME NEW vector \in Seq(Items), NEW lexical \in Seq(Items)
    PROVE  Fused(Distinct(vector), Distinct(lexical)) = Fused(vector, lexical)
<1> DEFINE v == Distinct(vector)
           l == Distinct(lexical)
<1>1. ToSet(v) = ToSet(vector) /\ ToSet(l) = ToSet(lexical)
  BY DistinctIds
<1>2. \A x : RankIn(v, x) = RankIn(vector, x) /\ RankIn(l, x) = RankIn(lexical, x)
  BY RanksOfDistinct
<1> HIDE DEF v, l
<1>3. \A x : Score(v, l, x) = Score(vector, lexical, x)
  BY <1>2 DEF Score
<1>4. \A x, y : Before(v, l, x, y) <=> Before(vector, lexical, x, y)
  BY <1>3 DEF Before
<1>5. \A x : FusedRank(v, l, x) = FusedRank(vector, lexical, x)
  BY <1>1, <1>4 DEF FusedRank
<1>6. Fused(v, l) = Fused(vector, lexical)
  BY <1>1, <1>5 DEF Fused
<1> QED BY <1>6 DEF v, l

\* The templates of a ranking without repetitions: each once, at its first chunk.
LEMMA TemplatesKeepOrder ==
    ASSUME NEW out \in Seq(Items), \A a, b \in 1..Len(out) : out[a] = out[b] => a = b
    PROVE  LET templates == Firsts(TemplateOf, out)
           IN  /\ \A x, y \in ToSet(templates) : x # y =>
                    TemplateOf[x] # TemplateOf[y] /\ (Ahead(templates, x, y) <=> Ahead(out, x, y))
               /\ \A x \in ToSet(out) : \E y \in ToSet(templates) :
                    TemplateOf[y] = TemplateOf[x] /\ (x = y \/ Ahead(out, y, x))
<1> DEFINE s == Firsts(TemplateOf, out)
<1>1. s \in Kept(TemplateOf, out, Len(out))
  BY FirstsAreKept
<1> HIDE DEF s
<1>2. /\ s \in Seq(Items) /\ DOMAIN s = 1..Len(s) /\ Len(s) \in Nat
      /\ DOMAIN out = 1..Len(out) /\ Len(out) \in Nat
  BY <1>1 DEF Kept
<1>3. \A a, b \in 1..Len(s) : TemplateOf[s[a]] = TemplateOf[s[b]] => a = b
  BY <1>1, KeptOnce
<1>4. \A a, b \in 1..Len(s) : s[a] = s[b] => a = b
  BY <1>3
<1>5. ASSUME NEW b \in 1..Len(s), NEW a \in 1..(b - 1) PROVE Ahead(out, s[a], s[b])
  <2>1. PICK k \in 1..Len(out) : \E j \in 1..(k - 1) : s[a] = out[j] /\ s[b] = out[k]
    BY <1>1 DEF Kept
  <2>2. PICK j \in 1..(k - 1) : s[a] = out[j] /\ s[b] = out[k]
    BY <2>1
  <2>3. j \in 1..Len(out) /\ j < k
    BY <1>2
  <2> QED BY <2>2, <2>3, AheadIsEarlier
<1>6. ASSUME NEW x, NEW y, Ahead(out, x, y), Ahead(out, y, x) PROVE FALSE
  <2>1. PICK i \in 1..Len(out) : out[i] = x /\ \A j \in 1..i : out[j] # y
    BY <1>2, <1>6 DEF Ahead
  <2>2. PICK k \in 1..Len(out) : out[k] = y /\ \A j \in 1..k : out[j] # x
    BY <1>2, <1>6 DEF Ahead
  <2>3. k \notin 1..i /\ i \notin 1..k
    BY <2>1, <2>2
  <2> QED BY <1>2, <2>3
<1>7. ASSUME NEW x \in ToSet(s), NEW y \in ToSet(s), x # y
      PROVE  TemplateOf[x] # TemplateOf[y] /\ (Ahead(s, x, y) <=> Ahead(out, x, y))
  <2>1. PICK a \in 1..Len(s) : x = s[a]
    BY <1>2 DEF ToSet
  <2>2. PICK b \in 1..Len(s) : y = s[b]
    BY <1>2 DEF ToSet
  <2>3. a # b /\ a \in Nat /\ b \in Nat
    BY <1>2, <1>7, <2>1, <2>2
  <2>4. Ahead(s, x, y) <=> a < b
    BY <1>2, <1>4, <2>1, <2>2, AheadIsEarlier
  <2>5. CASE a < b
    <3>1. a \in 1..(b - 1)
      BY <2>3, <2>5
    <3>2. Ahead(out, x, y)
      BY <1>5, <2>1, <2>2, <3>1
    <3> QED BY <1>3, <2>1, <2>2, <2>3, <2>4, <2>5, <3>2
  <2>6. CASE b < a
    <3>1. b \in 1..(a - 1)
      BY <2>3, <2>6
    <3>2. Ahead(out, y, x)
      BY <1>5, <2>1, <2>2, <3>1
    <3>3. ~Ahead(out, x, y)
      BY <1>6, <3>2
    <3> QED BY <1>3, <2>1, <2>2, <2>3, <2>4, <2>6, <3>3
  <2> QED BY <2>3, <2>5, <2>6
<1>8. ASSUME NEW x \in ToSet(out)
      PROVE  \E y \in ToSet(s) : TemplateOf[y] = TemplateOf[x] /\ (x = y \/ Ahead(out, y, x))
  <2>1. PICK k \in 1..Len(out) : x = out[k]
    BY <1>2 DEF ToSet
  <2>2. PICK a \in 1..Len(s) : TemplateOf[s[a]] = TemplateOf[out[k]]
    BY <1>1 DEF Kept
  <2>3. PICK j \in 1..Len(out) : IsFirst(TemplateOf, out, j) /\ s[a] = out[j]
    BY <1>1 DEF Kept
  <2>4. s[a] \in ToSet(s)
    BY <1>2 DEF ToSet
  <2>5. ~(k < j)
    <3> SUFFICES ASSUME k < j PROVE FALSE
      OBVIOUS
    <3>1. k \in 1..(j - 1)
      BY <1>2
    <3> QED BY <2>2, <2>3, <3>1 DEF IsFirst
  <2>6. CASE j = k
    BY <2>1, <2>3, <2>4, <2>6
  <2>7. CASE j < k
    <3>1. Ahead(out, out[j], out[k])
      BY <2>7, AheadIsEarlier
    <3> QED BY <2>1, <2>2, <2>3, <2>4, <3>1
  <2> QED BY <1>2, <2>5, <2>6, <2>7
<1> QED BY <1>7, <1>8 DEF s

\* Whatever both rankings list and repeat: the fusion has each id once, an id
\* that is ahead of another in one list and not behind it in the other is ahead
\* of it, repeated ids change nothing, and each template comes once, where its
\* best chunk is.
LEMMA RankingsAreRespected ==
    ASSUME NEW vector \in Seq(Items), NEW lexical \in Seq(Items)
    PROVE  RespectsRankings(vector, lexical)
<1> DEFINE out == Fused(vector, lexical)
           all == ToSet(vector) \cup ToSet(lexical)
           templates == FusedTemplates(vector, lexical)
<1>1. /\ out \in Seq(Items) /\ ToSet(out) = all /\ Len(out) <= Len(vector) + Len(lexical)
      /\ \A a, b \in 1..Len(out) : out[a] = out[b] => a = b
      /\ \A a, b \in 1..Len(out) : Before(vector, lexical, out[a], out[b]) => a < b
  BY FusedIsSorted
<1>2. out = Fused(Distinct(vector), Distinct(lexical))
  BY FusedOfDistinct
<1>3. templates = Firsts(TemplateOf, out)
  BY DEF FusedTemplates
<1> HIDE DEF out, templates
<1>4. Len(out) < Len(vector) + Len(lexical) + 1
  <2>1. Len(out) \in Nat /\ Len(vector) \in Nat /\ Len(lexical) \in Nat
    BY <1>1
  <2> QED BY <1>1, <2>1
<1>5. ASSUME NEW x \in all, NEW y \in all,
             NotBehind(vector, x, y), NotBehind(lexical, x, y),
             Ahead(vector, x, y) \/ Ahead(lexical, x, y)
      PROVE  Ahead(out, x, y)
  <2>1. Before(vector, lexical, x, y)
    BY <1>5, DominantIsBefore
  <2>2. DOMAIN out = 1..Len(out)
    BY <1>1
  <2>3. PICK a \in 1..Len(out) : x = out[a]
    BY <1>1, <2>2 DEF ToSet
  <2>4. PICK b \in 1..Len(out) : y = out[b]
    BY <1>1, <2>2 DEF ToSet
  <2>5. a < b
    BY <1>1, <2>1, <2>3, <2>4
  <2> QED BY <1>1, <2>3, <2>4, <2>5, AheadIsEarlier
<1>6. /\ \A x, y \in ToSet(templates) : x # y =>
            TemplateOf[x] # TemplateOf[y] /\ (Ahead(templates, x, y) <=> Ahead(out, x, y))
      /\ \A x \in all : \E y \in ToSet(templates) :
            TemplateOf[y] = TemplateOf[x] /\ (x = y \/ Ahead(out, y, x))
  BY <1>1, <1>3, TemplatesKeepOrder
<1> QED BY <1>1, <1>2, <1>4, <1>5, <1>6 DEF RespectsRankings, out, templates
-----------------------------------------------------------------------------
(* Template sources.                                                       *)

ParentsKnown(templates) ==
    /\ DOMAIN templates \subseteq TemplateIds
    /\ \A t \in DOMAIN templates : templates[t].extends \in DOMAIN templates \cup {NoParent}

\* Templates with all that they extend, and no cycle among them: wherever one
\* looks, one template extends nothing of what one looks at.
Grounded(templates) ==
    {V \in SUBSET DOMAIN templates :
        /\ \A x \in V : templates[x].extends \in V \cup {NoParent}
        /\ \A C \in SUBSET V : C # {} => \E x \in C : templates[x].extends \notin C}

\* Templates above one another, none visited and none twice; n of them, or up
\* to one that extends nothing, or one that has been visited.
Ascents(templates, visited, n) ==
    {c \in Seq(DOMAIN templates) :
        /\ \A i \in 1..Len(c) : c[i] \notin visited
        /\ \A i, j \in 1..Len(c) : c[i] = c[j] => i = j
        /\ \A i \in 1..Len(c) : i # Len(c) => templates[c[i]].extends = c[i + 1]
        /\ c = <<>> \/ Len(c) = n \/ templates[c[Len(c)]].extends \in visited \cup {NoParent}}

LEMMA ClimbAscends ==
    ASSUME NEW templates, ParentsKnown(templates), NEW visited, NEW n \in Nat \ {0},
           NEW c \in Ascents(templates, visited, n)
    PROVE  Climb(templates, visited)[c] \in Ascents(templates, visited, n + 1)
<1> DEFINE parent == templates[c[Len(c)]].extends
           longer == Append(c, parent)
<1>1. c \in Seq(DOMAIN templates) /\ Len(c) \in Nat /\ DOMAIN c = 1..Len(c)
  BY DEF Ascents
<1>2. Climb(templates, visited)[c] =
        IF c = <<>> \/ parent = NoParent \/ parent \in visited THEN c
        ELSE IF parent \in ToSet(c) THEN <<>> ELSE longer
  BY <1>1 DEF Climb, Last
<1>3. <<>> \in Ascents(templates, visited, n + 1)
  BY DEF Ascents
<1>4. c = <<>> \/ parent \in visited \cup {NoParent} => c \in Ascents(templates, visited, n + 1)
  BY DEF Ascents
<1>5. ASSUME c # <<>>, parent \notin visited \cup {NoParent}, parent \notin ToSet(c)
      PROVE  longer \in Ascents(templates, visited, n + 1)
  <2>1. Len(c) = n /\ Len(c) \in 1..Len(c) /\ c[Len(c)] \in DOMAIN templates
    <3>1. c = <<>> \/ Len(c) = n \/ parent \in visited \cup {NoParent}
      BY DEF Ascents
    <3> HIDE DEF parent
    <3>2. Len(c) \in 1..Len(c)
      BY <1>1, <1>5
    <3>3. c[Len(c)] \in DOMAIN templates
      BY <1>1, <3>2
    <3>4. Len(c) = n
      BY <1>5, <3>1
    <3> QED BY <3>2, <3>3, <3>4
  <2>2. parent \in DOMAIN templates
    BY <1>5, <2>1 DEF ParentsKnown
  <2>3. templates[c[n]].extends = parent
    BY <2>1
  <2> HIDE DEF parent
  <2>4. /\ longer \in Seq(DOMAIN templates) /\ Len(longer) = n + 1 /\ longer[n + 1] = parent
        /\ \A i \in 1..n : longer[i] = c[i]
    BY <1>1, <2>1, <2>2
  <2>5. \A i \in 1..n : c[i] # parent
    BY <1>1, <1>5, <2>1 DEF ToSet
  <2> HIDE DEF longer
  <2>6. \A i \in 1..(n + 1) : i = n + 1 \/ i \in 1..n
    OBVIOUS
  <2>7. \A i \in 1..n : c[i] \notin visited
    BY <2>1 DEF Ascents
  <2>8. \A i \in 1..Len(longer) : longer[i] \notin visited
    BY <1>5, <2>4, <2>6, <2>7
  <2>9. \A i, j \in 1..n : c[i] = c[j] => i = j
    BY <2>1 DEF Ascents
  <2>10. \A i, j \in 1..Len(longer) : longer[i] = longer[j] => i = j
    <3> SUFFICES ASSUME NEW i \in 1..(n + 1), NEW j \in 1..(n + 1), longer[i] = longer[j] PROVE i = j
      BY <2>4
    <3>1. CASE i \in 1..n /\ j \in 1..n
      BY <2>4, <2>9, <3>1
    <3>2. CASE i = n + 1 /\ j \in 1..n
      BY <2>4, <2>5, <3>2
    <3>3. CASE j = n + 1 /\ i \in 1..n
      BY <2>4, <2>5, <3>3
    <3> QED BY <2>6, <3>1, <3>2, <3>3
  <2>11. \A i \in 1..Len(longer) : i # Len(longer) => templates[longer[i]].extends = longer[i + 1]
    <3> SUFFICES ASSUME NEW i \in 1..n PROVE templates[longer[i]].extends = longer[i + 1]
      BY <2>4, <2>6
    <3>1. CASE i = n
      BY <2>3, <2>4, <3>1
    <3>2. CASE i # n
      <4>1. i + 1 \in 1..n /\ i \in 1..Len(c) /\ i # Len(c)
        BY <2>1, <3>2
      <4>2. templates[c[i]].extends = c[i + 1]
        BY <4>1 DEF Ascents
      <4> QED BY <2>4, <4>1, <4>2
    <3> QED BY <3>1, <3>2
  <2> QED BY <2>4, <2>8, <2>10, <2>11 DEF Ascents
<1> HIDE DEF parent, longer
<1> QED BY <1>2, <1>3, <1>4, <1>5

\* A visit climbs to the end, or finds a cycle: no ascent has more templates
\* than there are.
LEMMA VisitEnds ==
    ASSUME NEW templates, ParentsKnown(templates), IsFiniteSet(DOMAIN templates),
           NEW visited \in SUBSET DOMAIN templates, NEW t \in DOMAIN templates, t \notin visited,
           NEW N, N = Cardinality(DOMAIN templates),
           NEW c, c = After([n \in 1..N |-> Climb(templates, visited)], <<t>>, N)
    PROVE  c \in Ascents(templates, visited, 0)
<1> DEFINE steps == [n \in 1..N |-> Climb(templates, visited)]
           Reached == [n \in 0..N |-> Ascents(templates, visited, n + 1)]
<1>1. N \in Nat
  BY FS_CardinalityType
<1>2. <<t>> \in Ascents(templates, visited, 1)
  <2>1. <<t>> \in Seq(DOMAIN templates) /\ Len(<<t>>) = 1 /\ <<t>>[1] = t
    OBVIOUS
  <2> QED BY <2>1 DEF Ascents
<1>3. <<t>> \in Reached[0]
  BY <1>1, <1>2
<1>4. ASSUME NEW n \in 1..N, NEW v \in Reached[n - 1] PROVE steps[n][v] \in Reached[n]
  <2>1. n - 1 \in 0..N /\ n \in 0..N /\ (n - 1) + 1 = n /\ n \in Nat \ {0}
    BY <1>1
  <2>2. v \in Ascents(templates, visited, n) /\ Reached[n] = Ascents(templates, visited, n + 1)
    BY <1>4, <2>1
  <2>3. steps[n] = Climb(templates, visited)
    OBVIOUS
  <2> HIDE DEF Reached, steps
  <2> QED BY <2>1, <2>2, <2>3, ClimbAscends
<1>5. c \in Reached[N]
  <2> HIDE DEF Reached
  <2> QED BY <1>1, <1>3, <1>4, AfterReaches
<1>6. c \in Ascents(templates, visited, N + 1)
  BY <1>1, <1>5
<1>7. Len(c) # N + 1
  <2> SUFFICES ASSUME Len(c) = N + 1 PROVE FALSE
    OBVIOUS
  <2>1. c \in Seq(DOMAIN templates) /\ \A i, j \in 1..Len(c) : c[i] = c[j] => i = j
    BY <1>6 DEF Ascents
  <2>2. Len(c) <= N
    <3> HIDE DEF Reached, steps
    <3> QED BY <2>1, DistinctAreFew
  <2> QED BY <1>1, <2>2
<1> QED BY <1>6, <1>7 DEF Ascents

\* What has been visited stays without cycles.
LEMMA VisitGrounds ==
    ASSUME NEW templates, ParentsKnown(templates), IsFiniteSet(DOMAIN templates),
           NEW visited \in Grounded(templates), NEW t \in DOMAIN templates
    PROVE  Visit(templates, t)[visited] \in Grounded(templates)
<1> DEFINE D == DOMAIN templates
           N == Cardinality(D)
           c == After([n \in 1..N |-> Climb(templates, visited)], <<t>>, N)
           all == visited \cup ToSet(c)
<1>1. visited \in SUBSET D
  BY DEF Grounded
<1>2. Visit(templates, t)[visited] = IF t \in visited THEN visited ELSE all
  BY <1>1 DEF Visit
<1>3. CASE t \in visited
  BY <1>2, <1>3
<1>4. ASSUME t \notin visited PROVE all \in Grounded(templates)
  <2>1. c \in Ascents(templates, visited, 0)
    <3> HIDE DEF c, N
    <3> QED BY <1>1, <1>4, VisitEnds DEF c, N
  <2> HIDE DEF c
  <2>2. c \in Seq(D) /\ Len(c) \in Nat /\ DOMAIN c = 1..Len(c) /\ ToSet(c) = {c[i] : i \in 1..Len(c)}
    BY <2>1 DEF Ascents, ToSet
  <2>3. c # <<>> => Len(c) \in 1..Len(c) /\ templates[c[Len(c)]].extends \in visited \cup {NoParent}
    <3>1. c = <<>> \/ Len(c) = 0 \/ templates[c[Len(c)]].extends \in visited \cup {NoParent}
      BY <2>1 DEF Ascents
    <3>2. c # <<>> => Len(c) # 0 /\ Len(c) \in 1..Len(c)
      BY <2>2
    <3> QED BY <3>1, <3>2
  <2>4. \A i \in 1..Len(c) : i # Len(c) => templates[c[i]].extends = c[i + 1]
    BY <2>1 DEF Ascents
  <2>5. \A i, j \in 1..Len(c) : c[i] = c[j] => i = j
    BY <2>1 DEF Ascents
  <2>6. \A i \in 1..Len(c) : c[i] \notin visited
    BY <2>1 DEF Ascents
  <2>7. all \in SUBSET D
    BY <1>1, <2>2
  <2>8. ASSUME NEW x \in all PROVE templates[x].extends \in all \cup {NoParent}
    <3>1. CASE x \in visited
      BY <3>1 DEF Grounded
    <3>2. ASSUME NEW i \in 1..Len(c), x = c[i] PROVE templates[x].extends \in all \cup {NoParent}
      <4>1. CASE i = Len(c)
        <5>1. c # <<>>
          BY <2>2, <3>2
        <5> QED BY <2>3, <3>2, <4>1, <5>1
      <4>2. CASE i # Len(c)
        <5>1. i + 1 \in 1..Len(c)
          <6>1. Len(c) \in Nat
            BY <2>2
          <6> QED BY <4>2, <6>1
        <5>2. templates[x].extends = c[i + 1]
          BY <2>4, <3>2, <4>2
        <5>3. c[i + 1] \in ToSet(c)
          BY <2>2, <5>1
        <5> QED BY <5>2, <5>3
      <4> QED BY <4>1, <4>2
    <3> QED BY <2>2, <3>1, <3>2
  <2>9. ASSUME NEW C \in SUBSET all, C # {} PROVE \E x \in C : templates[x].extends \notin C
    <3> DEFINE low == {i \in 1..Len(c) : c[i] \in C}
    <3>1. CASE low = {}
      <4>1. C \in SUBSET visited
        BY <2>2, <3>1
      <4> QED BY <2>9, <4>1 DEF Grounded
    <3>2. CASE low # {}
      <4>1. PICK m \in low : \A i \in low : i <= m
        <5>1. low \in SUBSET Nat /\ \A i \in low : i <= Len(c)
          BY <2>2
        <5> HIDE DEF low
        <5> QED BY <2>2, <3>2, <5>1, GreatestNatural
      <4>2. m \in 1..Len(c) /\ c[m] \in C
        BY <4>1
      <4>3. CASE m # Len(c)
        <5>1. m + 1 \in 1..Len(c) /\ templates[c[m]].extends = c[m + 1]
          <6>1. templates[c[m]].extends = c[m + 1]
            BY <2>4, <4>2, <4>3
          <6>2. Len(c) \in Nat /\ m \in 1..Len(c)
            BY <2>2, <4>2
          <6> HIDE DEF low
          <6>3. m + 1 \in 1..Len(c)
            BY <4>3, <6>2
          <6> QED BY <6>1, <6>3
        <5>2. m + 1 \notin low
          BY <4>1, <4>2
        <5>3. c[m + 1] \notin C
          BY <5>1, <5>2
        <5> QED BY <4>2, <5>1, <5>3
      <4>4. CASE m = Len(c) /\ templates[c[m]].extends \in C
        <5>1. templates[c[m]].extends \in visited
          <6>1. c # <<>>
            BY <2>2, <4>2
          <6>2. templates[c[m]].extends # NoParent
            BY <1>1, <2>7, <4>4, SourcesAssumption DEF ParentsKnown
          <6> QED BY <2>3, <4>4, <6>1, <6>2
        <5> DEFINE B == C \cap visited
        <5>2. B \in SUBSET visited /\ B # {}
          BY <4>4, <5>1
        <5>3. PICK x \in B : templates[x].extends \notin B
          <6> HIDE DEF B
          <6> QED BY <5>2 DEF Grounded
        <5>4. templates[x].extends \in visited \cup {NoParent}
          BY <5>3 DEF Grounded
        <5>5. NoParent \notin C
          BY <2>7, SourcesAssumption DEF ParentsKnown
        <5> QED BY <5>3, <5>4, <5>5
      <4> QED BY <4>2, <4>3, <4>4
    <3> QED BY <3>1, <3>2
  <2> HIDE DEF all
  <2> QED BY <2>7, <2>8, <2>9 DEF Grounded
<1> QED BY <1>2, <1>3, <1>4

LEMMA AcyclicIsGrounded ==
    ASSUME NEW templates, ParentsKnown(templates), IsFiniteSet(DOMAIN templates), Acyclic(templates)
    PROVE  DOMAIN templates \in Grounded(templates)
<1> DEFINE D == DOMAIN templates
<1>1. PICK order \in SetToSeqs(D) :
        After([n \in DOMAIN order |-> Visit(templates, order[n])], {}, Len(order)) = D
  BY DEF Acyclic
<1>2. Cardinality(D) \in Nat
  BY FS_CardinalityType
<1>3. order \in [1..Cardinality(D) -> D]
  BY DEF SetToSeqs
<1>4. order \in Seq(D) /\ Len(order) \in Nat /\ DOMAIN order = 1..Len(order)
  BY <1>2, <1>3
<1> DEFINE steps == [n \in DOMAIN order |-> Visit(templates, order[n])]
           Reached == [n \in 0..Len(order) |-> Grounded(templates)]
<1>5. {} \in Reached[0]
  <2>1. {} \in Grounded(templates)
    BY DEF Grounded
  <2> QED BY <1>4, <2>1
<1>6. ASSUME NEW n \in 1..Len(order), NEW v \in Reached[n - 1] PROVE steps[n][v] \in Reached[n]
  <2>1. n - 1 \in 0..Len(order) /\ n \in 0..Len(order) /\ order[n] \in D
    BY <1>4
  <2>2. v \in Grounded(templates) /\ Reached[n] = Grounded(templates) /\ steps[n] = Visit(templates, order[n])
    BY <1>4, <1>6, <2>1
  <2> HIDE DEF Reached, steps
  <2> QED BY <2>1, <2>2, VisitGrounds
<1>7. After(steps, {}, Len(order)) \in Reached[Len(order)]
  <2> HIDE DEF Reached, steps
  <2> QED BY <1>4, <1>5, <1>6, AfterReaches
<1>8. Reached[Len(order)] = Grounded(templates)
  BY <1>4
<1> QED BY <1>1, <1>7, <1>8

\* The chain of every template: it ends with the template, and all that is
\* ahead of that is of the layer core.
ChainsTo(templates, t) ==
    {c \in Seq(DOMAIN templates) :
        /\ c # <<>> /\ c[Len(c)] = t
        /\ \A i \in 1..Len(c) : i # 1 => templates[c[i]].extends = c[i - 1]
        /\ \A i \in 1..Len(c) : i # Len(c) => templates[c[i]].layer = Core}

LEMMA SourceIsDocument ==
    ASSUME NEW templates, ParentsKnown(templates), NEW x \in DOMAIN templates,
           NEW doc, doc = AsDocuments(templates)[x]
    PROVE  doc # NoSource /\ doc.extends = templates[x].extends /\ (doc.core <=> templates[x].layer = Core)
<1>1. PICK b \in BOOLEAN : b = (templates[x].layer = Core)
  OBVIOUS
<1>2. doc = [extends |-> templates[x].extends, core |-> templates[x].layer = Core, size |-> 0]
  BY DEF AsDocuments, ParentsKnown
<1>3. doc = [extends |-> templates[x].extends, core |-> b, size |-> 0]
  BY <1>1, <1>2
<1>4. templates[x].extends \in TemplateIds \cup {NoParent}
  BY DEF ParentsKnown
<1>5. doc \in [extends: TemplateIds \cup {NoParent}, core: BOOLEAN, size: {0}]
  BY <1>3, <1>4
<1>6. doc # NoSource
  BY <1>5, SourcesAssumption
<1>7. doc.extends = templates[x].extends /\ doc.core = b
  BY <1>3
<1> QED BY <1>1, <1>6, <1>7

LEMMA ChainGrows ==
    ASSUME NEW templates, ParentsKnown(templates), DOMAIN templates \in Grounded(templates),
           \A x \in DOMAIN templates :
               templates[x].extends # NoParent => templates[templates[x].extends].layer = Core,
           NEW t \in DOMAIN templates, NEW c \in ChainsTo(templates, t)
    PROVE  Context!Extended(AsDocuments(templates))[c] \in ChainsTo(templates, t)
<1> DEFINE D == DOMAIN templates
           docs == AsDocuments(templates)
           parent == templates[c[1]].extends
           longer == <<parent>> \o c
<1>1. /\ c \in Seq(D) /\ c # <<>> /\ Len(c) \in Nat \ {0} /\ DOMAIN c = 1..Len(c) /\ c[1] \in D
      /\ c \in Seq(TemplateIds)
  BY DEF ChainsTo, ParentsKnown
<1>2. \A x \in D : docs[x].core <=> templates[x].layer = Core
  BY SourceIsDocument
<1>3. \A x \in D : docs[x] # NoSource
  BY SourceIsDocument
<1>4. docs[c[1]].extends = parent
  BY <1>1, SourceIsDocument
<1>5. Context!Extended(docs)[c] =
        IF parent = NoParent THEN c
        ELSE IF docs[parent] = NoSource \/ ~docs[parent].core \/ parent \in ToSet(c) THEN <<>>
        ELSE longer
  BY <1>1, <1>4 DEF Context!Extended, Context!ToSet, ToSet
<1>6. CASE parent = NoParent
  BY <1>5, <1>6
<1>7. CASE parent # NoParent
  <2>1. parent \in D /\ templates[parent].layer = Core
    BY <1>1, <1>7 DEF ParentsKnown
  <2>2. docs[parent] # NoSource /\ docs[parent].core
    BY <1>2, <1>3, <2>1
  <2>3. parent \notin ToSet(c)
    <3> SUFFICES ASSUME NEW m \in 1..Len(c), c[m] = parent PROVE FALSE
      BY <1>1 DEF ToSet
    <3> DEFINE C == {c[i] : i \in 1..m}
    <3>1. C \in SUBSET D /\ C # {}
      BY <1>1
    <3>2. PICK x \in C : templates[x].extends \notin C
      <4> HIDE DEF C
      <4> QED BY <3>1 DEF Grounded
    <3>3. PICK i \in 1..m : x = c[i]
      OBVIOUS
    <3>4. i # 1
      BY <3>2, <3>3
    <3>5. i - 1 \in 1..m /\ i \in 1..Len(c)
      BY <1>1, <3>4
    <3>6. templates[c[i]].extends = c[i - 1]
      BY <3>4, <3>5 DEF ChainsTo
    <3> QED BY <3>2, <3>3, <3>5, <3>6
  <2>4. Context!Extended(docs)[c] = longer
    BY <1>5, <1>7, <2>2, <2>3
  <2>5. templates[c[1]].extends = parent
    OBVIOUS
  <2> HIDE DEF parent
  <2>6. /\ longer \in Seq(D) /\ longer # <<>> /\ Len(longer) = Len(c) + 1 /\ longer[1] = parent
        /\ \A i \in 2..(Len(c) + 1) : longer[i] = c[i - 1]
    BY <1>1, <2>1
  <2> HIDE DEF longer
  <2>7. longer[Len(longer)] = t
    <3>1. c[Len(c)] = t
      BY DEF ChainsTo
    <3> QED BY <1>1, <2>6, <3>1
  <2>8. ASSUME NEW i \in 1..Len(longer), i # 1 PROVE templates[longer[i]].extends = longer[i - 1]
    <3>1. i \in 2..(Len(c) + 1) /\ i - 1 \in 1..Len(c)
      BY <1>1, <2>6, <2>8
    <3>2. longer[i] = c[i - 1]
      BY <2>6, <3>1
    <3>3. CASE i = 2
      BY <2>5, <2>6, <3>2, <3>3
    <3>4. CASE i # 2
      <4>1. i - 1 # 1 /\ i - 1 \in 2..(Len(c) + 1)
        BY <1>1, <3>1, <3>4
      <4>2. templates[c[i - 1]].extends = c[(i - 1) - 1]
        BY <3>1, <4>1 DEF ChainsTo
      <4>3. longer[i - 1] = c[(i - 1) - 1]
        BY <2>6, <4>1
      <4> QED BY <3>2, <4>2, <4>3
    <3> QED BY <3>3, <3>4
  <2>9. ASSUME NEW i \in 1..Len(longer), i # Len(longer) PROVE templates[longer[i]].layer = Core
    <3>1. CASE i = 1
      BY <2>1, <2>6, <3>1
    <3>2. CASE i # 1
      <4>1. i \in 2..(Len(c) + 1) /\ i - 1 \in 1..Len(c) /\ i - 1 # Len(c)
        BY <1>1, <2>6, <2>9, <3>2
      <4>2. templates[c[i - 1]].layer = Core
        BY <4>1 DEF ChainsTo
      <4> QED BY <2>6, <4>1, <4>2
    <3> QED BY <3>1, <3>2
  <2>10. longer \in ChainsTo(templates, t)
    BY <2>6, <2>7, <2>8, <2>9 DEF ChainsTo
  <2> QED BY <2>4, <2>10
<1> QED BY <1>6, <1>7

LEMMA ChainIsFound ==
    ASSUME NEW templates, ParentsKnown(templates), DOMAIN templates \in Grounded(templates),
           \A x \in DOMAIN templates :
               templates[x].extends # NoParent => templates[templates[x].extends].layer = Core,
           NEW t \in DOMAIN templates
    PROVE  Context!DependencyChain(AsDocuments(templates), t) \in ChainsTo(templates, t)
<1> DEFINE docs == AsDocuments(templates)
           N == Cardinality(TemplateIds)
           steps == [n \in 1..N |-> Context!Extended(docs)]
           Reached == [n \in 0..N |-> ChainsTo(templates, t)]
<1>1. N \in Nat
  BY FS_CardinalityType, SourcesAssumption
<1>2. docs[t] # NoSource
  BY SourceIsDocument
<1>3. Context!DependencyChain(docs, t) = Context!After(steps, <<t>>, N)
  BY <1>2 DEF Context!DependencyChain, Context!Cardinality, Cardinality
<1>4. Context!After(steps, <<t>>, N) = After(steps, <<t>>, N)
  BY DEF Context!After, After
<1>5. <<t>> \in Reached[0]
  <2>1. <<t>> \in Seq(DOMAIN templates) /\ Len(<<t>>) = 1 /\ <<t>>[1] = t /\ <<t>> # <<>>
    BY PairOf
  <2>2. <<t>> \in ChainsTo(templates, t)
    BY <2>1 DEF ChainsTo
  <2> QED BY <1>1, <2>2
<1>6. ASSUME NEW n \in 1..N, NEW v \in Reached[n - 1] PROVE steps[n][v] \in Reached[n]
  <2>1. v \in ChainsTo(templates, t) /\ Reached[n] = ChainsTo(templates, t) /\ steps[n] = Context!Extended(docs)
    BY <1>1, <1>6
  <2> HIDE DEF Reached, steps
  <2> QED BY <2>1, ChainGrows
<1>7. After(steps, <<t>>, N) \in Reached[N]
  <2> HIDE DEF Reached, steps, N
  <2> QED BY <1>1, <1>5, <1>6, AfterReaches
<1> QED BY <1>1, <1>3, <1>4, <1>7

\* Whatever sources are accepted serve every profile.
LEMMA AcceptedServe ==
    ASSUME NEW profiles, NEW templates, DOMAIN templates \subseteq TemplateIds
    PROVE  ServesEveryProfile(profiles, templates)
<1> SUFFICES ASSUME Accepted(profiles, templates), NEW p \in DOMAIN profiles, NEW prompt \in ExpertPrompts
             PROVE  LET seen == Searched(profiles, templates, p, prompt)
                    IN  /\ ToSet(profiles[p].defaults[prompt]) \subseteq seen
                        /\ \A t \in seen :
                            LET chain == Context!DependencyChain(AsDocuments(templates), t)
                            IN  /\ chain # <<>>
                                /\ \A d \in ToSet(chain) : templates[d].profile \in {Unbound, p}
  BY DEF ServesEveryProfile
<1>1. ParentsKnown(templates)
  BY DEF Accepted, ValidInheritance, ParentsKnown
<1>2. \A x \in DOMAIN templates :
        templates[x].extends # NoParent => templates[templates[x].extends].layer = Core
  BY DEF Accepted, ValidInheritance
<1>3. IsFiniteSet(DOMAIN templates)
  BY SourcesAssumption, FS_Subset
<1>4. DOMAIN templates \in Grounded(templates)
  BY <1>1, <1>3, AcyclicIsGrounded DEF Accepted, ValidInheritance
<1>5. \A x \in DOMAIN templates :
        IF templates[x].layer = Core THEN templates[x].profile = Unbound
        ELSE templates[x].profile = templates[x].layer
  BY DEF Accepted, ValidOwnership
<1>6. ToSet(profiles[p].layers) \subseteq {Core, p} /\ prompt \in DOMAIN profiles[p].defaults
  BY DEF Accepted, ValidProfiles
<1>7. ToSet(profiles[p].defaults[prompt]) \subseteq Searched(profiles, templates, p, prompt)
  BY <1>6 DEF Accepted, ValidDefaults, Searched
<1>8. ASSUME NEW t \in Searched(profiles, templates, p, prompt),
             NEW chain, chain = Context!DependencyChain(AsDocuments(templates), t)
      PROVE  chain # <<>> /\ \A d \in ToSet(chain) : templates[d].profile \in {Unbound, p}
  <2>1. t \in DOMAIN templates /\ templates[t].layer \in {Core, p}
    BY <1>6 DEF Searched
  <2>2. chain \in ChainsTo(templates, t)
    BY <1>1, <1>2, <1>4, <1>8, <2>1, ChainIsFound
  <2>3. chain # <<>> /\ DOMAIN chain = 1..Len(chain) /\ chain[Len(chain)] = t
    BY <2>2 DEF ChainsTo
  <2>4. ASSUME NEW i \in 1..Len(chain) PROVE templates[chain[i]].profile \in {Unbound, p}
    <3>1. chain[i] \in DOMAIN templates
      BY <2>2, <2>4 DEF ChainsTo
    <3>2. CASE i = Len(chain)
      BY <1>5, <2>1, <2>3, <3>2
    <3>3. CASE i # Len(chain)
      <4>1. templates[chain[i]].layer = Core
        BY <2>2, <2>4, <3>3 DEF ChainsTo
      <4> QED BY <1>5, <3>1, <4>1
    <3> QED BY <3>2, <3>3
  <2> QED BY <2>3, <2>4 DEF ToSet
<1> QED BY <1>7, <1>8

-----------------------------------------------------------------------------
\* What is proved of the selection is proved of Context.
Selection == INSTANCE TemplateContextProofs WITH
    Ids <- TemplateIds, Missing <- NoSource, TopK <- 3, Budget <- 1

LEMMA SelectionIsContext ==
    /\ Selection!ConstantsFit
    /\ \A docs, t : Context!DependencyChain(docs, t) = Selection!DependencyChain(docs, t)
    /\ \A docs, ranked : Context!Build(docs, ranked) = Selection!Build(docs, ranked)
<1>1. Selection!ConstantsFit
  BY SourcesAssumption DEF Selection!ConstantsFit, Selection!IsFiniteSet, IsFiniteSet
<1>2. ASSUME NEW docs, NEW t PROVE Context!DependencyChain(docs, t) = Selection!DependencyChain(docs, t)
  BY DEF Context!DependencyChain, Selection!DependencyChain, Context!Extended, Selection!Extended,
         Context!After, Selection!After, Context!ToSet, Selection!ToSet,
         Context!Cardinality, Selection!Cardinality
<1>3. ASSUME NEW docs, NEW ranked PROVE Context!Build(docs, ranked) = Selection!Build(docs, ranked)
  BY DEF Context!Build, Selection!Build, Context!Take, Selection!Take, Context!Taken, Selection!Taken,
         Context!Completed, Selection!Completed, Context!With, Selection!With,
         Context!DependencyChain, Selection!DependencyChain, Context!Extended, Selection!Extended,
         Context!Tokens, Selection!Tokens, Context!After, Selection!After,
         Context!ToSet, Selection!ToSet, Context!Cardinality, Selection!Cardinality
<1> QED BY <1>1, <1>2, <1>3

\* What the search returns of accepted sources, in whatever order, is complete
\* and of the layers of the profile.
LEMMA AcceptedEvaluateClean ==
    ASSUME NEW profiles, NEW templates, DOMAIN templates \subseteq TemplateIds,
           \A p \in DOMAIN profiles : profiles[p].layers # <<>> /\ \E S : profiles[p].layers \in Seq(S),
           Accepted(profiles, templates)
    PROVE  EvaluatesClean(profiles, templates)
<1> DEFINE D == DOMAIN templates
           docs == AsDocuments(templates)
<1>1. ParentsKnown(templates)
  BY DEF Accepted, ValidInheritance, ParentsKnown
<1>2. \A x \in D : templates[x].extends # NoParent => templates[templates[x].extends].layer = Core
  BY DEF Accepted, ValidInheritance
<1>3. IsFiniteSet(D)
  BY SourcesAssumption, FS_Subset
<1>4. D \in Grounded(templates)
  BY <1>1, <1>3, AcyclicIsGrounded DEF Accepted, ValidInheritance
<1>5. docs \in Selection!Documents
  <2>1. ASSUME NEW x \in D PROVE docs[x] \in Selection!Document
    <3>1. PICK b \in BOOLEAN : b = (templates[x].layer = Core)
      OBVIOUS
    <3>2. docs[x] = [extends |-> templates[x].extends, core |-> templates[x].layer = Core, size |-> 0]
      BY <1>1 DEF AsDocuments, ParentsKnown
    <3>3. docs[x] = [extends |-> templates[x].extends, core |-> b, size |-> 0]
      BY <3>1, <3>2
    <3>4. templates[x].extends \in TemplateIds \cup {NoParent} /\ 0 \in Nat
      BY <1>1 DEF ParentsKnown
    <3> QED BY <3>3, <3>4 DEF Selection!Document
  <2>2. \A x \in TemplateIds \ D : docs[x] = NoSource
    BY DEF AsDocuments
  <2>3. docs = [x \in TemplateIds |-> docs[x]]
    BY DEF AsDocuments
  <2> HIDE DEF docs
  <2> QED BY <2>1, <2>2, <2>3 DEF Selection!Documents
<1>6. \A x \in D : docs[x] # NoSource /\ docs[x].extends = templates[x].extends
  BY <1>1, SourceIsDocument
<1> SUFFICES ASSUME NEW p \in DOMAIN profiles, NEW prompt \in ExpertPrompts,
                    NEW ranked \in SetToSeqs(Searched(profiles, templates, p, prompt)),
                    NEW selected, selected = Context!Build(docs, ranked)
             PROVE  /\ \A x \in ToSet(selected) :
                        x \in D /\ templates[x].layer \in ToSet(profiles[p].layers)
                    /\ \A x \in ToSet(selected) :
                        templates[x].extends # NoParent => templates[x].extends \in ToSet(selected)
  BY DEF EvaluatesClean, EvaluatedTemplates
<1> DEFINE seen == Searched(profiles, templates, p, prompt)
           Own == {x \in D : templates[x].layer \in ToSet(profiles[p].layers)}
<1>7. ranked \in Seq(seen)
  <2>1. IsFiniteSet(seen)
    BY <1>3, FS_Subset DEF Searched
  <2>2. Cardinality(seen) \in Nat
    BY <2>1, FS_CardinalityType
  <2>3. ranked \in [1..Cardinality(seen) -> seen]
    BY DEF SetToSeqs
  <2> QED BY <2>2, <2>3
<1>8. seen \subseteq Own /\ Own \in SUBSET TemplateIds
  BY DEF Searched
<1>9. Core \in ToSet(profiles[p].layers)
  <2>1. PICK S : profiles[p].layers \in Seq(S)
    OBVIOUS
  <2>2. 1 \in DOMAIN profiles[p].layers
    BY <2>1
  <2>3. profiles[p].layers[1] = Core
    BY DEF Accepted, ValidProfiles
  <2> QED BY <2>2, <2>3 DEF ToSet
<1>10. ASSUME NEW t \in seen PROVE Context!DependencyChain(docs, t) \in Seq(Own)
  <2> DEFINE chain == Context!DependencyChain(docs, t)
  <2>1. t \in D /\ t \in Own
    BY <1>8
  <2>2. chain \in ChainsTo(templates, t)
    BY <1>1, <1>2, <1>4, <2>1, ChainIsFound
  <2> HIDE DEF chain
  <2>3. chain \in Seq(D) /\ Len(chain) \in Nat /\ chain[Len(chain)] = t
    BY <2>2 DEF ChainsTo
  <2>4. ASSUME NEW i \in 1..Len(chain) PROVE chain[i] \in Own
    <3>1. CASE i = Len(chain)
      BY <2>1, <2>3, <3>1
    <3>2. CASE i # Len(chain)
      <4>1. templates[chain[i]].layer = Core
        BY <2>2, <3>2 DEF ChainsTo
      <4>2. chain[i] \in D
        BY <2>3
      <4> QED BY <1>9, <4>1, <4>2
    <3> QED BY <3>1, <3>2
  <2> HIDE DEF Own
  <2>5. chain \in Seq(Own)
    BY <2>3, <2>4
  <2> QED BY <2>5 DEF chain
<1>11. ranked \in Seq(TemplateIds)
  BY <1>7, <1>8
<1>12. selected \in Seq(Own)
  <2>1. \A n \in DOMAIN ranked : ranked[n] \in seen
    BY <1>7
  <2>2. \A n \in DOMAIN ranked : Selection!DependencyChain(docs, ranked[n]) \in Seq(Own)
    BY <1>10, <2>1, SelectionIsContext
  <2> HIDE DEF Own, docs, seen
  <2>3. Selection!Build(docs, ranked) \in Seq(Own)
    BY <1>8, <1>11, <2>2, Selection!ContextIsFromChains
  <2> QED BY <2>3, SelectionIsContext
<1>13. selected \in Selection!Complete(docs)
  <2> HIDE DEF docs
  <2> QED BY <1>5, <1>11, Selection!ContextIsComplete, SelectionIsContext
<1>14. ASSUME NEW x \in ToSet(selected) PROVE x \in D /\ templates[x].layer \in ToSet(profiles[p].layers)
  <2>1. x \in Own
    BY <1>12 DEF ToSet
  <2> QED BY <2>1
<1>15. ASSUME NEW x \in ToSet(selected), templates[x].extends # NoParent
       PROVE  templates[x].extends \in ToSet(selected)
  <2>1. DOMAIN selected = 1..Len(selected) /\ Len(selected) \in Nat
    BY <1>12
  <2>2. PICK i \in 1..Len(selected) : x = selected[i]
    BY <2>1 DEF ToSet
  <2>3. docs[x].extends = templates[x].extends
    BY <1>6, <1>14
  <2> HIDE DEF docs
  <2>4. \E j \in 1..(i - 1) : selected[j] = docs[x].extends
    BY <1>13, <1>15, <2>2, <2>3 DEF Selection!Complete
  <2>5. PICK j \in 1..(i - 1) : selected[j] = templates[x].extends
    BY <2>3, <2>4
  <2>6. j \in 1..Len(selected)
    BY <2>1
  <2> QED BY <2>1, <2>5, <2>6 DEF ToSet
<1> QED BY <1>14, <1>15

-----------------------------------------------------------------------------
(* The invariants of Algorithms, of whatever inputs.                       *)

\* What is examined is an input of the algorithm that it is examined for.
InputInv ==
    /\ input.of = "fusion" => input.on \in FusionInputs
    /\ input.of = "context" => input.on \in ContextInputs
    /\ input.of = "sources" => input.on \in SourceInputs
    /\ input.of = "workspace" => input.on \in WorkspaceInputs
    /\ input.of = "packages" => input.on \in PackageInputs
    /\ input.of = "page" => input.on \in PageInputs
    /\ input.of = "section" => input.on \in SectionInputs
    /\ input.of = "texts" => input.on \in TextInputs
    /\ input.of = "artifact" => input.on \in ArtifactInputs
    /\ input.of = "gates" => input.on \in GateInputs

LEMMA InputsAreChosen == Spec => []InputInv
<1>1. Init => InputInv
  BY DEF Init, Unchosen, InputInv
<1>2. InputInv /\ [Next]_<<fetchVars, input>> => InputInv'
  <2> SUFFICES ASSUME InputInv, [Next]_<<fetchVars, input>> PROVE InputInv'
    OBVIOUS
  <2>1. CASE ExamineFusion
    BY <2>1 DEF ExamineFusion, Examine, InputInv
  <2>2. CASE ExamineContext
    BY <2>2 DEF ExamineContext, Examine, InputInv
  <2>3. CASE ExamineSources
    BY <2>3 DEF ExamineSources, Examine, InputInv
  <2>4. CASE ExaminePage
    BY <2>4 DEF ExaminePage, Examine, InputInv
  <2>5. CASE ExamineSection
    BY <2>5 DEF ExamineSection, Examine, InputInv
  <2>6. CASE ExamineTexts
    BY <2>6 DEF ExamineTexts, Examine, InputInv
  <2>7. CASE ExamineArtifact
    BY <2>7 DEF ExamineArtifact, Examine, InputInv
  <2>8. CASE ExamineGates
    BY <2>8 DEF ExamineGates, Examine, InputInv
  <2>9. CASE Fetch \/ UNCHANGED <<fetchVars, input>>
    BY <2>9 DEF Fetch, InputInv
  <2>10. CASE ExamineWorkspace
    BY <2>10 DEF ExamineWorkspace, Examine, InputInv
  <2>11. CASE ExaminePackages
    BY <2>11 DEF ExaminePackages, Examine, InputInv
  <2> QED BY <2>1, <2>2, <2>3, <2>4, <2>5, <2>6, <2>7, <2>8, <2>9, <2>10, <2>11 DEF Next
<1> QED BY <1>1, <1>2, PTL DEF Spec

\* The fusion of any two rankings, of whatever chunks, respects both.
THEOREM FusionAlwaysRespectsRankings == Spec => []FusionRespectsRankings
<1>1. InputInv => FusionRespectsRankings
  BY InputAssumption, RankingsAreRespected DEF InputInv, FusionRespectsRankings
<1> QED BY <1>1, InputsAreChosen, PTL

\* Whatever a search ranks, the sources that are told divide the chunks, each
\* is cited by its best one and told in the order of the page; they are the runs
\* of chunks if no page is there in two versions; and the pages come as they
\* would be cited.
THEOREM SourcesAreAlwaysRuns == Spec => []SourcesAreRuns
<1>1. InputInv => SourcesAreRuns
  <2> DEFINE ranked == input.on.ranked
             pages == TopSources(ranked, 5)
  <2> SUFFICES ASSUME input.on \in ContextInputs
               PROVE  /\ CitesRuns(ranked) /\ CitesRuns(Build(ranked))
                      /\ TopSources(Citations(ranked), 5) = pages
                      /\ \A i \in DOMAIN ranked :
                            i <= 5 => FirstRelevantRank({ranked[i].doc}, pages) \in 1..i
    BY DEF InputInv, SourcesAreRuns
  <2>1. IsRanking(ranked)
    BY InputAssumption DEF IsSequence, IsRanking
  <2> HIDE DEF ranked
  <2>2. CitesRuns(ranked)
    BY <2>1, RunsAreCited
  <2>3. CitesRuns(Build(ranked))
    BY <2>1, BuildIsRanking, RunsAreCited
  <2>4. TopSources(Citations(ranked), 5) = pages
    BY <2>1, PagesAreTold
  <2>5. DOMAIN ranked = 1..Len(ranked) /\ Len(ranked) \in Nat
    BY <2>1 DEF IsRanking
  <2>6. ASSUME NEW i \in DOMAIN ranked, i <= 5
        PROVE  FirstRelevantRank({ranked[i].doc}, pages) \in 1..i
    BY <2>5, <2>6, RelevantIsFound
  <2> HIDE DEF pages
  <2> QED BY <2>2, <2>3, <2>4, <2>6
<1> QED BY <1>1, InputsAreChosen, PTL

\* Whatever a search ranks, the context of official documents keeps its budget
\* and leaves out only what does not fit.
THEOREM BudgetIsAlwaysUsed == Spec => []BudgetIsUsed
<1>1. InputInv => BudgetIsUsed
  <2> SUFFICES ASSUME input.on \in ContextInputs PROVE LeavesNothingOut(input.on.ranked)
    BY DEF InputInv, BudgetIsUsed
  <2>1. /\ input.on.ranked \in Seq(ToSet(input.on.ranked))
        /\ \A i, j \in DOMAIN input.on.ranked : input.on.ranked[i] = input.on.ranked[j] => i = j
    BY InputAssumption DEF IsSequence
  <2> QED BY <2>1, NothingIsLeftOut
<1> QED BY <1>1, InputsAreChosen, PTL

\* Whatever template sources are accepted serve every profile, and the
\* evaluation finds neither a leak nor a missing parent in what they serve.
THEOREM AcceptedSourcesAlwaysServe == Spec => []AcceptedSourcesServe
<1>1. InputInv => AcceptedSourcesServe
  <2> SUFFICES ASSUME input.on \in SourceInputs
               PROVE  /\ ServesEveryProfile(input.on.profiles, input.on.templates)
                      /\ Accepted(input.on.profiles, input.on.templates)
                            => EvaluatesClean(input.on.profiles, input.on.templates)
    BY DEF InputInv, AcceptedSourcesServe
  <2>1. DOMAIN input.on.templates \subseteq TemplateIds
    BY InputAssumption
  <2>2. \A p \in DOMAIN input.on.profiles :
            /\ input.on.profiles[p].layers # <<>>
            /\ \E S : input.on.profiles[p].layers \in Seq(S)
    BY InputAssumption DEF IsSequence
  <2> QED BY <2>1, <2>2, AcceptedServe, AcceptedEvaluateClean
<1> QED BY <1>1, InputsAreChosen, PTL

\* Whatever sources a workspace has, and whatever scores their units, the plan
\* for a prompt lists every unit once and tells why, each kind that the prompt
\* asks for gets its share, and the context leaves out only what does not fit.
THEOREM FactsAreAlwaysBalanced == Spec => []FactsAreBalanced
<1>1. InputInv => FactsAreBalanced
  <2> DEFINE p == input.on.purpose
             units == Units(input.on.sources)
             plan == PlanOf(p, units)
             S == Entries(units)
  <2> SUFFICES ASSUME input.on \in WorkspaceInputs
               PROVE  PlansEveryUnit(p, units) /\ MeetsQuotas(p, units) /\ LeavesNoUnitOut(plan)
    BY DEF InputInv, FactsAreBalanced
  <2>1. p \in DOMAIN Seeds /\ ProperSources(input.on.sources)
    BY InputAssumption DEF ProperSources, ProperSource, IsSequence
  <2>2. ProperUnits(units)
    BY <2>1, UnitsAreProper
  <2> HIDE DEF p, units
  <2>3. MeetsQuotas(p, units)
    BY <2>1, <2>2, QuotasAreMet
  <2>4. plan \in Plans(units) /\ PlansEveryUnit(p, units)
    BY <2>1, <2>2, PlanIsComplete
  <2> HIDE DEF plan
  <2>5. plan \in Seq(S)
    BY <2>4 DEF Plans
  <2>6. \A x \in S : x.unit.size \in Nat
    BY <2>2, EntriesAreOfUnits DEF ProperUnits
  <2> HIDE DEF S
  <2>7. LeavesNoUnitOut(plan)
    BY <2>5, <2>6, WorkspaceIsAlwaysUsed
  <2> QED BY <2>3, <2>4, <2>7
<1> QED BY <1>1, InputsAreChosen, PTL

\* The units of a source are those of its statements, if it is DDL, and no other
\* source of an accepted package has units of its name.
LEMMA DdlFacts ==
    ASSUME NEW w, IsManifest(w.manifest)
    PROVE  DdlMakesFacts(w)
<1> SUFFICES ASSUME AcceptedWorkspace(w), NEW s \in Loaded(w), s.kind = DdlKind,
                    NEW units, units = {u \in Units(Loaded(w)) : u.source = s.id}
             PROVE  /\ \E u \in units : u.title # Comment
                    /\ \A u \in units : u.title # Comment => ~Recognized(u.title)
  BY DEF DdlMakesFacts
<1>1. /\ \E n \in DOMAIN s.parts : s.parts[n].title # Comment
      /\ \A n \in DOMAIN s.parts : s.parts[n].title # Comment => ~Recognized(s.parts[n].title)
  BY DdlIsValid
<1>2. s.kind = SourceDdl
  BY KindAssumption
<1> DEFINE of(t) == IF t.kind = SourceDdl THEN SqlUnits(t) ELSE MarkdownUnits(t)
<1>3. Units(Loaded(w)) = UNION {of(t) : t \in Loaded(w)}
  BY DEF Units
<1>4. of(s) = SqlUnits(s)
  BY <1>2
<1>5. ASSUME NEW t, NEW u \in of(t) PROVE u.source = t.id
  <2>1. CASE t.kind = SourceDdl
    <3>1. u \in SqlUnits(t)
      BY <1>5, <2>1
    <3> QED BY <3>1 DEF SqlUnits, Unit
  <2>2. CASE t.kind # SourceDdl
    <3>1. u \in MarkdownUnits(t)
      BY <1>5, <2>2
    <3>2. PICK n, title, sub, part : u = Unit(t, n, title, sub, part)
      BY <3>1 DEF MarkdownUnits
    <3> QED BY <3>2 DEF Unit
  <2> QED BY <2>1, <2>2
<1>6. ASSUME NEW u \in SqlUnits(s) PROVE \E n \in DOMAIN s.parts : u.title = s.parts[n].title
  <2>1. PICK n \in DOMAIN s.parts :
            u = Unit(s, n, s.parts[n].title, AnyTitle, s.parts[n])
    BY DEF SqlUnits
  <2> QED BY <2>1 DEF Unit
<1>7. ASSUME NEW n \in DOMAIN s.parts PROVE \E u \in SqlUnits(s) : u.title = s.parts[n].title
  <2> DEFINE u == Unit(s, n, s.parts[n].title, AnyTitle, s.parts[n])
  <2>1. u \in SqlUnits(s)
    BY DEF SqlUnits
  <2>2. u.title = s.parts[n].title
    BY DEF Unit
  <2> QED BY <2>1, <2>2
<1> HIDE DEF of
<1>8. units = SqlUnits(s)
  <2>1. ASSUME NEW u \in units PROVE u \in SqlUnits(s)
    <3>1. PICK t \in Loaded(w) : u \in of(t)
      BY <1>3
    <3>2. t.id = s.id
      BY <1>5, <3>1
    <3>3. t = s
      BY <3>2, SourcesDiffer
    <3> QED BY <1>4, <3>1, <3>3
  <2>2. ASSUME NEW u \in SqlUnits(s) PROVE u \in units
    BY <1>3, <1>4, <1>5
  <2> QED BY <2>1, <2>2
<1> QED BY <1>1, <1>6, <1>7, <1>8

\* Whatever packages are accepted, the hash of each tells what it says and
\* nothing else, its sources are all that its manifest names, each under a name
\* of its own, and the context builder finds facts in each source of DDL, none
\* of which the registry recognizes as writing data.
THEOREM AcceptedPackagesAlwaysHaveFacts == Spec => []AcceptedPackagesHaveFacts
<1>1. InputInv => AcceptedPackagesHaveFacts
  <2> SUFFICES ASSUME input.on \in PackageInputs
               PROVE  /\ HashTellsContent(input.on.one, input.on.other)
                      /\ SourcesAreNamed(input.on.one) /\ DdlMakesFacts(input.on.one)
    BY DEF InputInv, AcceptedPackagesHaveFacts
  <2>1. IsManifest(input.on.one.manifest) /\ IsManifest(input.on.other.manifest)
    BY InputAssumption
  <2> QED BY <2>1, HashesTell, SourcesNamed, DdlFacts
<1> QED BY <1>1, InputsAreChosen, PTL

\* The sections of any page follow its outline; without headings in tables,
\* each has the anchor of its own heading or one that no other has.
THEOREM SectionsAreAlwaysLocated == Spec => []SectionsAreLocated
<1>1. InputInv => SectionsAreLocated
  <2> SUFFICES ASSUME input.on \in PageInputs
               PROVE  FollowsOutline("title", input.on.page) /\ AnchorsPointHome("title", input.on.page)
    BY DEF InputInv, SectionsAreLocated
  <2>1. input.on.page \in Seq(ToSet(input.on.page))
    BY InputAssumption DEF IsSequence
  <2> QED BY <2>1, OutlineIsFollowed, AnchorsAreOwn
<1> QED BY <1>1, InputsAreChosen, PTL

\* Whatever blocks a section has, of any length, its chunks lose none of them.
THEOREM ChunksAlwaysLoseNothing == Spec => []ChunksLoseNothing
<1>1. InputInv => ChunksLoseNothing
  <2> SUFFICES ASSUME input.on \in SectionInputs PROVE LosesNothing(input.on.prefix, input.on.blocks)
    BY DEF InputInv, ChunksLoseNothing
  <2>1. /\ input.on.prefix \in Nat /\ input.on.blocks \in Seq(ToSet(input.on.blocks))
        /\ \A b \in DOMAIN input.on.blocks : ProperBlock(input.on.blocks[b])
    BY InputAssumption DEF IsSequence
  <2> QED BY <2>1, SplittingLosesNothing
<1> QED BY <1>1, InputsAreChosen, PTL

\* However many texts are embedded, in whatever order the service answers, each
\* gets its own vector, and an answer is refused just if it is spoilt.
THEOREM VectorsAlwaysKeepTheirText == Spec => []VectorsKeepTheirText
<1>1. InputInv => VectorsKeepTheirText
  <2> SUFFICES ASSUME input.on \in TextInputs, ValidTexts(input.on.texts),
                      NEW batches, batches = Batches(input.on.texts),
                      NEW answers, answers = Answers(batches, input.on.backwards, input.on.fault)
               PROVE  /\ Honest(batches, answers) /\ EmbedsInOrder(input.on.texts, answers)
                      /\ ValidAnswers(batches, answers) <=> ~Spoilt(batches, input.on.fault)
    BY DEF InputInv, VectorsKeepTheirText
  <2>1. input.on.texts \in Seq(Nat) /\ input.on.backwards \in BOOLEAN /\ input.on.fault.kind \in FaultKinds
    BY InputAssumption
  <2>2. /\ \A b \in DOMAIN batches : answers[b] \in Seq(AnswerItems)
        /\ Honest(batches, answers)
        /\ ValidAnswers(batches, answers) <=> ~Spoilt(batches, input.on.fault)
    BY <2>1, AnswersAreSeen
  <2>3. EmbedsInOrder(input.on.texts, answers)
    BY <2>1, <2>2, EmbeddingsAreInOrder
  <2> QED BY <2>2, <2>3
<1> QED BY <1>1, InputsAreChosen, PTL

\* Whatever text is accepted for a prompt keeps the rules of the evaluation on
\* its form, and the document that a prompt asks for is accepted.
THEOREM ArtifactsAlwaysKeepForm == Spec => []ArtifactsKeepForm
<1>1. InputInv => ArtifactsKeepForm
  <2> SUFFICES ASSUME input.on \in ArtifactInputs, NEW spec, spec = Specs[input.on.case.prompt]
               PROVE  /\ AcceptedKeepsForm(input.on.case, input.on.text)
                      /\ spec.lang = NoLanguage /\ input.on.text.blocks = Asked(spec.sections, "plain")
                            => ValidArtifact(spec, Normalized(input.on.text))
    BY DEF InputInv, ArtifactsKeepForm
  <2>1. /\ input.on.case.prompt \in DOMAIN Specs /\ input.on.text.blocks \in Seq(ToSet(input.on.text.blocks))
        /\ \A b \in ToSet(input.on.text.blocks) : IsFence(b)
    BY InputAssumption DEF IsSequence
  <2>2. AcceptedKeepsForm(input.on.case, input.on.text)
    BY <2>1, AcceptedKeepForm
  <2>3. spec.lang = NoLanguage /\ input.on.text.blocks = Asked(spec.sections, "plain")
            => ValidArtifact(spec, Normalized(input.on.text))
    BY <2>1, AskedIsAccepted DEF Normalized
  <2> QED BY <2>2, <2>3
<1> QED BY <1>1, InputsAreChosen, PTL

\* Whatever a data set of less than two thousand cases, or units, hits, rounding
\* neither opens a gate nor shuts it.
THEOREM GatesAlwaysRoundExactly == Spec => []GatesRoundExactly
<1>1. InputInv => GatesRoundExactly
  BY InputAssumption, GatesAreExact DEF InputInv, GatesRoundExactly
<1> QED BY <1>1, InputsAreChosen, PTL
=============================================================================
