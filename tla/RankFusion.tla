------------------------------ MODULE RankFusion ------------------------------
(***************************************************************************)
(* Reciprocal rank fusion of the vector and the lexical candidates, from   *)
(* search/hybrid.py, rag/retrieval.py and expert_templates/retrieval.py.   *)
(*                                                                         *)
(* Scores are exact fractions <<numerator, denominator>>; the code adds    *)
(* two floats, for which sums of the same two terms are equal as well.     *)
(***************************************************************************)
EXTENDS SequencesExt, StepFold

CONSTANTS
    Items,          \* ids of chunks
    TieOrder,       \* their order by source, chunk index and id
    TemplateOf,     \* the template version of a chunk
    K               \* rrf_k

ASSUME FusionAssumption ==
    /\ TieOrder \in [Items -> Nat]
    /\ \A x, y \in Items : TieOrder[x] = TieOrder[y] => x = y
    /\ Items \subseteq DOMAIN TemplateOf
    /\ K \in Nat \ {0}

\* An id is kept unless one with the same key has been.
Keep(key, x) ==
    [seen \in Seq(Items) |->
        IF \E y \in ToSet(seen) : key[y] = key[x] THEN seen ELSE Append(seen, x)]

\* The first id of each key, in the order of the list.
Firsts(key, list) == After([i \in DOMAIN list |-> Keep(key, list[i])], <<>>, Len(list))

\* The list without repetitions.
Distinct(list) == Firsts([x \in Items |-> x], list)

\* Mutant: repeated ids push the others down.
PositionIn(list, x) ==
    IF x \in ToSet(list) THEN CHOOSE i \in DOMAIN list : list[i] = x /\ \A j \in 1..(i - 1) : list[j] # x
    ELSE 0

\* The rank among the distinct ids, 0 for an id that is not listed.
RankIn(list, x) ==
    IF x \in ToSet(list)
    THEN CHOOSE i \in DOMAIN Distinct(list) : Distinct(list)[i] = x
    ELSE 0

\* 1/(K + v) + 1/(K + l), a summand only for a list that has the id.
Score(vector, lexical, x) ==
    LET v == RankIn(vector, x)
        l == RankIn(lexical, x)
    IN  IF l = 0 THEN <<1, K + v>>
        ELSE IF v = 0 THEN <<1, K + l>>
        ELSE <<(K + l) + (K + v), (K + v) * (K + l)>>

Greater(p, q) == p[1] * q[2] > q[1] * p[2]

Before(vector, lexical, x, y) ==
    LET p == Score(vector, lexical, x)
        q == Score(vector, lexical, y)
    IN  Greater(p, q) \/ (~Greater(q, p) /\ TieOrder[x] < TieOrder[y])

\* The place of an id in the order of all.
FusedRank(vector, lexical, x) ==
    Cardinality({y \in ToSet(vector) \cup ToSet(lexical) : Before(vector, lexical, y, x)}) + 1

\* reciprocal_rank_fusion: the ids of both lists, best first.
Fused(vector, lexical) ==
    LET all == ToSet(vector) \cup ToSet(lexical)
    IN  [i \in 1..Cardinality(all) |-> CHOOSE x \in all : FusedRank(vector, lexical, x) = i]

\* reciprocal_rank_fusion_templates: each template at its best chunk.
FusedTemplates(vector, lexical) == Firsts(TemplateOf, Fused(vector, lexical))

-----------------------------------------------------------------------------
\* x is listed before y, or y is not listed.
Ahead(list, x, y) ==
    \E i \in DOMAIN list : list[i] = x /\ \A j \in 1..i : list[j] # y

NotBehind(list, x, y) == Ahead(list, x, y) \/ {x, y} \cap ToSet(list) = {}

\* An id that is ahead of another in one list and not behind it in the other
\* is ahead of it in the fusion, repeated ids change nothing, and a template
\* is as good as its best chunk.
RespectsRankings(vector, lexical) ==
    LET out == Fused(vector, lexical)
        templates == FusedTemplates(vector, lexical)
        all == ToSet(vector) \cup ToSet(lexical)
    IN  /\ Len(out) < Len(vector) + Len(lexical) + 1 /\ ToSet(out) = all
        /\ \A x, y \in all :
            /\ NotBehind(vector, x, y) /\ NotBehind(lexical, x, y)
            /\ Ahead(vector, x, y) \/ Ahead(lexical, x, y)
            => Ahead(out, x, y)
        /\ out = Fused(Distinct(vector), Distinct(lexical))
        /\ \A x, y \in ToSet(templates) :
            x # y => TemplateOf[x] # TemplateOf[y] /\ (Ahead(templates, x, y) <=> Ahead(out, x, y))
        /\ \A x \in all : \E y \in ToSet(templates) :
            TemplateOf[y] = TemplateOf[x] /\ (x = y \/ Ahead(out, y, x))
===============================================================================
