--------------------------- MODULE WorkspaceContext ---------------------------
(***************************************************************************)
(* Which facts of a project workspace a proposal prompt gets, from         *)
(* workspace/context.py: the sources are split into units, the units are   *)
(* ranked, a plan lists all of them, and the context takes from the plan   *)
(* what fits.                                                              *)
(*                                                                         *)
(* A source is [id, kind, parts]; a part is a heading [level, title, body, *)
(* score, size] of a Markdown source or a statement of a DDL source, where *)
(* body tells whether text follows the heading.  The lexical score under   *)
(* the query at hand is part of the input: any score may come out of the   *)
(* text.  Tokens add up over the blocks of a context.                      *)
(***************************************************************************)
EXTENDS SequencesExt, StepFold, Orders

CONSTANTS
    SourceDdl,      \* the kind source_ddl
    AllKinds,       \* WorkspaceSourceKind, in its order
    AnyTitle,       \* the title of a seed that has none, and of a missing subtitle
    Seeds,          \* _FALLBACK_SEEDS: for each purpose a sequence of [kind, title]
    RoundLimit,     \* _LEXICAL_SELECTION_LIMITS
    UnitLimit,      \* top_k
    TokenLimit,     \* max_context_tokens
    HeaderTokens    \* tokens of the header

ASSUME WorkspaceAssumption ==
    /\ RoundLimit \in [DOMAIN Seeds -> Nat \ {0}]
    /\ UnitLimit \in Nat \ {0} /\ TokenLimit \in Nat \ {0} /\ HeaderTokens \in Nat
    /\ AllKinds \in Seq(ToSet(AllKinds))
    /\ \A p \in DOMAIN Seeds :
        /\ Seeds[p] \in Seq(ToSet(Seeds[p]))
        /\ \A i \in DOMAIN Seeds[p] : Seeds[p][i].kind \in ToSet(AllKinds)

Unit(source, n, title, sub, part) ==
    [source |-> source.id, order |-> n, kind |-> source.kind, title |-> title, sub |-> sub,
     score |-> part.score, size |-> part.size]

\* _split_markdown_source: a section for each h2, and for each h3 below one; a
\* section without a body keeps its number and makes no unit.
MarkdownUnits(source) ==
    LET parts == source.parts
        above(i) == {j \in 1..i : parts[j].level = 2}
        sections == {i \in DOMAIN parts : above(i) # {}}
        unit(i) == Unit(source, Cardinality(sections \cap 1..i), parts[Max(above(i))].title,
                        IF parts[i].level = 2 THEN AnyTitle ELSE parts[i].title, parts[i])
    IN  {unit(i) : i \in {j \in sections : parts[j].body}}

\* _split_sql_source: a unit for each statement, named after its table.
SqlUnits(source) ==
    {Unit(source, n, source.parts[n].title, AnyTitle, source.parts[n]) : n \in DOMAIN source.parts}

\* build_units.
Units(sources) ==
    UNION {IF s.kind = SourceDdl THEN SqlUnits(s) ELSE MarkdownUnits(s) : s \in sources}

InOrder(u, v) == u.source < v.source \/ (u.source = v.source /\ u.order < v.order)

\* The order of _rank_units.
Better(u, v) == u.score > v.score \/ (u.score = v.score /\ InOrder(u, v))

ByScore(units) == {e \in units \X units : Better(e[1], e[2])}

Positive(units) == {u \in units : u.score > 0}

\* _matches_fallback_seed: the section of that title, or one below it.
MatchesSeed(u, seed) == u.kind = seed.kind /\ seed.title \in {AnyTitle, u.title}

\* kind_rank: the kinds of the seeds come first.
KindRank(p, k) ==
    LET order == [i \in DOMAIN Seeds[p] |-> Seeds[p][i].kind] \o AllKinds
    IN  Min({i \in DOMAIN order : order[i] = k})

\* _fallback_units: the first unit of each seed, in the order of the seeds,
\* then the others by kind.
FallbackRank(p, units, u) ==
    LET first(i) == /\ MatchesSeed(u, Seeds[p][i])
                    /\ ~ \E v \in units : MatchesSeed(v, Seeds[p][i]) /\ InOrder(v, u)
        seeds == {i \in DOMAIN Seeds[p] : first(i)}
    IN  IF seeds # {} THEN Min(seeds) ELSE Len(Seeds[p]) + KindRank(p, u.kind)

ByFallback(p, units) ==
    LET rank == [u \in units |-> FallbackRank(p, units, u)]
    IN  {e \in units \X units : \/ rank[e[1]] < rank[e[2]]
                                \/ rank[e[1]] = rank[e[2]] /\ InOrder(e[1], e[2])}

Entry(u, reason) == [unit |-> u, reason |-> reason]

Entries(units) == {Entry(u, reason) : u \in units, reason \in {"lexical", "fallback"}}

Planned(list, reason) == [i \in DOMAIN list |-> Entry(list[i], reason)]

Chosen(plan) == {plan[i].unit : i \in DOMAIN plan}

\* The first round takes the best units, one of each Markdown source.
TakeBest(p, units, u) ==
    [plan \in Seq(Entries(units)) |->
        IF \/ Len(plan) >= RoundLimit[p]
           \/ u.kind # SourceDdl /\ \E v \in Chosen(plan) : v.source = u.source
        THEN plan
        ELSE Append(plan, Entry(u, "lexical"))]

FirstRound(p, units) ==
    LET ranked == Ordered(Positive(units), ByScore(units))
    IN  After([i \in DOMAIN ranked |-> TakeBest(p, units, ranked[i])], <<>>, Len(ranked))

\* What a seed adds to a plan: the best matching unit if it is nearly as good
\* as the best of the kind, or if the kind was asked for before; else the best
\* of the kind; else, for lack of a score, the unit of just that title.
Addition(p, units, i, planned) ==
    LET seed == Seeds[p][i]
        again == \E j \in 1..(i - 1) : Seeds[p][j].kind = seed.kind
        ofKind == {u \in Positive(units) \ planned : u.kind = seed.kind}
        matching == {u \in ofKind : MatchesSeed(u, seed)}
        exact == {u \in units \ planned :
                    MatchesSeed(u, seed) /\ (seed.title = AnyTitle \/ u.sub = AnyTitle)}
        best(S) == Foremost(S, ByScore(units))
    IN  IF matching # {} /\ (again \/ 10 * best(matching).score >= 6 * best(ofKind).score)
        THEN <<Entry(best(matching), "lexical")>>
        ELSE IF ofKind # {} THEN <<Entry(best(ofKind), "lexical")>>
        ELSE IF exact # {} THEN <<Entry(Foremost(exact, ByFallback(p, units)), "fallback")>>
        ELSE <<>>

\* How often seeds up to i ask for a kind.
Share(p, i, k) == Cardinality({j \in 1..i : Seeds[p][j].kind = k})

CountOf(plan, k) == Cardinality({j \in DOMAIN plan : plan[j].unit.kind = k})

\* Mutant: what was planned may be planned again.
SupplementTwice(p, units, i) ==
    [plan \in Seq(Entries(units)) |->
        IF CountOf(plan, Seeds[p][i].kind) >= Share(p, i, Seeds[p][i].kind) THEN plan
        ELSE plan \o Addition(p, units, i, {})]

\* A seed adds nothing when its kind has its share.
Supplement(p, units, i) ==
    [plan \in Seq(Entries(units)) |->
        IF CountOf(plan, Seeds[p][i].kind) >= Share(p, i, Seeds[p][i].kind) THEN plan
        ELSE plan \o Addition(p, units, i, Chosen(plan))]

\* The plan up to the units that no limit and no seed asks for.
Supplemented(p, units) ==
    After([i \in DOMAIN Seeds[p] |-> Supplement(p, units, i)], FirstRound(p, units), Len(Seeds[p]))

\* _build_positive_plan, or the fallback units when nothing has a score.
PlanOf(p, units) ==
    LET head == Supplemented(p, units)
        scored == Positive(units)
    IN  IF scored = {} THEN Planned(Ordered(units, ByFallback(p, units)), "fallback")
        ELSE head \o Planned(Ordered(scored \ Chosen(head), ByScore(units)), "lexical")
             \o Planned(Ordered(units \ (scored \cup Chosen(head)), ByFallback(p, units)), "fallback")

TokensUsed(plan) == Total(HeaderTokens, [i \in DOMAIN plan |-> plan[i].unit.size])

\* What does not fit is skipped.
FitUnit(plan, i) ==
    [selected \in Seq(ToSet(plan)) |->
        IF Len(selected) >= UnitLimit \/ TokensUsed(Append(selected, plan[i])) > TokenLimit
        THEN selected ELSE Append(selected, plan[i])]

\* _fit_units.
FitUnits(plan) == After([i \in DOMAIN plan |-> FitUnit(plan, i)], <<>>, Len(plan))

-----------------------------------------------------------------------------
\* A plan lists every unit once, and the reason it gives for a unit is true.
PlansEveryUnit(p, units) ==
    LET plan == PlanOf(p, units)
    IN  /\ Chosen(plan) = units /\ Len(plan) = Cardinality(units)
        /\ \A i \in DOMAIN plan : plan[i].reason = "lexical" <=> plan[i].unit.score > 0

\* Each kind that n seeds ask for has n units in the head of a plan, or all
\* its units that have a score; and a seed whose section exists finds the
\* kind represented.
MeetsQuotas(p, units) ==
    LET head == Supplemented(p, units)
    IN  \A i \in DOMAIN Seeds[p] :
            LET k == Seeds[p][i].kind
            IN  /\ \/ CountOf(head, k) >= Share(p, Len(Seeds[p]), k)
                   \/ {u \in Positive(units) : u.kind = k} \subseteq Chosen(head)
                /\ (\E u \in units : MatchesSeed(u, Seeds[p][i]) /\ u.sub = AnyTitle)
                   => CountOf(head, k) > 0

\* A unit is left out only if the context is full in number, or would be too
\* long with it even at the end.
LeavesNoUnitOut(plan) ==
    LET selected == FitUnits(plan)
    IN  /\ selected # <<>> => TokensUsed(selected) <= TokenLimit
        /\ \A x \in ToSet(plan) \ ToSet(selected) :
            Len(selected) = UnitLimit \/ TokensUsed(Append(selected, x)) > TokenLimit
===============================================================================
