---------------------------- MODULE RetrievalGates ----------------------------
(***************************************************************************)
(* The gates of the three evaluations of retrieval: of the knowledge index *)
(* (rag/evaluation.py), of the expert templates                            *)
(* (expert_templates/evaluation.py) and of the workspaces                  *)
(* (workspace/evaluation.py).  Each compares a share of hits, rounded to   *)
(* four decimals, with a minimum.                                          *)
(*                                                                         *)
(* Shares and minima are in ten-thousandths.                               *)
(***************************************************************************)
EXTENDS Integers, SequencesExt, Orders

\* Mutant: rounded to two decimals.
NearestPercent(hits, count) ==
    {r \in {100 * p : p \in 0..100} :
        LET error == r * count - 10000 * hits
        IN  -100 * count <= 2 * error /\ 2 * error <= 100 * count}

\* round(hits / count, 4): a tie may go either way.
Nearest(hits, count) ==
    {r \in 0..10000 :
        LET error == r * count - 10000 * hits
        IN  -count <= 2 * error /\ 2 * error <= count}

Recall(hits, count) == CHOOSE r \in Nearest(hits, count) : TRUE

Reaches(hits, count, minimum) == Recall(hits, count) >= minimum

-----------------------------------------------------------------------------
(* The knowledge index: pages among the first ones that were found.        *)

FirstOn(ranked, page) == Min({i \in DOMAIN ranked : ranked[i].doc = page})

\* _top_sources: the pages of ranked chunks, each where it comes first.
TopSources(ranked, limit) ==
    LET pages == {ranked[i].doc : i \in DOMAIN ranked}
        found == Ordered(pages, {e \in pages \X pages : FirstOn(ranked, e[1]) < FirstOn(ranked, e[2])})
    IN  SubSeq(found, 1, Min({limit, Len(found)}))

\* first_relevant_rank, 0 for None.
FirstRelevantRank(expected, sources) ==
    LET ranks == {i \in DOMAIN sources : sources[i] \in expected}
    IN  IF ranks = {} THEN 0 ELSE Min(ranks)

\* KnowledgeEvaluator.evaluate; what it finds is hit or not case by case.
KnowledgePassed(hits, count) == Reaches(hits, count, 8000)

-----------------------------------------------------------------------------
(* Expert templates: selected ids, with the layer and the parent of each.  *)

\* _evaluate_case.
EvaluatedTemplates(expected, forbidden, layerOf, parentOf, none, selected, topK) ==
    [hit  |-> \E i \in DOMAIN selected : i <= topK /\ selected[i] \in expected,
     leak |-> \E x \in ToSet(selected) : layerOf[x] \in forbidden,
     miss |-> \E x \in ToSet(selected) : parentOf[x] # none /\ parentOf[x] \notin ToSet(selected)]

\* ExpertTemplateEvaluator.evaluate.
TemplatesPassed(hits, count, leaks, misses) ==
    Reaches(hits, count, 9000) /\ leaks = 0 /\ misses = 0

-----------------------------------------------------------------------------
(* Workspaces: the units that the cases expect, all cases together.        *)

\* WorkspaceEvaluator.evaluate.
WorkspacePassed(matched, expected, leaks) == Reaches(matched, expected, 10000) /\ leaks = 0

-----------------------------------------------------------------------------
\* A gate opens just if the exact share reaches its minimum, four fifths, nine
\* tenths or all: rounding never makes up for a hit.
ExactGates(hits, count, leaks) ==
    /\ KnowledgePassed(hits, count) <=> 5 * hits >= 4 * count
    /\ TemplatesPassed(hits, count, leaks, 0) <=> 10 * hits >= 9 * count /\ leaks = 0
    /\ WorkspacePassed(hits, count, leaks) <=> hits = count /\ leaks = 0
===============================================================================
