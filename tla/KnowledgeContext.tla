---------------------------- MODULE KnowledgeContext ----------------------------
(***************************************************************************)
(* The text and the citations that a turn gets from ranked chunks of the   *)
(* official documents, from rag/context.py: chunks are taken as long as    *)
(* the whole text fits; neighbours under one heading are told as one       *)
(* source, which is numbered anew whenever a chunk is taken.               *)
(*                                                                         *)
(* A chunk is [id, doc, heading, index, size]; heading stands for the      *)
(* anchor that it is cited at and the headings that it is under.  Tokens   *)
(* add up over the parts of a text.                                        *)
(***************************************************************************)
EXTENDS SequencesExt, StepFold, Orders

CONSTANTS
    TopK,           \* RAG_TOP_K
    Budget,         \* RAG_MAX_CONTEXT_TOKENS
    Frame,          \* tokens of the text around all sources
    Heading         \* tokens of the lines that introduce a source

ASSUME ContextAssumption ==
    TopK \in Nat \ {0} /\ Budget \in Nat \ {0} /\ Frame \in Nat /\ Heading \in Nat

\* A row of kb_chunks; a number stands for a string by its place in their order.
IsChunk(c) == c.id \in Nat /\ c.doc \in Nat /\ c.heading \in Nat /\ c.index \in Nat /\ c.size \in Nat

RankOf(selected, chunk) == CHOOSE i \in DOMAIN selected : selected[i] = chunk

\* The order in which neighbours come together.
Precedes(x, y) ==
    \/ x.doc < y.doc
    \/ x.doc = y.doc /\ x.heading < y.heading
    \/ x.doc = y.doc /\ x.heading = y.heading /\ x.index < y.index
    \/ x.doc = y.doc /\ x.heading = y.heading /\ x.index = y.index /\ x.id < y.id

ByPlace(S) == {e \in S \X S : Precedes(e[1], e[2])}

\* Mutant: chunks of one page are neighbours under whatever headings.
AdjacentOnPage(previous, current) ==
    previous.doc = current.doc /\ current.index = previous.index + 1

\* _is_adjacent.
Adjacent(previous, current) ==
    /\ previous.doc = current.doc
    /\ previous.heading = current.heading
    /\ current.index = previous.index + 1

\* A group begins at each chunk that is not adjacent to the one before it.
Starts(placed) == {i \in DOMAIN placed : i = 1 \/ ~Adjacent(placed[i - 1], placed[i])}

EndOfRun(placed, i) == Max({j \in DOMAIN placed : \A k \in (i + 1)..j : k \notin Starts(placed)})

\* The groups of neighbours, each in the order of the page.
RawGroups(selected) ==
    LET placed == Ordered(ToSet(selected), ByPlace(ToSet(selected)))
    IN  {SubSeq(placed, i, EndOfRun(placed, i)) : i \in Starts(placed)}

FirstRank(selected, group) == Min({RankOf(selected, c) : c \in ToSet(group)})

ByRank(selected, groups) ==
    {e \in groups \X groups : FirstRank(selected, e[1]) < FirstRank(selected, e[2])}

\* _group_adjacent_chunks: the sources, in the order of their best chunks.
Groups(selected) == Ordered(RawGroups(selected), ByRank(selected, RawGroups(selected)))

\* _render_context: source i is cited by its best chunk.
Citations(selected) ==
    LET groups == Groups(selected)
    IN  [i \in DOMAIN groups |-> selected[FirstRank(selected, groups[i])]]

TokensOf(selected) ==
    LET groups == Groups(selected)
    IN  Total(Frame, [i \in DOMAIN groups |->
                        Total(Heading, [j \in DOMAIN groups[i] |-> groups[i][j].size])])

\* Mutant: the first chunk that does not fit ends the selection.
TakeUntilFull(ranked, i) ==
    [selected \in Seq(ToSet(ranked)) |->
        IF /\ Len(selected) = i - 1 /\ Len(selected) < TopK
           /\ TokensOf(Append(selected, ranked[i])) <= Budget
        THEN Append(selected, ranked[i])
        ELSE selected]

\* A chunk that does not fit is passed over, and later ones are tried.
Take(ranked, i) ==
    [selected \in Seq(ToSet(ranked)) |->
        IF Len(selected) < TopK /\ TokensOf(Append(selected, ranked[i])) <= Budget
        THEN Append(selected, ranked[i])
        ELSE selected]

\* build, for distinct chunks, best first.
Build(ranked) == After([i \in DOMAIN ranked |-> Take(ranked, i)], <<>>, Len(ranked))

-----------------------------------------------------------------------------
\* kb_chunks has one chunk in a place of a document; two searches with a
\* publication between them may find two.
OfOneVersion(S) == \A c, d \in S : c.doc = d.doc /\ c.index = d.index => c = d

\* Each chunk is of one source; where no page is there in two versions, two
\* chunks are of one source exactly if no chunk between them is missing or
\* under another heading; the sources are numbered by their best chunks, and
\* every source is cited by that chunk and told in the order of the page.
CitesRuns(selected) ==
    LET groups == Groups(selected)
        GroupOf(c) == {i \in DOMAIN groups : c \in ToSet(groups[i])}
        Best(i) == RankOf(selected, Citations(selected)[i])
        Between(c, d) == {e \in ToSet(selected) :
            e.doc = c.doc /\ e.heading = c.heading /\ c.index <= e.index /\ e.index <= d.index}
    IN  /\ \A c \in ToSet(selected) : \E i \in DOMAIN groups : GroupOf(c) = {i}
        /\ OfOneVersion(ToSet(selected)) => \A c, d \in ToSet(selected) :
            c.index <= d.index =>
                (GroupOf(c) = GroupOf(d) <=>
                    /\ c.doc = d.doc /\ c.heading = d.heading
                    /\ {e.index : e \in Between(c, d)} = c.index..d.index)
        /\ \A i \in DOMAIN groups :
            /\ Citations(selected)[i] \in ToSet(groups[i])
            /\ \A c \in ToSet(groups[i]) : Best(i) <= RankOf(selected, c)
            /\ \A j \in DOMAIN groups : i < j => Best(i) < Best(j)
            /\ \A n \in DOMAIN groups[i] : groups[i][n].index = groups[i][1].index + n - 1

\* A chunk is selected exactly if it fits when its turn comes, after what of
\* the selection is ahead of it in the ranking.
Weighed(ranked, selected, i) ==
    \E n \in 0..Len(selected) :
        LET taken == SubSeq(selected, 1, n)
        IN  /\ ToSet(taken) = ToSet(selected) \cap {ranked[j] : j \in 1..(i - 1)}
            /\ ranked[i] \in ToSet(selected) <=>
                    n < TopK /\ TokensOf(Append(taken, ranked[i])) <= Budget

\* Nothing is left out that would have fitted, and what is told keeps the budget.
LeavesNothingOut(ranked) ==
    LET selected == Build(ranked)
    IN  /\ selected # <<>> => TokensOf(selected) <= Budget
        /\ \A i \in DOMAIN ranked : Weighed(ranked, selected, i)
=================================================================================
