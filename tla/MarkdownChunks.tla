---------------------------- MODULE MarkdownChunks ----------------------------
(***************************************************************************)
(* How a page of Markdown becomes chunks, from search/markdown.py, and the *)
(* anchors of its headings, from rag/normalizer.py.                        *)
(*                                                                         *)
(* A page is a sequence of headings [level, title, id, link, place] with   *)
(* the blocks below each, level 0 standing for the text before the first.  *)
(* A block is [text, wrap]: text is a sequence of tokens, each the number  *)
(* of the character it is a part of, and wrap the tokens of the two lines  *)
(* around a closed fence, 0 for any other block.                           *)
(* Tokens add up: a joint costs Gap, whatever it joins.                    *)
(***************************************************************************)
EXTENDS SequencesExt, StepFold, Orders

CONSTANTS
    ChunkSize,      \* chunk_size_tokens
    Overlap,        \* chunk_overlap_tokens
    Reserve,        \* the tokens kept beside the prefix in a window
    Gap,            \* tokens of an empty line
    NoTitle, NoAnchor

ASSUME ChunkAssumption ==
    /\ ChunkSize \in Nat /\ Overlap \in Nat /\ Overlap < ChunkSize
    /\ Gap \in Nat /\ Reserve \in Nat /\ Gap <= Reserve

\* A block of a page: it has tokens, and characters follow each other.
ProperBlock(block) ==
    /\ block.wrap \in Nat /\ block.text \in Seq(Nat) /\ block.text # <<>>
    /\ \A m, n \in DOMAIN block.text : m <= n => block.text[m] <= block.text[n]

-----------------------------------------------------------------------------
(* Headings.                                                               *)

Counts(h) == h.level \in 1..3 /\ h.title # NoTitle

HeadingsAt(parts) == {i \in DOMAIN parts : Counts(parts[i])}

\* The parts at some places, in the order of the page.
Picked(parts, places) ==
    LET at == InTurn(places)
    IN  [k \in DOMAIN at |-> parts[at[k]]]

\* Mutant: a heading without text has an anchor as well.
AnchorsOfAll(page) ==
    LET heads == Picked(page, {i \in DOMAIN page : page[i].level \in 1..3})
    IN  [k \in DOMAIN heads |-> IF heads[k].id # NoAnchor THEN heads[k].id ELSE heads[k].link]

\* _remove_heading_permalinks: an anchor, or none, for each heading.
AnchorsOf(page) ==
    LET heads == Picked(page, HeadingsAt(page))
    IN  [k \in DOMAIN heads |-> IF heads[k].id # NoAnchor THEN heads[k].id ELSE heads[k].link]

\* markdownify: a heading in the cell of a table is text there.
AsMarkdown(page) == Picked(page, {i \in DOMAIN page : page[i].place # "cell"})

Paths(title, parts) ==
    [1..3 -> {title, NoTitle} \cup {parts[i].title : i \in DOMAIN parts}]

\* The hierarchy when a heading has been read: the title, or none, of each level.
Descend(title, parts, h) ==
    [path \in Paths(title, parts) |->
        [l \in 1..3 |-> IF l = h.level THEN h.title
                        ELSE IF l > h.level THEN NoTitle
                        ELSE IF l = 1 /\ path[1] = NoTitle THEN title ELSE path[l]]]

\* _slug and the count of its occurrences, for the headings that have no anchor.
\* A title stands for its slug: none is empty, and none reads like another one
\* with a count behind it.
Slug(heads, anchors, k) ==
    LET given(j) == j \in DOMAIN anchors /\ anchors[j] # NoAnchor
    IN  <<heads[k].title,
          Cardinality({j \in 1..(k - 1) : heads[j].title = heads[k].title /\ ~given(j)})>>

\* _sections, by the number of the heading, 0 for the text before the first:
\* those that have a body.  What is no heading is text of the section it is in.
Sections(title, parts, anchors) ==
    LET at == InTurn(HeadingsAt(parts))
        heads == Picked(parts, HeadingsAt(parts))
        body(k) == (IF k = 0 THEN 1 ELSE at[k])..(IF k = Len(at) THEN Len(parts) ELSE at[k + 1] - 1)
        steps == [k \in DOMAIN heads |-> Descend(title, parts, heads[k])]
        preamble == [path |-> [l \in 1..3 |-> IF l = 1 THEN title ELSE NoTitle], anchor |-> NoAnchor]
        section(k) ==
            [path |-> After(steps, [l \in 1..3 |-> NoTitle], k),
             anchor |-> IF k \in DOMAIN anchors /\ anchors[k] # NoAnchor THEN anchors[k]
                        ELSE Slug(heads, anchors, k)]
    IN  [k \in {m \in 0..Len(at) : \E i \in body(m) : parts[i].blocks # <<>>} |->
            IF k = 0 THEN preamble ELSE section(k)]

-----------------------------------------------------------------------------
(* Blocks.  A fragment is the tokens from + 1 to to of a block.            *)

Fragments == [block : Nat, from : Nat, to : Nat, size : Nat]

Fragment(b, block, from, to) ==
    [block |-> b, from |-> from, to |-> to, size |-> to - from + block.wrap]

\* _render, as its tokens.
Rendered(prefix, fragments) ==
    Total(prefix, [i \in DOMAIN fragments |-> Gap + fragments[i].size])

Fits(prefix, fragments) == Rendered(prefix, fragments) <= ChunkSize

Whole(b, block) == Fragment(b, block, 0, Len(block.text))

WindowSize(prefix) == ChunkSize - (prefix + Reserve)

\* The errors of _expand_blocks and _split_token_window.
CanSplit(prefix, block) ==
    prefix + Reserve < ChunkSize /\ Fits(prefix, <<Fragment(1, block, 0, 1)>>)

Expandable(prefix, blocks) ==
    /\ prefix < ChunkSize
    /\ \A b \in DOMAIN blocks : Fits(prefix, <<Whole(b, blocks[b])>>) \/ CanSplit(prefix, blocks[b])

\* Where a window from a token ends: the fence around it may make it smaller.
WindowEnd(prefix, block, from) ==
    LET furthest == Min({from + WindowSize(prefix), Len(block.text)})
    IN  Max({to \in (from + 1)..furthest : Fits(prefix, <<Fragment(1, block, from, to)>>)})

\* Mutant: the next window begins one overlap before the full window's end.
NextWindowOfFull(prefix, block, from, to) ==
    Max({from + 1, from + WindowSize(prefix) - Min({Overlap, to - from - 1})})

NextWindow(prefix, block, from, to) == Max({from + 1, to - Min({Overlap, to - from - 1})})

\* One more window of a text, or of the body of a fence, until one ends with it.
Cut(prefix, b, block) ==
    [windows \in Seq(Fragments) |->
        LET n == Len(block.text)
            last == windows[Len(windows)]
            cursor == IF windows = <<>> THEN 0 ELSE NextWindow(prefix, block, last.from, last.to)
        IN  IF windows # <<>> /\ (last.to = n \/ cursor >= n) THEN windows
            ELSE Append(windows, Fragment(b, block, cursor, WindowEnd(prefix, block, cursor)))]

\* _split_token_window: no window begins where another does.
Windows(prefix, b, block) ==
    After([i \in DOMAIN block.text |-> Cut(prefix, b, block)], <<>>, Len(block.text))

\* A block as it is, or its windows.
Pieces(prefix, b, block) ==
    IF Fits(prefix, <<Whole(b, block)>>) THEN <<Whole(b, block)>> ELSE Windows(prefix, b, block)

Expand(prefix, blocks, b) ==
    [expanded \in Seq(Fragments) |-> expanded \o Pieces(prefix, b, blocks[b])]

\* _expand_blocks.
Expanded(prefix, blocks) ==
    After([b \in DOMAIN blocks |-> Expand(prefix, blocks, b)], <<>>, Len(blocks))

Suffix(s, n) == SubSeq(s, Len(s) - n + 1, Len(s))

\* _overlap_suffix: the longest end of a chunk that is short enough.
OverlapSuffix(current) ==
    LET end(n) == Suffix(current, n)
        body(n) == Total(Gap * (n - 1), [i \in 1..n |-> end(n)[i].size])
    IN  end(Max({n \in 0..Len(current) : \A m \in 1..n : body(m) <= Overlap}))

\* What is left of it in front of the next fragment.
Carried(prefix, current, f) ==
    LET suffix == OverlapSuffix(current)
        room == {n \in 0..Len(suffix) : Fits(prefix, Append(Suffix(suffix, n), f))}
    IN  Suffix(suffix, IF room = {} THEN 0 ELSE Max(room))

\* A fragment comes to the current chunk, or begins another.
Pack(prefix, f) ==
    [state \in [packed : Seq(Seq(Fragments)), current : Seq(Fragments)] |->
        IF Fits(prefix, Append(state.current, f))
        THEN [state EXCEPT !.current = Append(@, f)]
        ELSE [packed |-> Append(state.packed, state.current),
              current |-> Append(Carried(prefix, state.current, f), f)]]

\* _pack_blocks: the chunks of one section.
Packed(prefix, fragments) ==
    LET last == After([i \in DOMAIN fragments |-> Pack(prefix, fragments[i])],
                      [packed |-> <<>>, current |-> <<>>], Len(fragments))
    IN  IF last.current = <<>> THEN last.packed ELSE Append(last.packed, last.current)

ChunksOfSection(prefix, blocks) == Packed(prefix, Expanded(prefix, blocks))

-----------------------------------------------------------------------------
\* The path of a section is the outline above it: of each higher level the
\* nearest heading before, unless one of a higher level stands between, with
\* the title of the page for a missing first level.
FollowsOutline(title, page) ==
    LET parts == AsMarkdown(page)
        heads == Picked(parts, HeadingsAt(parts))
        open(j, k) == \A i \in (j + 1)..k : heads[i].level > heads[j].level
        above(k, l) == {j \in 1..k : heads[j].level = l /\ open(j, k)}
        expected(k, l) ==
            IF above(k, l) # {} THEN heads[CHOOSE j \in above(k, l) : TRUE].title
            ELSE IF l = 1 THEN title ELSE NoTitle
        sections == Sections(title, parts, AnchorsOf(page))
    IN  \A k \in DOMAIN sections : sections[k].path = [l \in 1..3 |-> expected(k, l)]

\* A page without headings in tables gives each section the anchor of its own
\* heading, and no two headings that lack one get the same.
AnchorsPointHome(title, page) ==
    LET sections == Sections(title, AsMarkdown(page), AnchorsOf(page))
        heads == Picked(page, HeadingsAt(page))
        own(k) == IF heads[k].id # NoAnchor THEN heads[k].id ELSE heads[k].link
        told == DOMAIN sections \ {0}
    IN  (\A i \in DOMAIN page : page[i].place # "cell") =>
            /\ \A k \in told : own(k) # NoAnchor => sections[k].anchor = own(k)
            /\ \A j, k \in told :
                own(j) = NoAnchor /\ own(k) = NoAnchor /\ sections[j].anchor = sections[k].anchor => j = k

TokensOfFragment(f) == {<<f.block, n>> : n \in (f.from + 1)..f.to}

TokensOfChunk(chunk) == UNION {TokensOfFragment(f) : f \in ToSet(chunk)}

Character(text, n) == {m \in DOMAIN text : text[m] = text[n]}

Widest(text) == Max({Cardinality(Character(text, n)) : n \in DOMAIN text})

\* All tokens of a character are in one of the fragments.
IsWhole(all, b, text, n) ==
    \E f \in all : f.block = b /\ Character(text, n) \subseteq (f.from + 1)..f.to

\* The overlap covers what a cut may take from a character.
CutsAreCovered(all, b, text) ==
    \A f \in all : f.block = b /\ f.to # Len(text)
        => f.to - f.from >= Overlap + Widest(text) /\ Overlap >= Widest(text) - 1

\* The chunks of a section lose nothing: no chunk is too long, each says
\* something new, every token is in one, and every character is whole in one
\* when the overlap covers what a cut may take from a character.
LosesNothing(prefix, blocks) ==
    LET chunks == ChunksOfSection(prefix, blocks)
        all == UNION {ToSet(chunks[c]) : c \in DOMAIN chunks}
        everything == UNION {{<<b, n>> : n \in DOMAIN blocks[b].text} : b \in DOMAIN blocks}
    IN  Expandable(prefix, blocks) =>
            /\ \A i \in DOMAIN chunks : Fits(prefix, chunks[i])
            /\ \A i \in DOMAIN chunks :
                ~(TokensOfChunk(chunks[i]) \subseteq UNION {TokensOfChunk(chunks[j]) : j \in 1..(i - 1)})
            /\ UNION {TokensOfChunk(chunks[i]) : i \in DOMAIN chunks} = everything
            /\ \A b \in DOMAIN blocks : CutsAreCovered(all, b, blocks[b].text) =>
                \A n \in DOMAIN blocks[b].text : IsWhole(all, b, blocks[b].text, n)
===============================================================================
