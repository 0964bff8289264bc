----------------------------- MODULE MCAlgorithms -----------------------------
(***************************************************************************)
(* The inputs of Algorithms for TLC.                                       *)
(***************************************************************************)
EXTENDS Algorithms

CONSTANTS i1, i2, i3, s, t, unknown, demo, ghost, aws, ask, explain

ThreeTemplates == {s, t, unknown}

ThreeItems == {i1, i2, i3}
MCTieOrder == [x \in Items |-> CHOOSE n \in 1..3 : x = <<i1, i2, i3>>[n]]
\* i1 and i3 are chunks of one template.
MCTemplateOf == [x \in Items |-> IF x = i2 THEN 2 ELSE 1]

\* Bound: lists of at most three ids, repetitions included.
Lists == UNION {[1..n -> Items] : n \in 0..3}
MCFusionInputs == [vector: Lists, lexical: Lists]

\* Two pages; the first returns to its first heading after another one.
Chunk(id, doc, heading, index, size) ==
    [id |-> id, doc |-> doc, heading |-> heading, index |-> index, size |-> size]

Chunks == {Chunk(1, 1, 1, 0, 2), Chunk(2, 1, 1, 1, 1), Chunk(3, 1, 2, 2, 1),
           Chunk(4, 1, 1, 3, 3), Chunk(5, 2, 1, 1, 1)}

\* What the second chunk was before a publication.
Earlier == Chunk(6, 1, 1, 1, 2)

\* Bound: every order of every choice of the five chunks, and of up to three if
\* the earlier one may be among them.
Rankings(S, most) ==
    UNION {{r \in [1..n -> S] : \A i, j \in 1..n : i # j => r[i] # r[j]} : n \in 0..most}

RankedChunks == Rankings(Chunks, 5) \cup Rankings(Chunks \cup {Earlier}, 3)

MCContextInputs == [ranked: RankedChunks]

\* Bound: two templates of any layers, profiles, clouds, prompts and parents,
\* generic and one more profile.
AnyTemplate ==
    [layer: {Core, demo, ghost}, profile: {Unbound, demo}, cloud: {Neutral, aws},
     prompts: {{ask}, {explain}}, extends: {NoParent, s, t, unknown}]

GenericProfile ==
    [layers |-> <<Core>>, cloud |-> Neutral, main |-> TRUE, defaults |-> [p \in {ask} |-> <<s>>]]

AnyProfile ==
    {[layers |-> l, cloud |-> aws, main |-> FALSE, defaults |-> [p \in {ask} |-> d]] :
        l \in {<<Core>>, <<Core, demo>>}, d \in {<<s>>, <<s, t>>}}

MCSourceInputs ==
    [profiles: {[p \in {Generic, demo} |-> IF p = demo THEN q ELSE GenericProfile] : q \in AnyProfile},
     templates: [{s, t} -> AnyTemplate]]

OnlyAsk == {ask}

\* Two purposes of the form of _FALLBACK_SEEDS: one asks twice for rules, the
\* other begins with the DDL.
MCSeeds == [mapping |-> <<[kind |-> "rule", title |-> "t1"], [kind |-> "ddl", title |-> "any"],
                          [kind |-> "rule", title |-> "t2"], [kind |-> "quality", title |-> "t3"]>>,
            sql |-> <<[kind |-> "ddl", title |-> "any"], [kind |-> "quality", title |-> "t3"]>>]

MCRoundLimit == [mapping |-> 2, sql |-> 1]
MCKinds == <<"ddl", "rule", "quality">>

\* Bound: a rule source whose first section may lack a body, a second rule
\* source, two statements, and a quality section below a heading or not; units
\* without a score, with the best, and with one that is below the ratio to it.
Part(level, title, body, score, size) ==
    [level |-> level, title |-> title, body |-> body, score |-> score, size |-> size]

Workspaces ==
    {{[id |-> 1, kind |-> "rule",
       parts |-> <<Part(2, "t1", full, s1, 1), Part(3, "x", TRUE, s2, 2), Part(2, "t2", TRUE, s3, 1)>>],
      [id |-> 2, kind |-> "ddl",
       parts |-> <<Part(0, "orders", TRUE, s4, 3), Part(0, "items", TRUE, s5, 1)>>],
      [id |-> 3, kind |-> "quality",
       parts |-> <<Part(2, "t3", deep = 0, s6, 1), Part(3, "y", deep = 1, s6, 2)>>]} :
        full \in BOOLEAN, deep \in {0, 1}, s1, s2, s3, s4, s5, s6 \in {0, 5, 10}}

MCWorkspaceInputs == [sources: Workspaces, purpose: DOMAIN MCSeeds]

\* A contract of one document, and three registrable files, of which the first
\* two have the same name but for its case.
DdlPath(top, dir, stem) == [form |-> "relative", top |-> top, dir |-> dir, stem |-> stem, suffix |-> "sql"]

RulesPath == [form |-> "relative", top |-> "rules", dir |-> 0, stem |-> 0, suffix |-> "md"]

MCDocuments == [n \in {1} |-> <<[id |-> 1, kind |-> "rule", path |-> RulesPath, h1 |-> "h",
                                  sections |-> {"t1"}]>>]

MCFolded == [n \in 1..3 |-> IF n = 2 THEN 1 ELSE n]

\* What each title stands for; truncate writes and is not recognized.
MCStatementType ==
    [title \in {"orders", "truncate", "insert", "copy", "values", "comment"} |->
        CASE title = "orders" -> "CREATE" [] title = "insert" -> "INSERT" [] OTHER -> "UNKNOWN"]
MCCopyFromStdin == {"copy"}
MCValuesStatement == {"values"}

FilePaths == {DdlPath("source-schema", 1, 1), DdlPath("source-schema", 2, 2), DdlPath("source-schema", 1, 3)}

AFile(h2, titles) ==
    [inside |-> TRUE, size |-> Len(titles), utf8 |-> TRUE, h1 |-> <<"h">>, h2 |-> h2,
     parts |-> [i \in DOMAIN titles |-> Part(0, titles[i], TRUE, 0, 1)]]

\* Bound: one or two schemas of one or two files, a document with the section
\* or without it, and one file with one of six contents.
FileLists == {f \in UNION {[1..n -> FilePaths] : n \in 1..2} : NoRepeats(f)}

SchemaLists ==
    LET schema(n, f) == [id |-> n, dialect |-> "d", files |-> f]
    IN  {<<schema(1, f)>> : f \in FileLists}
        \cup {<<schema(1, f), schema(2, <<p>>)>> : f \in FileLists, p \in FilePaths}
        \cup {<<schema(2, <<p>>), schema(1, <<q>>)>> : p, q \in FilePaths}

Package(schemas, titles, h2) ==
    [manifest |-> [id |-> 1, version |-> 1, contract |-> 1, schemas |-> schemas],
     files |-> [p \in FilePaths \cup {RulesPath} |->
                    IF p = RulesPath THEN AFile(h2, <<"t1">>)
                    ELSE IF p.stem = 1 THEN AFile({}, titles) ELSE AFile({}, <<"orders">>)]]

Contents == {<<"orders">>, <<"orders", "truncate">>, <<"comment", "orders">>, <<"comment">>}
            \cup {<<"orders", write>> : write \in {"insert", "copy"}}

MCPackageInputs ==
    UNION {[one: {Package(a, c, h2) : a \in SchemaLists, h2 \in {{}, {"t1"}}},
            other: {Package(b, d, {"t1"}) : b \in SchemaLists, d \in {c, <<"orders">>}}] : c \in Contents}

\* Bound: pages of at most four headings, with an anchor each, without, in a
\* table, without text, without a body, and of a level that is not counted.
MarkdownHead(level, title, id, link, place, blocks) ==
    [level |-> level, title |-> title, id |-> id, link |-> link, place |-> place, blocks |-> blocks]

OneBlock == <<[text |-> <<1>>, wrap |-> 0]>>

HeadShapes ==
    {MarkdownHead(l, "one", 1, NoAnchor, "top", OneBlock) : l \in 1..4}
    \cup {MarkdownHead(l, "two", NoAnchor, NoAnchor, "top", OneBlock) : l \in 2..3}
    \cup {MarkdownHead(1, "two", NoAnchor, 1, "top", <<>>), MarkdownHead(2, NoTitle, 1, NoAnchor, "top", OneBlock),
          MarkdownHead(2, "one", 1, NoAnchor, "cell", OneBlock)}

\* Anchors are given once in a page.
Named(h, i) == [h EXCEPT !.id = IF @ = NoAnchor THEN NoAnchor ELSE <<"id", i>>,
                         !.link = IF @ = NoAnchor THEN NoAnchor ELSE <<"id", i>>]

MarkdownPages == UNION {{[i \in 1..n |-> Named(h[i], i)] : h \in [1..n -> HeadShapes]} : n \in 1..4}
MCPageInputs == [page: MarkdownPages]

\* Bound: sections of at most three blocks under a heading of one to four
\* tokens; texts of characters of one, two and three tokens.
Letters(n, width) == [text |-> [i \in 1..n |-> (i + width - 1) \div width], wrap |-> 0]
Fenced(n, width) == [Letters(n, width) EXCEPT !.wrap = 2]

BlockShapes == {Letters(1, 1), Letters(2, 1), Letters(10, 2), Letters(9, 3), Fenced(2, 1), Fenced(8, 1)}
MCSectionInputs == [prefix: 1..4, blocks: UNION {[1..n -> BlockShapes] : n \in 1..3}]

\* Bound: at most four texts, with one fault in the first or second answer.
Texts == UNION {[1..n -> 0..3] : n \in 1..4}
Faults == {[kind |-> "none", at |-> 0]}
          \cup {[kind |-> k, at |-> n] : k \in FaultKinds \ {"none"}, n \in {1, 2}}
MCTextInputs == [texts: Texts, backwards: BOOLEAN, fault: Faults]

\* Bound: texts of at most three blocks for the prompts for code, with what is
\* required and what is forbidden in the code or only in its comments; for the
\* others the document that is asked for and nine that deviate from it.
Fence(lang, header, code) ==
    [type |-> "fence", lang |-> lang, header |-> header, lines |-> {}, tokenized |-> TRUE,
     code |-> code, terms |-> {"a", "b"}]

Html(break) == [type |-> "html", break |-> break, terms |-> {}]

CodeBlocks ==
    {Fence("sql", "other", {"a"}), Fence("sql", "other", {"b"}), Fence("python", "other", {"a"}),
     [Fence("python", "other", {}) EXCEPT !.tokenized = FALSE],
     Fence("csv", "columns", {}), Fence("csv", "other", {}),
     [type |-> "text", claim |-> FALSE, terms |-> {}], Html(TRUE)}

CodeTexts == UNION {[1..n -> CodeBlocks] : n \in 0..3}

DocumentTexts(names) ==
    LET swapped == [names EXCEPT ![1] = names[2], ![2] = names[1]]
        quoted == [Fence("text", "other", {}) EXCEPT !.lines = {names[1]}]
    IN  {Asked(names, "plain"), Asked(names, "underlined"), Asked(Tail(names), "plain"),
         Asked(swapped, "plain"), Append(Asked(Tail(names), "plain"), quoted),
         <<Title("t")>> \o Asked(names, "plain"), Tail(Asked(names, "plain")),
         Append(Tail(Asked(names, "plain")), Title(Placeholder)),
         Append(Asked(names, "plain"), Html(TRUE)), Append(Asked(names, "plain"), Html(FALSE))}

MCScoredModels == <<"flash", "pro">>
MCManualCases == {}

\* The case that asks for what the prompt asks for, but for the language.
AskedOf(prompt, lang) ==
    LET spec == Specs[prompt]
    IN  [id |-> 1, prompt |-> prompt, group |-> IF spec.workspace THEN "northwind" ELSE "generic",
         suggested |-> {}, manual |-> FALSE,
         expected |-> [artifact |-> spec.artifact, fact |-> Fact(spec), lang |-> lang,
                       sections |-> spec.sections, official |-> spec.official,
                       workspace |-> spec.workspace, units |-> IF spec.workspace THEN {"u"} ELSE {},
                       terms |-> {}, anyTerms |-> {}, forbidden |-> {}, codeTerms |-> {"a"},
                       codeForbidden |-> {"b"}]]

MCArtifactInputs ==
    UNION {[case: {AskedOf(p, lang) : lang \in {NoLanguage, "sql", "python", "csv"}},
            text: [wrapped: BOOLEAN,
                   blocks: IF Specs[p].lang = NoLanguage THEN DocumentTexts(Specs[p].sections) ELSE CodeTexts]] :
           p \in DOMAIN Specs}

\* Bound: small data sets, the thirty cases of the templates, and the smallest
\* set with a share that two decimals would round up to four fifths.
CaseCounts == 1..12 \cup {30, 44}

MCGateInputs == UNION {[hits: 0..n, count: {n}, leaks: 0..1] : n \in CaseCounts}
===============================================================================
