------------------------------ MODULE Artifacts ------------------------------
(***************************************************************************)
(* What the chat service accepts as the artifact of a prompt, from         *)
(* artifacts/markdown.py, and what the end-to-end evaluation demands of    *)
(* the same text, from evaluation/rules.py and evaluation/dataset.py.      *)
(*                                                                         *)
(* A text is [wrapped, blocks]: wrapped says that all of it stands in a    *)
(* fence of Markdown.  A block is a record with the terms it contains:     *)
(*   [type "h1" or "h2", text, style, terms]   style is plain for "## x"   *)
(*   [type "fence", lang, header, lines, tokenized, code, terms]           *)
(*   [type "html", break, terms]   break for <br> within a line            *)
(*   [type "text", claim, terms]   claim for "executed successfully"       *)
(* where code holds the terms of a fence outside its comments, tokenized   *)
(* tells that the tokenizer of Python reads all of it, lines holds the     *)
(* sections that a line of it names as "## x", and header what is in the   *)
(* first row of it, read as CSV.                                           *)
(***************************************************************************)
EXTENDS SequencesExt

CONSTANTS
    MaxBlocks,      \* MAX_ARTIFACT_CHARS
    Placeholder,    \* the title that stands for one
    ScoredModels,   \* _EVALUATION_MODELS
    CaseCount, NorthwindCount, ManualCases

NoLanguage == "none"

\* The prompts: kind of artifact, language of its code, sections, and which
\* contexts a prompt gets.  A prompt about the workspace makes a proposal.
Document(artifact, sections, official, templates) ==
    [artifact |-> artifact, lang |-> NoLanguage, sections |-> sections,
     official |-> official, templates |-> templates, workspace |-> FALSE]

Code(artifact, lang) ==
    [artifact |-> artifact, lang |-> lang, sections |-> <<>>,
     official |-> TRUE, templates |-> TRUE, workspace |-> TRUE]

AnswerSections == <<"conclusion", "scenarios", "details", "cautions", "to confirm">>

\* PROMPT_SPECS.
Specs ==
    [databricks_qa |-> Document("answer", AnswerSections, FALSE, TRUE),
     ddl_generation |-> Code("sql", "sql"),
     mapping_generation |-> Code("csv", "csv"),
     sql_generation |-> Code("sql", "sql"),
     pyspark_generation |-> Code("pyspark", "python"),
     notebook_generation |-> Code("notebook", "python"),
     workflow_design |->
        [Document("workflow_design",
            <<"requirements", "sources", "bronze", "silver", "gold", "notebooks", "jobs", "schedule",
              "monitoring", "risks", "follow-up">>, TRUE, TRUE) EXCEPT !.workspace = TRUE],
     document_summary |->
        Document("summary", <<"summary", "points", "terms", "risks", "to confirm">>, FALSE, FALSE),
     knowledge_qa |-> Document("answer", Append(AnswerSections, "citations"), TRUE, FALSE),
     proposal_generation |->
        Document("proposal", <<"background", "scope", "design", "plan", "deliverables", "risks",
                               "to confirm">>, TRUE, TRUE),
     self_check |->
        Document("checklist", <<"subject", "passed", "problems", "suggestions", "to confirm">>,
                 FALSE, TRUE)]

\* No document that is asked for is too long.
ASSUME ArtifactAssumption ==
    /\ MaxBlocks \in Nat /\ \A p \in DOMAIN Specs : Len(Specs[p].sections) < MaxBlocks
    /\ Placeholder # "t"

\* What stands outside the comments of a fence stands in it.
IsFence(block) == block.type = "fence" => block.code \subseteq block.terms

\* project_fact_status.
Fact(spec) == IF spec.workspace THEN "proposal" ELSE "none"

-----------------------------------------------------------------------------
(* The artifact of a prompt.                                               *)

Language(block) == IF block.type = "fence" THEN block.lang ELSE NoLanguage

FirstLanguage(blocks) == IF blocks = <<>> THEN NoLanguage ELSE Language(blocks[1])

\* The places of the headings.
Headings(blocks, tag) == {i \in DOMAIN blocks : blocks[i].type = tag}

\* _contains_unsafe_html.
UnsafeHtml(spec, blocks) ==
    \E b \in ToSet(blocks) : b.type = "html" /\ ~(spec.artifact = "workflow_design" /\ b.break)

\* Mutant: the fence may stand anywhere.
CodeHasFence(spec, blocks) == \E b \in ToSet(blocks) : Language(b) = spec.lang

\* _validate_code_artifact.
ValidCode(spec, blocks) ==
    /\ FirstLanguage(blocks) = spec.lang
    /\ \E b \in ToSet(blocks) : Language(b) = spec.lang

\* _validate_csv_artifact.
ValidCsv(blocks) ==
    /\ FirstLanguage(blocks) = "csv" /\ blocks[1].header = "columns"
    /\ \A i \in DOMAIN blocks : Language(blocks[i]) = "csv" => i = 1

\* _validate_document_artifact: the one title begins the text, and the sections
\* stand in their order, each where its heading is found first.
ValidDocument(spec, blocks) ==
    LET h2 == Headings(blocks, "h2")
        at(section) == Min({i \in h2 : blocks[i].text = section})
    IN  /\ Headings(blocks, "h1") = {1} /\ blocks[1].text # Placeholder
        /\ ToSet(spec.sections) \subseteq {blocks[i].text : i \in h2}
        /\ \A i, j \in DOMAIN spec.sections : i < j => at(spec.sections[i]) <= at(spec.sections[j])

\* MarkdownArtifactParser.parse: what is stored is the text without the fence
\* around all of it.
ValidArtifact(spec, blocks) ==
    /\ blocks # <<>> /\ Len(blocks) <= MaxBlocks
    /\ ~UnsafeHtml(spec, blocks)
    /\ IF spec.artifact = "csv" THEN ValidCsv(blocks)
       ELSE IF spec.lang # NoLanguage THEN ValidCode(spec, blocks)
       ELSE ValidDocument(spec, blocks)

\* normalize_markdown: with the fence around it or without, the same is left.
Normalized(text) == text.blocks

-----------------------------------------------------------------------------
(* The cases of the evaluation.                                            *)

\* _DatasetSourceModel.validate_contract, of one case.
ValidCase(case) ==
    LET spec == Specs[case.prompt]
        expected == case.expected
        northwind == case.group = "northwind"
    IN  /\ expected.artifact = spec.artifact /\ expected.fact = Fact(spec)
        /\ expected.lang = spec.lang /\ expected.sections = spec.sections
        /\ expected.official = spec.official
        /\ expected.workspace = northwind /\ spec.workspace = northwind
        /\ northwind <=> expected.units # {}

ValidDataset(dataset) ==
    LET cases == ToSet(dataset.cases)
    IN  /\ Len(dataset.cases) = CaseCount /\ Cardinality({c.id : c \in cases}) = CaseCount
        /\ dataset.models = ScoredModels
        /\ Cardinality({c \in cases : c.group = "northwind"}) = NorthwindCount
        /\ {c.id : c \in {d \in cases : d.manual}} = ManualCases
        /\ \A c \in cases : ValidCase(c)

-----------------------------------------------------------------------------
(* The rules, as the set of those that fail.                               *)

Terms(blocks) == UNION {b.terms : b \in ToSet(blocks)}

\* _code_without_comments: comments are known in two languages only, and code
\* that is no Python to the tokenizer is left as it is.
CommentsAreTold(fence) == fence.lang = "sql" \/ (fence.lang = "python" /\ fence.tokenized)

\* _first_code_fence, and what is scored of it.
FirstFence(blocks) ==
    LET fences == {i \in DOMAIN blocks : blocks[i].type = "fence"}
        fence == blocks[Min(fences)]
    IN  IF fences = {} THEN [lang |-> "none", code |-> {}]
        ELSE [lang |-> fence.lang,
              code |-> IF CommentsAreTold(fence) THEN fence.code ELSE fence.terms]

\* The sections that the pattern for "## x" finds, in a fence as elsewhere.
SectionLines(blocks) ==
    {b.text : b \in {c \in ToSet(blocks) : c.type = "h2" /\ c.style = "plain"}}
    \cup UNION {b.lines : b \in {c \in ToSet(blocks) : c.type = "fence"}}

Broken(rules) == {rule \in DOMAIN rules : ~rules[rule]}

\* _score_content, and no_false_execution_claim.
ContentRules(expected, blocks) ==
    LET fence == FirstFence(blocks)
    IN  [required_terms |-> expected.terms \subseteq Terms(blocks),
         required_any_terms |-> \A group \in expected.anyTerms : group \cap Terms(blocks) # {},
         forbidden_terms |-> expected.forbidden \cap Terms(blocks) = {},
         required_sections |-> ToSet(expected.sections) \subseteq SectionLines(blocks),
         code_fence_language |-> expected.lang \in {NoLanguage, fence.lang},
         code_required_terms |-> expected.codeTerms \subseteq fence.code,
         code_forbidden_terms |-> expected.codeForbidden \cap fence.code = {},
         no_false_execution_claim |-> ~(\E b \in ToSet(blocks) : b.type = "text" /\ b.claim)]

\* _score_citations and _score_workspace.
ContextRules(expected, evidence) ==
    [official_citations |-> ~expected.official \/ evidence.citations # {},
     official_citation_domain |->
        ~expected.official \/ (evidence.citations # {} /\ evidence.citations \subseteq {"official"}),
     workspace_not_injected |-> expected.workspace \/ evidence.units = {},
     workspace_expected_units |-> ~expected.workspace \/ expected.units \subseteq evidence.units]

\* round(sum / count, 4) of ten-thousandths, in ten-thousandths: a tie, which no
\* share of less than 32 terms has, is taken up.
Rounded(sum, count) == (2 * sum + count) \div (2 * count)

\* soft_score.
SoftScore(suggested, blocks) ==
    IF suggested = {} THEN 10000
    ELSE Rounded(10000 * Cardinality(suggested \cap Terms(blocks)), Cardinality(suggested))

-----------------------------------------------------------------------------
\* The document that a prompt asks for, with its title.
Title(text) == [type |-> "h1", text |-> text, style |-> "plain", terms |-> {}]
Section(text, style) == [type |-> "h2", text |-> text, style |-> style, terms |-> {}]
Asked(names, style) == <<Title("t")>> \o [i \in DOMAIN names |-> Section(names[i], style)]

\* The rules on code see all the code of a fence, and nothing of its comments
\* where these are told from the code.
SeesCode(expected, rules, fence) ==
    LET required == expected.codeTerms \subseteq fence.code
        forbidden == expected.codeForbidden \cap fence.code # {}
    IN  /\ required => rules.code_required_terms
        /\ forbidden => ~rules.code_forbidden_terms
        /\ CommentsAreTold(fence) =>
            (rules.code_required_terms => required) /\ (~rules.code_forbidden_terms => forbidden)

\* An artifact that was accepted for the prompt of a case keeps the rules on
\* its form, given that its headings are written as "## x": the fence that is
\* scored is the one that was accepted, and it begins the text.
AcceptedKeepsForm(case, text) ==
    LET blocks == Normalized(text)
        rules == ContentRules(case.expected, blocks)
    IN  ValidCase(case) /\ ValidArtifact(Specs[case.prompt], blocks) =>
            /\ (\A b \in ToSet(blocks) : b.type = "h2" => b.style = "plain") => rules.required_sections
            /\ rules.code_fence_language
            /\ case.expected.lang \in {"sql", "python"} =>
                /\ blocks[1].type = "fence"
                /\ SeesCode(case.expected, rules, blocks[1])
===============================================================================
