------------------------------ MODULE Algorithms ------------------------------
(***************************************************************************)
(* The fetch loop, and the pure algorithms: each step that chooses an      *)
(* input examines one algorithm, whose contract is an invariant over the   *)
(* inputs chosen.                                                          *)
(***************************************************************************)
EXTENDS FetchLoop, RankFusion, KnowledgeContext, TemplateSources, WorkspaceContext,
        WorkspaceSources, MarkdownChunks, EmbeddingBatches, Artifacts, RetrievalGates

\* The inputs, each a record.
CONSTANTS
    FusionInputs,    \* [vector, lexical]
    ContextInputs,   \* [ranked]
    SourceInputs,    \* [profiles, templates]
    WorkspaceInputs, \* [sources, purpose]
    PackageInputs,   \* [one, other]
    PageInputs,      \* [page]
    SectionInputs,   \* [prefix, blocks]
    TextInputs,      \* [texts, backwards, fault]
    ArtifactInputs,  \* [case, text]
    GateInputs       \* [hits, count, leaks]

VARIABLE input

\* Bound: the cases, or units, of a data set for which rounding to four
\* decimals is exact about tenths.
MostCases == 1999

FaultKinds == {"none", "missing", "doubled", "range", "vector"}

IsSequence(x) == x \in Seq(ToSet(x))

\* What holds of every input of the code: ids are those of chunks, a search
\* ranks a chunk once; templates and profiles are parsed, the sources of a
\* workspace have names of their own, a page is a sequence of parts, blocks have
\* text, a reply answers one of the prompts.
ASSUME InputAssumption ==
    /\ \A x \in FusionInputs : x.vector \in Seq(Items) /\ x.lexical \in Seq(Items)
    /\ \A x \in ContextInputs :
        /\ IsSequence(x.ranked)
        /\ \A i, j \in DOMAIN x.ranked : x.ranked[i].id = x.ranked[j].id => i = j
        /\ \A i \in DOMAIN x.ranked : IsChunk(x.ranked[i])
    /\ \A x \in SourceInputs :
        /\ DOMAIN x.templates \subseteq TemplateIds
        /\ \A p \in DOMAIN x.profiles : x.profiles[p].layers # <<>> /\ IsSequence(x.profiles[p].layers)
    /\ \A x \in WorkspaceInputs :
        /\ x.purpose \in DOMAIN Seeds
        /\ IsFiniteSet(x.sources) /\ \A s, t \in x.sources : s.id = t.id => s = t
        /\ \A s \in x.sources :
            /\ s.id \in Nat /\ s.kind \in ToSet(AllKinds) /\ IsSequence(s.parts)
            /\ \A i \in DOMAIN s.parts : s.parts[i].score \in Nat /\ s.parts[i].size \in Nat
    /\ \A x \in PackageInputs : IsManifest(x.one.manifest) /\ IsManifest(x.other.manifest)
    /\ \A x \in PageInputs : IsSequence(x.page)
    /\ \A x \in SectionInputs :
        /\ x.prefix \in Nat /\ IsSequence(x.blocks)
        /\ \A b \in DOMAIN x.blocks : ProperBlock(x.blocks[b])
    /\ \A x \in TextInputs :
        x.texts \in Seq(Nat) /\ x.backwards \in BOOLEAN /\ x.fault.kind \in FaultKinds
    /\ \A x \in ArtifactInputs :
        /\ x.case.prompt \in DOMAIN Specs
        /\ IsSequence(x.text.blocks) /\ \A b \in ToSet(x.text.blocks) : IsFence(b)
    /\ \A x \in GateInputs : x.count \in 1..MostCases /\ x.hits \in 0..x.count /\ x.leaks \in Nat

\* WorkspaceSourceKind.SOURCE_DDL, which the registry gives and the context reads.
ASSUME KindAssumption == DdlKind = SourceDdl

Unchosen == [of |-> "nothing"]

\* Bound: one input in a behaviour, instead of a fetch.
Fresh == input = Unchosen /\ requests = 0 /\ state = "sending" /\ kind = "page"

Examine(algorithm, inputs) ==
    /\ Fresh
    /\ \E x \in inputs : input' = [of |-> algorithm, on |-> x]
    /\ UNCHANGED fetchVars

ExamineFusion == Examine("fusion", FusionInputs)
ExamineContext == Examine("context", ContextInputs)
ExamineSources == Examine("sources", SourceInputs)
ExamineWorkspace == Examine("workspace", WorkspaceInputs)
ExaminePackages == Examine("packages", PackageInputs)
ExaminePage == Examine("page", PageInputs)
ExamineSection == Examine("section", SectionInputs)
ExamineTexts == Examine("texts", TextInputs)
ExamineArtifact == Examine("artifact", ArtifactInputs)
ExamineGates == Examine("gates", GateInputs)

Fetch == input = Unchosen /\ FetchNext /\ UNCHANGED input

Init == FetchInit /\ input = Unchosen

Next == Fetch \/ ExamineFusion \/ ExamineContext \/ ExamineSources \/ ExamineWorkspace
        \/ ExaminePackages \/ ExaminePage \/ ExamineSection \/ ExamineTexts
        \/ ExamineArtifact \/ ExamineGates

Spec == Init /\ [][Next]_<<fetchVars, input>>

-----------------------------------------------------------------------------
\* The fusion of two rankings respects both, whatever they list and repeat.
FusionRespectsRankings ==
    input.of = "fusion" => RespectsRankings(input.on.vector, input.on.lexical)

\* The sources of a knowledge context are the runs of its chunks, cited by
\* their best chunks, at every step of the selection; and the pages that the
\* evaluation ranks are the pages in the order in which they would be cited,
\* each no later than any chunk of it.
SourcesAreRuns ==
    input.of = "context" =>
        LET ranked == input.on.ranked
            pages == TopSources(ranked, 5)
        IN  /\ CitesRuns(ranked) /\ CitesRuns(Build(ranked))
            /\ TopSources(Citations(ranked), 5) = pages
            /\ \A i \in DOMAIN ranked : i <= 5 => FirstRelevantRank({ranked[i].doc}, pages) \in 1..i

\* The token budget of the official documents is kept and nothing left out.
BudgetIsUsed == input.of = "context" => LeavesNothingOut(input.on.ranked)

\* The evaluation finds neither a leak nor a missing parent in what a profile
\* gets, in whatever order the search returns it.
EvaluatesClean(profiles, templates) ==
    \A p \in DOMAIN profiles, prompt \in ExpertPrompts :
        \A ranked \in SetToSeqs(Searched(profiles, templates, p, prompt)) :
            LET result == EvaluatedTemplates(
                    {}, {templates[x].layer : x \in DOMAIN templates} \ ToSet(profiles[p].layers),
                    [x \in DOMAIN templates |-> templates[x].layer],
                    [x \in DOMAIN templates |-> templates[x].extends], NoParent,
                    Context!Build(AsDocuments(templates), ranked), 3)
            IN  ~result.leak /\ ~result.miss

\* Accepted template sources serve every profile, and pass the gates of the
\* evaluation on leaks and on parents.
AcceptedSourcesServe ==
    input.of = "sources" =>
        /\ ServesEveryProfile(input.on.profiles, input.on.templates)
        /\ Accepted(input.on.profiles, input.on.templates) => EvaluatesClean(input.on.profiles, input.on.templates)

\* Every fact of a workspace is planned once, for the reason that is told, each
\* kind of facts that a prompt asks for gets its share, and what does not get
\* into the context does not fit.
FactsAreBalanced ==
    input.of = "workspace" =>
        /\ PlansEveryUnit(input.on.purpose, Units(input.on.sources))
        /\ MeetsQuotas(input.on.purpose, Units(input.on.sources))
        /\ LeavesNoUnitOut(PlanOf(input.on.purpose, Units(input.on.sources)))

\* What the context builder makes of the DDL of an accepted package, whose
\* statements it splits anew: from every source some unit that is more than a
\* comment, so that there always are facts to choose from, and none that the
\* registry recognizes as writing data.
DdlMakesFacts(w) ==
    AcceptedWorkspace(w) =>
        \A s \in Loaded(w) : s.kind = DdlKind =>
            LET units == {u \in Units(Loaded(w)) : u.source = s.id}
            IN  /\ \E u \in units : u.title # Comment
                /\ \A u \in units : u.title # Comment => ~Recognized(u.title)

\* What the registry accepts can be relied on: the hash tells contents apart
\* and nothing else, no two sources share a name, and the DDL makes facts.
AcceptedPackagesHaveFacts ==
    input.of = "packages" =>
        /\ HashTellsContent(input.on.one, input.on.other)
        /\ SourcesAreNamed(input.on.one) /\ DdlMakesFacts(input.on.one)

\* The path and the anchor of every section are those of its own heading.
SectionsAreLocated ==
    input.of = "page" =>
        FollowsOutline("title", input.on.page) /\ AnchorsPointHome("title", input.on.page)

\* Splitting a section loses nothing, however long its blocks are.
ChunksLoseNothing == input.of = "section" => LosesNothing(input.on.prefix, input.on.blocks)

\* Every text gets its own vector, whatever order the service answers in, and
\* a spoilt answer is refused.
VectorsKeepTheirText ==
    input.of = "texts" =>
        LET batches == Batches(input.on.texts)
            answers == Answers(batches, input.on.backwards, input.on.fault)
        IN  ValidTexts(input.on.texts) =>
                /\ Honest(batches, answers) /\ EmbedsInOrder(input.on.texts, answers)
                /\ ValidAnswers(batches, answers) <=> ~Spoilt(batches, input.on.fault)

\* What the parser accepts for a prompt keeps the rules of the evaluation on
\* its form, and the document that the prompt asks for is accepted.
ArtifactsKeepForm ==
    input.of = "artifact" =>
        LET spec == Specs[input.on.case.prompt]
        IN  /\ AcceptedKeepsForm(input.on.case, input.on.text)
            /\ spec.lang = NoLanguage /\ input.on.text.blocks = Asked(spec.sections, "plain") =>
                ValidArtifact(spec, Normalized(input.on.text))

\* A data set of retrieval passes its gate just if the exact share of hits is
\* enough: no rounding opens or shuts it.
GatesRoundExactly ==
    input.of = "gates" => ExactGates(input.on.hits, input.on.count, input.on.leaks)
===============================================================================
