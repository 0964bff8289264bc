SPECIFICATION Spec
CONSTANTS
    i1 = i1
    i2 = i2
    i3 = i3
    s = s
    t = t
    unknown = unknown
    demo = demo
    ghost = ghost
    aws = aws
    ask = ask
    explain = explain
    FusionInputs <- MCFusionInputs
    ContextInputs <- MCContextInputs
    SourceInputs <- MCSourceInputs
    WorkspaceInputs <- MCWorkspaceInputs
    PackageInputs <- MCPackageInputs
    PageInputs <- MCPageInputs
    SectionInputs <- MCSectionInputs
    TextInputs <- MCTextInputs
    ArtifactInputs <- MCArtifactInputs
    GateInputs <- MCGateInputs
    MaxRetries = 2
    MaxRedirects = 5
    Items <- ThreeItems
    TieOrder <- MCTieOrder
    TemplateOf <- MCTemplateOf
    K = 60
    TopK = 3
    Budget = 8
    Frame = 1
    Heading = 1
    Generic = Generic
    Core = Core
    Neutral = Neutral
    ExpertPrompts <- OnlyAsk
    Unbound = Unbound
    NoParent = NoParent
    NoSource = NoSource
    TemplateIds <- ThreeTemplates
    SourceDdl = "ddl"
    AllKinds <- MCKinds
    AnyTitle = "any"
    Seeds <- MCSeeds
    RoundLimit <- MCRoundLimit
    UnitLimit = 4
    TokenLimit = 7
    HeaderTokens = 1
    Documents <- MCDocuments
    DdlKind = "ddl"
    Folded <- MCFolded
    StatementType <- MCStatementType
    CopyFromStdin <- MCCopyFromStdin
    ValuesStatement <- MCValuesStatement
    Comment = "comment"
    SourceMax = 2
    PackageMax = 5
    ChunkSize = 8
    Overlap = 2
    Reserve = 2
    Gap = 1
    NoTitle = NoTitle
    NoAnchor = NoAnchor
    InputTokens = 2
    BatchItems = 2
    BatchTokens = 3
    MaxBlocks = 20
    Placeholder = "placeholder"
    ScoredModels <- MCScoredModels
    CaseCount = 1
    NorthwindCount = 0
    ManualCases <- MCManualCases
INVARIANTS
    ArtifactsKeepForm
    FactsAreBalanced
    SectionsAreLocated
    ChunksLoseNothing
    VectorsKeepTheirText
    AcceptedPackagesHaveFacts
    RequestsBounded
    FusionRespectsRankings
    SourcesAreRuns
    BudgetIsUsed
    AcceptedSourcesServe
    GatesRoundExactly
CHECK_DEADLOCK FALSE
