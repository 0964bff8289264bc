SPECIFICATION Spec
CONSTANTS
    c1 = c1
    c2 = c2
    Commands <- MCCommands
    RunOf <- MCRunOf
    ModelsFor <- MCModelsFor
    Fallback <- MCFallback
    ScoredModels <- MCModels
    Selections <- MCSelections
    Dataset <- MCDataset
    Baselines <- MCBaselines
    Answers <- MCAnswers
    MinimumSoft = 9000
    MaxFaults = 2
    MaxBlocks = 20
    Placeholder = "title"
    CaseCount = 2
    NorthwindCount = 1
    ManualCases <- MCManual
INVARIANTS
    GateIsEarned
    ReportsAgree
PROPERTY ResultsAreKept
CHECK_DEADLOCK FALSE
