SPECIFICATION FairHistorySpec
CONSTANTS
    t1 = t1
    t2 = t2
    flash = flash
    pro = pro
    Turns <- TwoTurns
    Models <- TwoModels
    Requested <- MCRequested
    Fallbacks <- OneFallback
    UsesIndexes <- Everyone
    HistoryLimit = 2
    PoolSize = 2
INVARIANTS
    TypeOK
    AnswersAreAudited
    NoUnrecordedRetry
    AnswersFollowQuestions
    HistoryIsThePast
PROPERTIES
    ImplementsConversation
    TurnsEnd
