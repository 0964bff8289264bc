SPECIFICATION HistorySpec
CONSTANTS
    t1 = t1
    t2 = t2
    flash = flash
    pro = pro
    Turns <- TwoTurns
    Models <- OneModel
    Requested <- MCRequested
    Fallbacks <- NoFallback
    UsesIndexes <- Everyone
    HistoryLimit = 2
    PoolSize = 2
INVARIANTS
    NoConnectionDuringModelCall
