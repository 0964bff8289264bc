SPECIFICATION RetrievalFairSpec
CONSTANTS
    core = core
    overlay = overlay
    a = a
    b = b
    x = x
    y = y
    p1 = p1
    r1 = r1
    first = first
    upgraded = upgraded
    alone = alone
    lone = lone
    NoTemplate = NoTemplate
    Absent = Absent
    NoRow = NoRow
    NoCheckout = NoCheckout
    Nobody = Nobody
    Templates <- TwoTemplates
    Versions <- TwoVersions
    Contents <- FourContents
    ParentOf <- MCParentOf
    Checkouts <- ThreeCheckouts
    Registry <- MCRegistry
    Defaults <- MCDefaults
    Syncers <- OneSyncer
    Readers <- OneReader
    CoreTemplates <- OnlyCore
    SizeOf <- MCSizeOf
    TopK = 2
    Budget = 3
INVARIANTS
    StatusWasTrue
    ContextWasOneCatalog
    UndisturbedIsAnswered
PROPERTIES
    RequestsEnd
