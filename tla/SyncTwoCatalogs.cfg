SPECIFICATION HistorySpec
CONSTANTS
    docsCatalog = docsCatalog
    apiCatalog = apiCatalog
    page = page
    link = link
    legacy = legacy
    v1 = v1
    v2 = v2
    v3 = v3
    x = x
    y = y
    p1 = p1
    NoRow = NoRow
    NoTag = NoTag
    Nobody = Nobody
    NoOne = NoOne
    Catalogs <- TwoCatalogs
    Sources <- PageAndLink
    CatalogOf <- MCCatalogOf
    LegacyKeys <- Nothing
    Links <- OneLink
    Versions <- TwoVersions
    Bodies <- MCBodies
    BodyOf <- MCBodyOf
    ChunkCount <- MCChunkCount
    Syncers <- OneSyncer
PROPERTIES
    AbsenceWasObserved
    UsefulRunLeavesIndexQueryable
CONSTRAINT PageKeepsContent
