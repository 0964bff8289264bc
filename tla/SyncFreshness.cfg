SPECIFICATION FairHistorySpec
CONSTANTS
    docsCatalog = docsCatalog
    apiCatalog = apiCatalog
    page = page
    link = link
    legacy = legacy
    v1 = v1
    v2 = v2
    v3 = v3
    x = x
    y = y
    p1 = p1
    NoRow = NoRow
    NoTag = NoTag
    Nobody = Nobody
    NoOne = NoOne
    Catalogs <- OneCatalog
    Sources <- OnePage
    CatalogOf <- MCCatalogOf
    LegacyKeys <- OneLegacyKey
    Links <- Nothing
    Versions <- ThreeVersions
    Bodies <- MCBodies
    BodyOf <- MCBodyOf
    ChunkCount <- MCChunkCount
    Syncers <- OneSyncer
INVARIANTS
    EtagDescribesBody
    ReportedSourcesAreUpToDate
PROPERTIES
    IndexConverges
    RemovedSourceLeaves
