SPECIFICATION Spec
CONSTANTS
    docsCatalog = docsCatalog
    page = page
    other = other
    legacy = legacy
    v1 = v1
    v2 = v2
    v3 = v3
    x = x
    y = y
    p1 = p1
    p2 = p2
    NoRow = NoRow
    NoTag = NoTag
    Nobody = Nobody
    NoOne = NoOne
    Catalogs <- OneCatalog
    Sources <- OnePage
    CatalogOf <- MCCatalogOf
    LegacyKeys <- OneLegacyKey
    Links <- Nothing
    Versions <- TwoVersions
    Bodies <- MCBodies
    BodyOf <- MCBodyOf
    ChunkCount <- MCChunkCount
    Syncers <- TwoSyncers
INVARIANTS
    ChunksDescribeBody
    OneRowPerIdentity
PROPERTY ImplementsLifecycle
