------------------------ MODULE MCKnowledgeIngestion ------------------------
EXTENDS KnowledgeIngestion

CONSTANTS docsCatalog, page, other, legacy, v1, v2, v3, x, y, p1, p2

OneCatalog == {docsCatalog}
OnePage == {page}
TwoPages == {page, other}
OneLegacyKey == {legacy}
Nothing == {}
TwoVersions == {v1, v2}
\* v3 is a page whose content came back under a new validator.
ThreeVersions == {v1, v2, v3}

MCCatalogOf == [s \in Sources |-> docsCatalog]
MCBodies == {x, y}
MCBodyOf == [v \in Versions |-> IF v = v2 THEN y ELSE x]
MCChunkCount == [b \in MCBodies |-> IF b = x THEN 1 ELSE 2]

OneSyncer == {p1}
\* Two developers may start a sync each: nothing in the code keeps them apart.
TwoSyncers == {p1, p2}
=============================================================================
