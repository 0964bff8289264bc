--------------------------- MODULE MCSyncFreshness ---------------------------
EXTENDS SyncFreshness

CONSTANTS docsCatalog, apiCatalog, page, link, legacy, v1, v2, v3, x, y, p1

\* One page: three versions, the third with the content of the first again
\* under a validator of its own, perhaps stored by an older release.
OneCatalog == {docsCatalog}
OnePage == {page}
OneLegacyKey == {legacy}
ThreeVersions == {v1, v2, v3}

\* A page and a link, of two catalogs that fail independently.
TwoCatalogs == {docsCatalog, apiCatalog}
PageAndLink == {page, link}
OneLink == {link}
TwoVersions == {v1, v2}
Nothing == {}

MCCatalogOf == [s \in Sources |-> IF s = page THEN docsCatalog ELSE apiCatalog]
MCBodies == {x, y}
MCBodyOf == [v \in Versions |-> IF v = v2 THEN y ELSE x]
MCChunkCount == [b \in MCBodies |-> IF b = x THEN 1 ELSE 2]
OneSyncer == {p1}

\* Bound: only the link changes its content, the page comes and goes.
PageKeepsContent == page \in Sources => site[page] = v1
=============================================================================
