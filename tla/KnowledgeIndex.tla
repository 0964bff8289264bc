--------------------------- MODULE KnowledgeIndex ---------------------------
(***************************************************************************)
(* The PostgreSQL tables behind the Databricks knowledge index and the     *)
(* operations rag/repository.py performs on them.  Every operation runs in *)
(* a session of its own and locks the rows it changes, so each is one      *)
(* atomic step here.                                                       *)
(*                                                                         *)
(* A source is a (catalog, URL) pair and is also the key derived from it   *)
(* (a hash of the URL prefixed by the catalog id).  A legacy key is one    *)
(* that an older release wrote by hand and the code has yet to migrate.    *)
(***************************************************************************)
EXTENDS Naturals, FiniteSets

CONSTANTS
    Catalogs,       \* catalogs of the source manifest
    Sources,        \* every (catalog, URL) that a catalog may ever list
    CatalogOf,      \* the catalog of each source
    LegacyKeys,     \* source keys written before keys were derived from URLs
    Versions,       \* versions of a page; a version is also its validator
    Bodies,         \* normalized contents
    BodyOf,         \* the normalized content of each version
    ChunkCount,     \* how many chunks each content is split into
    Syncers,        \* processes that may run a sync
    NoRow,          \* value of a key that no row has
    NoTag,          \* a missing ETag and Last-Modified
    Nobody          \* owner of a run whose process is gone

ASSUME CatalogAssumption == CatalogOf \in [Sources -> Catalogs]

ASSUME KeyAssumption == Sources \cap LegacyKeys = {}

ASSUME ContentAssumption ==
    /\ BodyOf \in [Versions -> Bodies]
    /\ ChunkCount \in [Bodies -> Nat \ {0}]

ASSUME NoTagAssumption == NoTag \notin Versions

ASSUME NobodyAssumption == Nobody \notin Syncers

VARIABLES
    docs,           \* kb_documents: the row of each source key, or NoRow
    chunks,         \* kb_chunks: the chunks of each row
    lastRun         \* kb_ingestion_runs: the latest run, its owner and status

index == <<docs, chunks, lastRun>>

Keys == Sources \cup LegacyKeys

Tags == Versions \cup {NoTag}

Row == [url: Sources, body: Bodies, etag: Tags,
        status: {"active", "disabled"}, missing: 0..2]

ASSUME NoRowAssumption == NoRow \notin Row

\* Splitting a content: the chunks carry the content and their index.
ChunksOf(b) == {<<b, i>> : i \in 0..(ChunkCount[b] - 1)}

HasRow(k) == docs[k] # NoRow

RowsOf(c) == {k \in Keys : HasRow(k) /\ CatalogOf[docs[k].url] = c}

\* by_identity: the keys under which an identity is stored.
StoredAs(s) == {k \in Keys : HasRow(k) /\ docs[k].url = s}

IndexTypeOK ==
    /\ docs \in [Keys -> Row \cup {NoRow}]
    /\ chunks \in [Keys -> SUBSET (Bodies \X Nat)]
    /\ lastRun \in [owner: Syncers \cup {Nobody},
                    status: {"none", "running", "succeeded", "partial", "failed"}]

-----------------------------------------------------------------------------
(* Before the first run of this release: perhaps rows of an older one,     *)
(* each under a legacy key.                                                *)

LegacyRows ==
    {[url |-> s, body |-> BodyOf[v], etag |-> v, status |-> "active", missing |-> 0] :
        s \in Sources, v \in Versions}

IndexInit ==
    /\ docs \in {d \in [Keys -> LegacyRows \cup {NoRow}] :
                    /\ \A s \in Sources : d[s] = NoRow
                    /\ \A j, k \in LegacyKeys :
                          d[j] # NoRow /\ d[k] # NoRow /\ d[j].url = d[k].url => j = k}
    /\ chunks = [k \in Keys |-> IF docs[k] = NoRow THEN {} ELSE ChunksOf(docs[k].body)]
    /\ lastRun = [owner |-> Nobody, status |-> "none"]

-----------------------------------------------------------------------------
(* Runs.                                                                   *)

StartRun(p) == lastRun' = [owner |-> p, status |-> "running"]

\* Only the latest run is ever read; the end of an older one changes nothing.
FinishRun(p, status) ==
    lastRun' = IF lastRun.owner = p THEN [owner |-> p, status |-> status] ELSE lastRun

\* No handler runs when the process dies: its run stays "running" for good.
AbandonRun(p) ==
    lastRun' = IF lastRun.owner = p THEN [lastRun EXCEPT !.owner = Nobody] ELSE lastRun

-----------------------------------------------------------------------------
(* Identities: a row stored under another key is renamed to the key of its *)
(* URL, with its content and chunks, unless the URL is ambiguous.          *)

Ambiguous(s) ==
    \/ Cardinality(StoredAs(s)) > 1
    \/ HasRow(s) /\ ~(StoredAs(s) \subseteq {s})

\* Mutant: legacy rows are left under their keys.
ToRenameNone(found) == {}

ToRename(found) == {s \in found : ~HasRow(s) /\ StoredAs(s) # {}}

KeyOf(s) == CHOOSE k \in Keys : HasRow(k) /\ docs[k].url = s

Renamed(table, found, blank) ==
    [k \in Keys |-> IF k \in ToRename(found) THEN table[KeyOf(k)]
                    ELSE IF HasRow(k) /\ docs[k].url \in ToRename(found) THEN blank
                    ELSE table[k]]

ReconcileSourceIdentities(found) ==
    /\ \A s \in found : ~Ambiguous(s)
    /\ docs' = Renamed(docs, found, NoRow)
    /\ chunks' = Renamed(chunks, found, {})
    /\ UNCHANGED lastRun

-----------------------------------------------------------------------------
(* Presence: a successful listing of a catalog clears the absences of what *)
(* it lists, counts those of the active rows it does not list, and         *)
(* disables a row at the second.                                           *)

Observed(row) == [row EXCEPT !.missing = 0]

\* Mutant: the first absence already disables.
UnobservedDisables(row) ==
    IF row.status # "active" THEN row ELSE [row EXCEPT !.missing = 2, !.status = "disabled"]

\* Mutant: the second absence counts as the first.
UnobservedForgets(row) ==
    IF row.status # "active" THEN row ELSE [row EXCEPT !.missing = 1]

Unobserved(row) ==
    IF row.status # "active" THEN row
    ELSE IF row.missing = 0 THEN [row EXCEPT !.missing = 1]
    ELSE [row EXCEPT !.missing = 2, !.status = "disabled"]

ReconcileCatalogPresence(c, keys) ==
    /\ docs' = [k \in Keys |-> IF k \notin RowsOf(c) THEN docs[k]
                               ELSE IF k \in keys THEN Observed(docs[k])
                               ELSE Unobserved(docs[k])]
    /\ UNCHANGED <<chunks, lastRun>>

-----------------------------------------------------------------------------
(* Documents.                                                              *)

\* Mutant: the chunks of the previous content are not deleted.
PublishDocumentAppending(s, b, e) ==
    /\ docs' = [docs EXCEPT ![s] = [url |-> s, body |-> b, etag |-> e,
                                    status |-> "active", missing |-> 0]]
    /\ chunks' = [chunks EXCEPT ![s] = @ \cup ChunksOf(b)]
    /\ UNCHANGED lastRun

\* Mutant: an answer without a validator keeps the previous one.
PublishDocumentKeepingTag(s, b, e) ==
    /\ docs' = [docs EXCEPT ![s] =
                   [url |-> s, body |-> b, etag |-> IF e = NoTag /\ HasRow(s) THEN @.etag ELSE e,
                    status |-> "active", missing |-> 0]]
    /\ chunks' = [chunks EXCEPT ![s] = ChunksOf(b)]
    /\ UNCHANGED lastRun

\* The row is replaced, both validators included, and its chunks with it.
PublishDocument(s, b, e) ==
    /\ docs' = [docs EXCEPT ![s] = [url |-> s, body |-> b, etag |-> e,
                                    status |-> "active", missing |-> 0]]
    /\ chunks' = [chunks EXCEPT ![s] = ChunksOf(b)]
    /\ UNCHANGED lastRun

\* Mutant: a check leaves a disabled row disabled.
CheckedKeepingStatus(row, e) ==
    [row EXCEPT !.missing = 0, !.etag = IF e = NoTag THEN @ ELSE e]

\* A missing validator keeps the stored one.
Checked(row, e) ==
    [row EXCEPT !.status = "active", !.missing = 0, !.etag = IF e = NoTag THEN @ ELSE e]

\* One UPDATE by key: without a row it changes nothing.
MarkDocumentChecked(s, e) ==
    /\ docs' = IF HasRow(s) THEN [docs EXCEPT ![s] = Checked(@, e)] ELSE docs
    /\ UNCHANGED <<chunks, lastRun>>

-----------------------------------------------------------------------------
(* get_index_status: may the chat service retrieve from the index?         *)

ActiveKeys == {k \in Keys : HasRow(k) /\ docs[k].status = "active"}

Queryable ==
    /\ \E k \in ActiveKeys : chunks[k] # {}
    /\ lastRun.status \in {"succeeded", "partial"}

-----------------------------------------------------------------------------
(* Invariants of the tables that the schema does not enforce.              *)

\* Every row has exactly the chunks of the content it holds, and no chunks
\* outlive their row: renaming, publishing and checking never tear the two
\* apart (publish_document, reconcile_source_identities).
ChunksDescribeBody ==
    \A k \in Keys : chunks[k] = IF HasRow(k) THEN ChunksOf(docs[k].body) ELSE {}

\* An identity is stored once, whatever mix of legacy and derived keys the
\* table started from, so retrieval never returns the same page twice and the
\* migration never meets an ambiguous URL (reconcile_source_identities).
OneRowPerIdentity ==
    \A j, k \in Keys : HasRow(j) /\ HasRow(k) /\ docs[j].url = docs[k].url => j = k

\* The stored validator is the validator of a version with the stored content.
\* A 304 answer is taken as proof that the content is current, which is sound
\* only as long as this holds (mark_document_checked keeps a validator when the
\* answer carries none, publish_document replaces it).
EtagDescribesBody ==
    \A k \in Keys : HasRow(k) /\ docs[k].etag # NoTag => BodyOf[docs[k].etag] = docs[k].body
=============================================================================
