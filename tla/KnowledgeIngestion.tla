------------------------- MODULE KnowledgeIngestion -------------------------
(***************************************************************************)
(* The offline sync of rag/ingestion.py: discover the catalogs, reconcile  *)
(* identities and presence catalog by catalog, then check, fetch and       *)
(* publish source by source.  Each step of a syncer is the code between    *)
(* two awaits that touch the database or the network; syncers, the web     *)
(* sites and crashes interleave between them.                              *)
(***************************************************************************)
EXTENDS KnowledgeIndex

CONSTANTS
    Links,          \* sources outside docs.databricks.com: never fetched
    NoOne           \* no catalog or source in hand, no answer yet

ASSUME LinksAssumption == Links \subseteq Sources

ASSUME NoOneAssumption == NoOne \notin Sources \cup Catalogs

VARIABLES
    site,           \* the version each source's page (or catalog entry) has
    listed,         \* the sources the catalogs list
    stage,          \* where each syncer is
    run,            \* what each syncer keeps for its whole run
    task            \* what each syncer keeps for the catalog or source in hand

world == <<site, listed>>
syncers == <<stage, run, task>>
vars == <<docs, chunks, lastRun, site, listed, stage, run, task>>

Stages == {"idle", "running", "identified", "fetching", "storing"}

Run == [force: BOOLEAN,                     \* the --force flag
        toDiscover: SUBSET Catalogs,        \* catalogs not fetched yet
        toReconcile: SUBSET Catalogs,       \* discovered, not reconciled yet
        found: SUBSET Sources,              \* all_sources of the discovered catalogs
        entry: [Links -> Tags],             \* version of the catalog entry of a found link
        ready: SUBSET Sources,              \* ready_sources not synced yet
        failed: SUBSET (Sources \cup Catalogs),     \* failures
        done: SUBSET Sources]               \* changed or skipped

Answer == [modified: {FALSE}, etag: Tags]
          \cup [modified: {TRUE}, body: Bodies, etag: Tags]

Task == [on: Sources \cup Catalogs \cup {NoOne},
         seen: Row \cup {NoRow},            \* DocumentState read before the fetch
         got: Answer \cup {NoOne}]

ASSUME NoAnswerAssumption == NoOne \notin Answer

NoRun == [force |-> FALSE, toDiscover |-> {}, toReconcile |-> {}, found |-> {},
          entry |-> [l \in Links |-> NoTag], ready |-> {}, failed |-> {}, done |-> {}]

NoTask == [on |-> NoOne, seen |-> NoRow, got |-> NoOne]

TypeOK ==
    /\ IndexTypeOK
    /\ site \in [Sources -> Versions]
    /\ listed \subseteq Sources
    /\ stage \in [Syncers -> Stages]
    /\ run \in [Syncers -> Run]
    /\ task \in [Syncers -> Task]

Init ==
    /\ IndexInit
    /\ site \in [Sources -> Versions]
    /\ listed \in SUBSET Sources
    /\ stage = [p \in Syncers |-> "idle"]
    /\ run = [p \in Syncers |-> NoRun]
    /\ task = [p \in Syncers |-> NoTask]

-----------------------------------------------------------------------------
(* sync, up to the end of the discovery of the catalogs.                   *)

Start(p) ==
    /\ stage[p] = "idle"
    /\ StartRun(p)
    /\ stage' = [stage EXCEPT ![p] = "running"]
    /\ \E force \in BOOLEAN :
          run' = [run EXCEPT ![p] = [NoRun EXCEPT !.force = force, !.toDiscover = Catalogs]]
    /\ UNCHANGED <<docs, chunks, world, task>>

DiscoverCatalog(p, c) ==
    /\ stage[p] = "running"
    /\ c \in run[p].toDiscover
    /\ LET sources == {s \in listed : CatalogOf[s] = c} IN
       run' = [run EXCEPT ![p].toDiscover = @ \ {c},
                          ![p].toReconcile = @ \cup {c},
                          ![p].found = @ \cup sources,
                          ![p].entry = [l \in Links |-> IF l \in sources THEN site[l] ELSE @[l]]]
    /\ UNCHANGED <<index, world, stage, task>>

\* Mutant: a catalog that fails is taken for one that lists nothing.
DiscoverCatalogEmpty(p, c) ==
    /\ stage[p] = "running"
    /\ c \in run[p].toDiscover
    /\ run' = [run EXCEPT ![p].toDiscover = @ \ {c}, ![p].toReconcile = @ \cup {c},
                          ![p].failed = @ \cup {c}]
    /\ UNCHANGED <<index, world, stage, task>>

\* The catalog cannot be fetched or parsed: it is out of this run.
DiscoverCatalogFails(p, c) ==
    /\ stage[p] = "running"
    /\ c \in run[p].toDiscover
    /\ run' = [run EXCEPT ![p].toDiscover = @ \ {c}, ![p].failed = @ \cup {c}]
    /\ UNCHANGED <<index, world, stage, task>>

-----------------------------------------------------------------------------
(* The loop over the discovered catalogs: two transactions each.           *)

FoundIn(p, c) == {s \in run[p].found : CatalogOf[s] = c}

ReconcileIdentities(p, c) ==
    /\ stage[p] = "running"
    /\ run[p].toDiscover = {}
    /\ c \in run[p].toReconcile
    /\ ReconcileSourceIdentities(FoundIn(p, c))
    /\ stage' = [stage EXCEPT ![p] = "identified"]
    /\ task' = [task EXCEPT ![p].on = c]
    /\ UNCHANGED <<world, run>>

ReconcilePresence(p) ==
    /\ stage[p] = "identified"
    /\ LET c == task[p].on IN
       /\ ReconcileCatalogPresence(c, FoundIn(p, c))
       /\ run' = [run EXCEPT ![p].toReconcile = @ \ {c},
                             ![p].ready = @ \cup FoundIn(p, c)]
    /\ stage' = [stage EXCEPT ![p] = "running"]
    /\ task' = [task EXCEPT ![p] = NoTask]
    /\ UNCHANGED world

\* Mutant: the sources of a catalog whose reconciliation failed are synced anyway.
ReconcileFailsButSyncs(p, c) ==
    /\ \/ stage[p] = "running" /\ run[p].toDiscover = {} /\ c \in run[p].toReconcile
       \/ stage[p] = "identified" /\ task[p].on = c
    /\ run' = [run EXCEPT ![p].toReconcile = @ \ {c}, ![p].failed = @ \cup {c},
                          ![p].ready = @ \cup FoundIn(p, c)]
    /\ stage' = [stage EXCEPT ![p] = "running"]
    /\ task' = [task EXCEPT ![p] = NoTask]
    /\ UNCHANGED <<index, world>>

\* Either transaction raises and is rolled back; what the first one committed
\* stays, and the sources of the catalog are left out of the run.
ReconcileFails(p, c) ==
    /\ \/ stage[p] = "running" /\ run[p].toDiscover = {} /\ c \in run[p].toReconcile
       \/ stage[p] = "identified" /\ task[p].on = c
    /\ run' = [run EXCEPT ![p].toReconcile = @ \ {c}, ![p].failed = @ \cup {c}]
    /\ stage' = [stage EXCEPT ![p] = "running"]
    /\ task' = [task EXCEPT ![p] = NoTask]
    /\ UNCHANGED <<index, world>>

-----------------------------------------------------------------------------
(* The loop over the ready sources: _sync_source and _publish_if_changed.  *)

\* get_document_state, in a session of its own.  A link is then normalized from
\* its catalog entry, without a fetch.
ReadState(p, s) ==
    /\ stage[p] = "running"
    /\ run[p].toDiscover = {} /\ run[p].toReconcile = {}
    /\ s \in run[p].ready
    /\ run' = [run EXCEPT ![p].ready = @ \ {s}]
    /\ \/ /\ s \in Links
          /\ \E v \in Versions :
                /\ v = run[p].entry[s]
                /\ task' = [task EXCEPT ![p] =
                      [on |-> s, seen |-> docs[s],
                       got |-> [modified |-> TRUE, body |-> BodyOf[v], etag |-> NoTag]]]
          /\ stage' = [stage EXCEPT ![p] = "storing"]
       \/ /\ s \notin Links
          /\ task' = [task EXCEPT ![p] = [on |-> s, seen |-> docs[s], got |-> NoOne]]
          /\ stage' = [stage EXCEPT ![p] = "fetching"]
    /\ UNCHANGED <<index, world>>

\* The validator sent with the request: none for a new or disabled row or --force.
Condition(p) ==
    LET seen == task[p].seen IN
    IF seen # NoRow /\ seen.status = "active" /\ ~run[p].force THEN seen.etag ELSE NoTag

\* The server may answer 304 when the condition names the version it serves.
FetchNotModified(p) ==
    /\ stage[p] = "fetching"
    /\ Condition(p) # NoTag
    /\ Condition(p) = site[task[p].on]
    /\ task' = [task EXCEPT ![p].got = [modified |-> FALSE, etag |-> Condition(p)]]
    /\ stage' = [stage EXCEPT ![p] = "storing"]
    /\ UNCHANGED <<index, world, run>>

\* A 200 answer carries the page, and its validator or none.
FetchPage(p) ==
    /\ stage[p] = "fetching"
    /\ LET v == site[task[p].on] IN
       \E e \in {v, NoTag} :
          task' = [task EXCEPT ![p].got = [modified |-> TRUE, body |-> BodyOf[v], etag |-> e]]
    /\ stage' = [stage EXCEPT ![p] = "storing"]
    /\ UNCHANGED <<index, world, run>>

\* Mutant: a row that exists is taken for unchanged without comparing hashes.
UnmodifiedWithoutHash(p) ==
    task[p].got.modified => task[p].seen # NoRow /\ ~run[p].force

\* Nothing to publish: a 304, or the content the row had when it was read.
Unmodified(p) ==
    task[p].got.modified =>
        /\ task[p].seen # NoRow
        /\ task[p].seen.body = task[p].got.body
        /\ ~run[p].force

SourceDone(p) ==
    /\ run' = [run EXCEPT ![p].done = @ \cup {task[p].on}]
    /\ stage' = [stage EXCEPT ![p] = "running"]
    /\ task' = [task EXCEPT ![p] = NoTask]
    /\ UNCHANGED world

MarkChecked(p) ==
    /\ stage[p] = "storing"
    /\ Unmodified(p)
    /\ MarkDocumentChecked(task[p].on, task[p].got.etag)
    /\ SourceDone(p)

\* Chunks are split and embedded before the transaction that stores them.
Publish(p) ==
    /\ stage[p] = "storing"
    /\ ~Unmodified(p)
    /\ PublishDocument(task[p].on, task[p].got.body, task[p].got.etag)
    /\ SourceDone(p)

\* Any exception on the way (fetch, normalization, no chunk, embedding, a
\* transaction rolled back) is recorded and the loop goes on.
SourceFails(p) ==
    /\ stage[p] \in {"fetching", "storing"}
    /\ run' = [run EXCEPT ![p].failed = @ \cup {task[p].on}]
    /\ stage' = [stage EXCEPT ![p] = "running"]
    /\ task' = [task EXCEPT ![p] = NoTask]
    /\ UNCHANGED <<index, world>>

-----------------------------------------------------------------------------
(* The end of a run.                                                       *)

\* Mutant: any failure fails the run.
RunStatusStrict(failed, done) == IF failed = {} THEN "succeeded" ELSE "failed"

\* _run_status
RunStatus(failed, done) ==
    IF failed = {} THEN "succeeded" ELSE IF done # {} THEN "partial" ELSE "failed"

Finished(p) ==
    /\ stage[p] = "running"
    /\ run[p].toDiscover = {} /\ run[p].toReconcile = {} /\ run[p].ready = {}

Finish(p) ==
    /\ Finished(p)
    /\ FinishRun(p, RunStatus(run[p].failed, run[p].done))
    /\ stage' = [stage EXCEPT ![p] = "idle"]
    /\ run' = [run EXCEPT ![p] = NoRun]
    /\ UNCHANGED <<docs, chunks, world, task>>

\* The process dies, or an exception outside the loops ends it.
Crash(p) ==
    /\ stage[p] # "idle"
    /\ AbandonRun(p)
    /\ stage' = [stage EXCEPT ![p] = "idle"]
    /\ run' = [run EXCEPT ![p] = NoRun]
    /\ task' = [task EXCEPT ![p] = NoTask]
    /\ UNCHANGED <<docs, chunks, world>>

-----------------------------------------------------------------------------
(* The web sites change on their own.                                      *)

ChangePage(s) ==
    /\ \E v \in Versions \ {site[s]} : site' = [site EXCEPT ![s] = v]
    /\ UNCHANGED <<index, listed, syncers>>

ChangeListing(s) ==
    /\ listed' = IF s \in listed THEN listed \ {s} ELSE listed \cup {s}
    /\ UNCHANGED <<index, site, syncers>>

\* What the code does, failures aside.
Proceed(p) ==
    \/ \E c \in Catalogs : DiscoverCatalog(p, c) \/ ReconcileIdentities(p, c)
    \/ ReconcilePresence(p)
    \/ \E s \in Sources : ReadState(p, s)
    \/ FetchNotModified(p) \/ FetchPage(p)
    \/ MarkChecked(p) \/ Publish(p)
    \/ Finish(p)

Fail(p) ==
    \/ \E c \in Catalogs : DiscoverCatalogFails(p, c) \/ ReconcileFails(p, c)
    \/ SourceFails(p)

Next ==
    \/ \E p \in Syncers : Start(p) \/ Proceed(p) \/ Fail(p) \/ Crash(p)
    \/ \E s \in Sources : ChangePage(s) \/ ChangeListing(s)

Spec == Init /\ [][Next]_vars

-----------------------------------------------------------------------------
(* Refinement: the row of a source, under whichever key, is its phase.     *)

phase ==
    [s \in Sources |->
        IF StoredAs(s) = {} THEN "unknown"
        ELSE IF docs[KeyOf(s)].status = "disabled" THEN "disabled"
        ELSE IF docs[KeyOf(s)].missing = 0 THEN "active"
        ELSE "pending"]

Lifecycle == INSTANCE DocumentLifecycle

\* However syncs interleave, crash and fail, a source leaves retrieval only
\* after two successful snapshots of its catalog without it, and comes back
\* only by a confirmed content (reconcile_catalog_presence,
\* mark_document_checked, publish_document).
ImplementsLifecycle == Lifecycle!Spec

-----------------------------------------------------------------------------
(* What the status of a run tells the chat service.                        *)

\* A run that published or checked at least one source leaves an index that can
\* be retrieved from, whatever else failed: the rows it counted are still there,
\* active and with chunks, when it ends (_run_status, get_index_status).  It is
\* stated for syncs that do not overlap.
UsefulRunLeavesIndexQueryable ==
    [][\A p \in Syncers : Finish(p) /\ run[p].done # {} => Queryable']_vars

\* The plan of stage 4 says that one page that cannot be fetched or embedded
\* makes the run "partial" and its old version stays retrievable.
OneFailureKeepsIndexQueryable ==
    [][\A p \in Syncers, s \in Sources :
            Finish(p) /\ run[p].failed = {s} /\ s \in ActiveKeys => Queryable']_vars

-----------------------------------------------------------------------------
(* Liveness.                                                               *)

\* A sync that runs takes its next step or fails: requests time out, retries are
\* bounded.  A developer starts a sync again after each, and a step that is
\* tried again and again succeeds again and again.
Fairness ==
    \A p \in Syncers :
        /\ WF_vars(Start(p))
        /\ WF_vars(Proceed(p) \/ Fail(p))
        /\ \A c \in Catalogs :
              /\ SF_vars(DiscoverCatalog(p, c))
              /\ SF_vars(ReconcileIdentities(p, c))
              /\ SF_vars(task[p].on = c /\ ReconcilePresence(p))
        /\ \A s \in Sources :
              /\ SF_vars(ReadState(p, s))
              /\ SF_vars(task[p].on = s /\ (FetchPage(p) \/ FetchNotModified(p)))
              /\ SF_vars(task[p].on = s /\ (MarkChecked(p) \/ Publish(p)))

FairSpec == Spec /\ Fairness

\* A listed page that stops changing ends up retrievable with its content, even
\* if its row was disabled, pending, legacy or absent: no validator or hash can
\* pin an old content for ever (_sync_source, _publish_if_changed).
IndexConverges ==
    \A s \in Sources, v \in Versions :
        <>[](s \in listed /\ site[s] = v)
            => <>[](HasRow(s) /\ docs[s].status = "active" /\ docs[s].body = BodyOf[v])

\* A source that is listed no more ends up out of retrieval, whatever failed or
\* crashed between the two snapshots that disable it, and no step of a run that
\* still held it brings it back for good (reconcile_catalog_presence).
RemovedSourceLeaves ==
    \A s \in Sources :
        <>[](s \notin listed) => <>[](\A k \in StoredAs(s) : docs[k].status = "disabled")
=============================================================================
