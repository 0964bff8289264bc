---------------------------- MODULE TemplateSync ----------------------------
(***************************************************************************)
(* The sync of the expert templates of a checkout into PostgreSQL, from    *)
(* expert_templates/sync.py and expert_templates/repository.py.            *)
(*                                                                         *)
(* The publishing transaction is taken apart at its statements, which run  *)
(* at READ COMMITTED: a statement sees what is committed when it starts,   *)
(* and a locking read that had to wait drops the rows that no longer match *)
(* but does not see the ones that came to match meanwhile.                 *)
(***************************************************************************)
EXTENDS Naturals, FiniteSets

CONSTANTS
    Templates,      \* template ids
    Versions,       \* version numbers, in order
    Contents,       \* metadata and texts of templates: what is hashed
    ParentOf,       \* the template that a content extends, or NoTemplate
    Checkouts,      \* states of the template sources: what source_hash tells
    Registry,       \* for each checkout and template its entry, or Absent
    Defaults,       \* prompt default templates of the profiles of a checkout
    Syncers,        \* processes that may run a sync
    NoTemplate, Absent, NoRow, NoCheckout, Nobody

Entry == [version: Versions, content: Contents]

Keys == Templates \X Versions

TemplatesOf(c) == {t \in Templates : Registry[c][t] # Absent}

ASSUME VersionAssumption == Versions \subseteq Nat

ASSUME ParentAssumption == ParentOf \in [Contents -> Templates \cup {NoTemplate}]

\* ExpertTemplateRegistry.load refuses sources without a template or without
\* defaults, parents and defaults outside of the sources and templates that
\* extend themselves.
ASSUME RegistryAssumption ==
    /\ Registry \in [Checkouts -> [Templates -> Entry \cup {Absent}]]
    /\ Absent \notin Entry
    /\ \A c \in Checkouts :
        /\ TemplatesOf(c) # {}
        /\ Defaults[c] # {} /\ Defaults[c] \subseteq TemplatesOf(c)
        /\ \A t \in TemplatesOf(c) :
            LET parent == ParentOf[Registry[c][t].content]
            IN  parent \in (TemplatesOf(c) \ {t}) \cup {NoTemplate}

ASSUME NamesAssumption ==
    /\ Nobody \notin Syncers
    /\ NoTemplate \notin Templates \cup Keys
    /\ NoCheckout \notin Checkouts

VARIABLES
    rows,           \* expert_templates: the row of each key, or NoRow
    lastRun,        \* expert_template_sync_runs: the latest run, none, running,
                    \* succeeded or failed
    checkout,       \* the sources on disk
    phase,          \* where each syncer is: idle, read, started, prepared,
                    \* locking, locked, publishing, published or failing
    source,         \* the checkout that a syncer has loaded
    seen,           \* the active entries that a syncer has read
    matched,        \* active keys that its locking read began with
    locked,         \* active keys that its transaction has locked
    found           \* rows its transaction has read for the new versions

vars == <<rows, lastRun, checkout, phase, source, seen, matched, locked, found>>

Row == [content: Contents, status: {"active", "inactive"}, extends: Keys \cup {NoTemplate}]

ASSUME NoRowAssumption == NoRow \notin Row

NothingSeen == [t \in Templates |-> Absent]

NothingFound == [k \in Keys |-> NoRow]

Init ==
    /\ rows = [k \in Keys |-> NoRow]
    /\ lastRun = [owner |-> Nobody, source |-> NoCheckout, status |-> "none"]
    /\ checkout \in Checkouts
    /\ phase = [p \in Syncers |-> "idle"]
    /\ source = [p \in Syncers |-> NoCheckout]
    /\ seen = [p \in Syncers |-> NothingSeen]
    /\ matched = [p \in Syncers |-> {}]
    /\ locked = [p \in Syncers |-> {}]
    /\ found = [p \in Syncers |-> NothingFound]

-----------------------------------------------------------------------------
(* The tables.                                                             *)

Stored == {k \in Keys : rows[k] # NoRow}

Active == {k \in Stored : rows[k].status = "active"}

ActiveTemplates == {k[1] : k \in Active}

EntryOf(k) == [version |-> k[2], content |-> rows[k].content]

\* get_index_status, asked by a server that has loaded checkout c.
Queryable(c) ==
    /\ lastRun.status = "succeeded"
    /\ lastRun.source = c
    /\ Active # {}
    /\ Defaults[c] \subseteq ActiveTemplates

Goto(p, to) == phase' = [phase EXCEPT ![p] = to]

\* finish_run: only the latest run is ever asked for.
FinishRun(p, status) ==
    lastRun' = IF lastRun.owner = p THEN [lastRun EXCEPT !.status = status] ELSE lastRun

-----------------------------------------------------------------------------
(* From the start of a sync to the publishing transaction.                 *)

\* The sources are loaded and get_active_states is read before the run starts.
ReadActive(p) ==
    /\ phase[p] = "idle"
    /\ source' = [source EXCEPT ![p] = checkout]
    /\ seen' = [seen EXCEPT ![p] = [t \in Templates |->
        IF t \in ActiveTemplates
        THEN EntryOf(CHOOSE k \in Active : k[1] = t)
        ELSE Absent]]
    /\ Goto(p, "read")
    /\ UNCHANGED <<rows, lastRun, checkout, matched, locked, found>>

StartRun(p) ==
    /\ phase[p] = "read"
    /\ lastRun' = [owner |-> p, source |-> source[p], status |-> "running"]
    /\ Goto(p, "started")
    /\ UNCHANGED <<rows, checkout, source, seen, matched, locked, found>>

Wanted(p, t) == Registry[source[p]][t]

\* Mutant: only the texts are compared.
ConflictsInText(p) ==
    {t \in TemplatesOf(source[p]) :
        /\ seen[p][t] # Absent
        /\ Wanted(p, t).version = seen[p][t].version
        /\ Wanted(p, t).content # seen[p][t].content}

\* A template whose text changed under its version, or whose version went down.
Conflicts(p) ==
    {t \in TemplatesOf(source[p]) :
        /\ seen[p][t] # Absent
        /\ \/ Wanted(p, t).version < seen[p][t].version
           \/ /\ Wanted(p, t).version = seen[p][t].version
              /\ Wanted(p, t).content # seen[p][t].content}

New(p) ==
    {t \in TemplatesOf(source[p]) :
        seen[p][t] = Absent \/ Wanted(p, t).version # seen[p][t].version}

\* Mutant: templates that left the sources are no reason to publish.
HasActiveChangesOnlyNew(p) == New(p) # {}

HasActiveChanges(p) ==
    \/ New(p) # {}
    \/ {t \in Templates : seen[p][t] # Absent} # TemplatesOf(source[p])

\* Comparison, chunks and embeddings of the new versions.
Prepare(p) ==
    /\ phase[p] = "started"
    /\ Conflicts(p) = {}
    /\ Goto(p, IF HasActiveChanges(p) THEN "prepared" ELSE "published")
    /\ UNCHANGED <<rows, lastRun, checkout, source, seen, matched, locked, found>>

RefuseSources(p) ==
    /\ phase[p] = "started"
    /\ Conflicts(p) # {}
    /\ Goto(p, "failing")
    /\ UNCHANGED <<rows, lastRun, checkout, source, seen, matched, locked, found>>

\* Chunks or embeddings that cannot be had.
PrepareFails(p) ==
    /\ phase[p] = "started"
    /\ Conflicts(p) = {}
    /\ New(p) # {}
    /\ Goto(p, "failing")
    /\ UNCHANGED <<rows, lastRun, checkout, source, seen, matched, locked, found>>

-----------------------------------------------------------------------------
(* publish_snapshot.                                                       *)

\* SELECT ... WHERE status = 'active' FOR UPDATE starts.
SelectActive(p) ==
    /\ phase[p] = "prepared"
    /\ matched' = [matched EXCEPT ![p] = Active]
    /\ Goto(p, "locking")
    /\ UNCHANGED <<rows, lastRun, checkout, source, seen, locked, found>>

\* It returns once it holds every row that still matches.
LockActive(p) ==
    /\ phase[p] = "locking"
    /\ \A q \in Syncers \ {p} : locked[q] \cap matched[p] = {}
    /\ locked' = [locked EXCEPT ![p] = matched[p] \cap Active]
    /\ Goto(p, "locked")
    /\ UNCHANGED <<rows, lastRun, checkout, source, seen, matched, found>>

NewKeys(p) == {<<t, Wanted(p, t).version>> : t \in New(p)}

\* _existing_versions: a version of an earlier sync is used again.
ReadExisting(p) ==
    /\ phase[p] = "locked"
    /\ found' = [found EXCEPT ![p] = [k \in Keys |-> IF k \in NewKeys(p) THEN rows[k] ELSE NoRow]]
    /\ Goto(p, "publishing")
    /\ UNCHANGED <<rows, lastRun, checkout, source, seen, matched, locked>>

\* The rows of the new snapshot: new versions, and for the other templates of
\* the checkout the versions that are active now, whichever these are.
TargetKeys(p) ==
    NewKeys(p) \cup {k \in locked[p] : k[1] \in TemplatesOf(source[p]) \ New(p)}

Target(p, t) == CHOOSE k \in TargetKeys(p) : k[1] = t

\* The template that a row of the snapshot extends.
ParentTemplate(p, k) ==
    IF k[1] \in New(p) THEN ParentOf[Wanted(p, k[1]).content]
    ELSE IF rows[k].extends = NoTemplate THEN NoTemplate
    ELSE rows[k].extends[1]

Reused(p) == {k \in NewKeys(p) : found[p][k] # NoRow}

ValidSnapshot(p) ==
    /\ \A k \in Reused(p) : found[p][k].content = Wanted(p, k[1]).content
    /\ \A t \in TemplatesOf(source[p]) : \E k \in TargetKeys(p) : k[1] = t
    /\ \A k \in TargetKeys(p) :
        ParentTemplate(p, k) \in TemplatesOf(source[p]) \cup {NoTemplate}

\* Mutant: an unchanged template keeps the parent version it was stored with.
ParentRowKept(p, k) ==
    IF k \in locked[p] THEN rows[k].extends
    ELSE IF ParentTemplate(p, k) = NoTemplate THEN NoTemplate
    ELSE Target(p, ParentTemplate(p, k))

\* extends_id is resolved again against the snapshot.
ParentRow(p, k) ==
    IF ParentTemplate(p, k) = NoTemplate THEN NoTemplate
    ELSE Target(p, ParentTemplate(p, k))

\* A value that a row was read with is not written to it again.
Written(p, k, field, value) ==
    IF k \in Reused(p) /\ found[p][k][field] = value THEN rows[k][field] ELSE value

\* The row of a version of the snapshot after the transaction.
TargetRow(p, k) ==
    [content |-> IF k \in NewKeys(p) THEN Wanted(p, k[1]).content ELSE rows[k].content,
     status  |-> Written(p, k, "status", "active"),
     extends |-> Written(p, k, "extends", ParentRow(p, k))]

\* Mutant: the old versions stay active.
PublishedAdding(p) ==
    [k \in Keys |-> IF k \in TargetKeys(p) THEN TargetRow(p, k) ELSE rows[k]]

\* The table after the transaction.
Published(p) ==
    [k \in Keys |->
        IF k \in TargetKeys(p) THEN TargetRow(p, k)
        ELSE IF k \in locked[p] THEN [rows[k] EXCEPT !.status = "inactive"]
        ELSE rows[k]]

\* uq_expert_templates_template_version: no row that is inserted may exist.
InsertsAreNew(p) == (NewKeys(p) \ Reused(p)) \cap Stored = {}

\* Mutant: no unique index on the active template ids.
AcceptsAnything(table) == table \in [Keys -> Row \cup {NoRow}]

\* ix_expert_templates_active_template_id.
OneActivePerTemplate(table) ==
    \A j, k \in Keys :
        /\ table[j] # NoRow /\ table[j].status = "active"
        /\ table[k] # NoRow /\ table[k].status = "active"
        /\ j[1] = k[1]
        => j = k

Publishable(p) ==
    ValidSnapshot(p) /\ InsertsAreNew(p) /\ OneActivePerTemplate(Published(p))

EndTransaction(p) ==
    /\ matched' = [matched EXCEPT ![p] = {}]
    /\ locked' = [locked EXCEPT ![p] = {}]
    /\ found' = [found EXCEPT ![p] = NothingFound]

\* The writes and the commit; nobody sees a write before the commit, and a row
\* that another transaction has locked is waited for.
CommitPublish(p) ==
    /\ phase[p] = "publishing"
    /\ Publishable(p)
    /\ \A q \in Syncers \ {p} : locked[q] \cap TargetKeys(p) = {}
    /\ rows' = Published(p)
    /\ EndTransaction(p)
    /\ Goto(p, "published")
    /\ UNCHANGED <<lastRun, checkout, source, seen>>

\* An invalid snapshot or a violated index rolls the transaction back.
RefuseSnapshot(p) ==
    /\ phase[p] = "publishing"
    /\ ~Publishable(p)
    /\ EndTransaction(p)
    /\ Goto(p, "failing")
    /\ UNCHANGED <<rows, lastRun, checkout, source, seen>>

\* So does an error of the database, at any statement.
PublishFails(p) ==
    /\ phase[p] \in {"prepared", "locking", "locked", "publishing"}
    /\ EndTransaction(p)
    /\ Goto(p, "failing")
    /\ UNCHANGED <<rows, lastRun, checkout, source, seen>>

-----------------------------------------------------------------------------
(* The end of a run.                                                       *)

Forget(p) ==
    /\ source' = [source EXCEPT ![p] = NoCheckout]
    /\ seen' = [seen EXCEPT ![p] = NothingSeen]

Finish(p) ==
    /\ phase[p] = "published"
    /\ FinishRun(p, "succeeded")
    /\ Goto(p, "idle")
    /\ Forget(p)
    /\ UNCHANGED <<rows, checkout, matched, locked, found>>

\* finish_run raises: the handler around it records a failure.
FinishFails(p) ==
    /\ phase[p] = "published"
    /\ Goto(p, "failing")
    /\ UNCHANGED <<rows, lastRun, checkout, source, seen, matched, locked, found>>

RecordFailure(p) ==
    /\ phase[p] = "failing"
    /\ FinishRun(p, "failed")
    /\ Goto(p, "idle")
    /\ Forget(p)
    /\ UNCHANGED <<rows, checkout, matched, locked, found>>

\* The process dies, or cannot even record its failure: the run stays running.
Crash(p) ==
    /\ phase[p] # "idle"
    /\ EndTransaction(p)
    /\ Goto(p, "idle")
    /\ Forget(p)
    /\ lastRun' = IF lastRun.owner = p THEN [lastRun EXCEPT !.owner = Nobody] ELSE lastRun
    /\ UNCHANGED <<rows, checkout>>

\* A developer pulls, reverts or edits the sources.
Deploy ==
    /\ checkout' \in Checkouts \ {checkout}
    /\ UNCHANGED <<rows, lastRun, phase, source, seen, matched, locked, found>>

Works(p) ==
    \/ StartRun(p) \/ Prepare(p) \/ RefuseSources(p)
    \/ SelectActive(p) \/ LockActive(p) \/ ReadExisting(p)
    \/ CommitPublish(p) \/ RefuseSnapshot(p)
    \/ Finish(p) \/ RecordFailure(p)

Fails(p) == PrepareFails(p) \/ PublishFails(p) \/ FinishFails(p) \/ Crash(p)

Next ==
    \/ \E p \in Syncers : ReadActive(p) \/ Works(p) \/ Fails(p)
    \/ Deploy

Spec == Init /\ [][Next]_vars

\* Syncs are started again and again, and none of their steps fails each time
\* it is tried.
FairSpec ==
    /\ Spec
    /\ \A p \in Syncers :
        /\ WF_vars(ReadActive(p))
        /\ SF_vars(StartRun(p))
        /\ SF_vars(Prepare(p))
        /\ WF_vars(RefuseSources(p))
        /\ SF_vars(SelectActive(p))
        /\ SF_vars(LockActive(p))
        /\ SF_vars(ReadExisting(p))
        /\ SF_vars(CommitPublish(p))
        /\ WF_vars(RefuseSnapshot(p))
        /\ SF_vars(Finish(p))
        /\ WF_vars(RecordFailure(p))

-----------------------------------------------------------------------------
(* Properties.                                                             *)

\* At most one version of a template is active, also when syncs overlap.
OneActiveVersion == \A j, k \in Active : j[1] = k[1] => j = k

\* A version that is stored stays stored with its text, also when overlapping
\* syncs bring different texts of it (_existing_versions, the unique index).
VersionsKeepTheirText ==
    [][\A k \in Stored : k \in Stored' /\ rows'[k].content = rows[k].content]_vars

\* An active row extends the active version of the template that its own text
\* names, also after that template was upgraded and the row was not.  Syncs
\* that overlap break this: a row that was read as active may be retired before
\* the commit, which does not write its status again but lets rows extend it.
ActiveParentsAreActive ==
    \A k \in Active :
        LET parent == ParentOf[rows[k].content]
        IN  IF parent = NoTemplate THEN rows[k].extends = NoTemplate
            ELSE rows[k].extends \in Active /\ rows[k].extends[1] = parent

Snapshot(c) == {<<t, Registry[c][t]>> : t \in TemplatesOf(c)}

ActiveEntries == {<<k[1], EntryOf(k)>> : k \in Active}

Catalog == INSTANCE TemplateCatalog WITH
    SnapshotOf <- Snapshot,
    Nothing <- NoCheckout,
    active <- ActiveEntries,
    openTo <- IF Queryable(lastRun.source) THEN lastRun.source ELSE NoCheckout

\* One sync at a time, of whatever checkout, after whatever failures: a server
\* finds the index open only to the very versions of its own checkout, and
\* they change only while it is closed.
ImplementsCatalog == Catalog!Spec

\* An upgrade never takes an active template back to an older version, unless
\* the template was out of the index in between.
VersionsNeverGoBack ==
    [][\A j \in Active, k \in Active' : j[1] = k[1] => j[2] <= k[2]]_vars

\* No template of c would go down in version or change its text in place.
Upgradable(c) ==
    \A t \in TemplatesOf(c) :
        LET entry == Registry[c][t]
        IN  /\ \A k \in Active : k[1] = t => k[2] <= entry.version
            /\ <<t, entry.version>> \in Stored =>
                rows[<<t, entry.version>>].content = entry.content

\* Once the sources stay as they are and can follow on what is stored, the
\* index opens to them.
IndexOpens ==
    \A c \in Checkouts : <>[](checkout = c /\ Upgradable(c)) => []<>Queryable(c)

\* The design (docs/superpowers/specs/2026-07-16-stage-5-databricks-expert-template-library-design.md,
\* section 12.3): no error, of the database either, changes the active set,
\* and failed runs keep their error.
FailedRunChangesNothing ==
    [][\A p \in Syncers : RecordFailure(p) => ActiveEntries =
        {<<t, seen[p][t]>> : t \in {u \in Templates : seen[p][u] # Absent}}]_vars
=============================================================================
