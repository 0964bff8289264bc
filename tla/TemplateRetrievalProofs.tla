------------------------ MODULE TemplateRetrievalProofs ------------------------
(***************************************************************************)
(* Proofs about the template sync and the retrieval beside it.  The first  *)
(* part is for any number of overlapping syncs: what is stored keeps its   *)
(* text, and one version of a template is active.  The second part is for  *)
(* syncs that do not overlap: the active set is what a publishing          *)
(* transaction believes it to be, so parents are active, versions go up    *)
(* and the index keeps its promise.  The third part is about retrieval:    *)
(* what a context may consist of, whatever was loaded for it, and what a   *)
(* request may be told and given while the catalog is replaced under it.   *)
(***************************************************************************)
EXTENDS TemplateRetrieval, Iterations, FunctionTheorems

Phases == {"idle", "read", "started", "prepared", "locking", "locked", "publishing",
           "published", "failing"}

RunStatuses == {"none", "running", "succeeded", "failed"}

TypeOK ==
    /\ rows \in [Keys -> Row \cup {NoRow}]
    /\ lastRun \in [owner: Syncers \cup {Nobody}, source: Checkouts \cup {NoCheckout},
                    status: RunStatuses]
    /\ checkout \in Checkouts
    /\ phase \in [Syncers -> Phases]
    /\ source \in [Syncers -> Checkouts \cup {NoCheckout}]
    /\ seen \in [Syncers -> [Templates -> Entry \cup {Absent}]]
    /\ matched \in [Syncers -> SUBSET Keys]
    /\ locked \in [Syncers -> SUBSET Keys]
    /\ found \in [Syncers -> [Keys -> Row \cup {NoRow}]]

\* A sync that is under way has loaded a checkout.
SourceLoaded == \A p \in Syncers : phase[p] # "idle" => source[p] \in Checkouts

\* What a transaction has locked or read stays stored, with its text.
LockedAreStored == \A p \in Syncers : locked[p] \subseteq Stored

FoundAreStored ==
    \A p \in Syncers, k \in Keys :
        found[p][k] # NoRow => k \in Stored /\ rows[k].content = found[p][k].content

TableInv == TypeOK /\ SourceLoaded /\ LockedAreStored /\ FoundAreStored

-----------------------------------------------------------------------------
(* Any number of syncs: types, and what is stored.                         *)

LEMMA WantedIsEntry ==
    ASSUME TypeOK, SourceLoaded, NEW p \in Syncers, phase[p] # "idle",
           NEW t \in TemplatesOf(source[p])
    PROVE  Wanted(p, t) \in Entry
BY RegistryAssumption DEF SourceLoaded, Wanted, TemplatesOf

LEMMA KeysOfSnapshot ==
    ASSUME TypeOK, SourceLoaded, NEW p \in Syncers, phase[p] # "idle"
    PROVE  /\ New(p) \subseteq TemplatesOf(source[p])
           /\ TemplatesOf(source[p]) \subseteq Templates
           /\ NewKeys(p) \subseteq Keys
           /\ TargetKeys(p) \subseteq Keys
           /\ Reused(p) \subseteq NewKeys(p)
<1>1. New(p) \subseteq TemplatesOf(source[p]) /\ TemplatesOf(source[p]) \subseteq Templates
    BY DEF New, TemplatesOf
<1>2. \A t \in New(p) : Wanted(p, t).version \in Versions
    BY <1>1, WantedIsEntry DEF Entry
<1>3. NewKeys(p) \subseteq Keys
    BY <1>1, <1>2 DEF NewKeys, Keys
<1>4. TargetKeys(p) \subseteq Keys
    BY <1>3 DEF TargetKeys, TypeOK
<1> QED BY <1>1, <1>3, <1>4 DEF Reused

\* The version of a template in a snapshot that may be published.
LEMMA TargetIsKey ==
    ASSUME NEW p \in Syncers, ValidSnapshot(p), NEW t \in TemplatesOf(source[p])
    PROVE  Target(p, t) \in TargetKeys(p) /\ Target(p, t)[1] = t
BY DEF ValidSnapshot, Target

\* A row that is written is a row, and keeps the text of what is stored.
LEMMA TargetRowTyped ==
    ASSUME TableInv, NEW p \in Syncers, phase[p] = "publishing", ValidSnapshot(p),
           InsertsAreNew(p), NEW k \in TargetKeys(p)
    PROVE  /\ TargetRow(p, k) \in Row
           /\ k \in Stored => TargetRow(p, k).content = rows[k].content
<1> USE DEF TableInv
<1>1. k \in Keys /\ (k \notin NewKeys(p) => k \in locked[p])
    BY KeysOfSnapshot DEF TargetKeys
<1>2. k \notin NewKeys(p) => rows[k] \in Row
    BY <1>1 DEF LockedAreStored, Stored, TypeOK
<1>3. k \in Reused(p) => rows[k] \in Row /\ rows[k].content = Wanted(p, k[1]).content
    BY <1>1 DEF Reused, FoundAreStored, ValidSnapshot, Stored, TypeOK
<1>4. k \in NewKeys(p) => k[1] \in TemplatesOf(source[p]) /\ Wanted(p, k[1]).content \in Contents
  <2>1. k \in NewKeys(p) => k[1] \in New(p)
      BY DEF NewKeys
  <2> QED BY <2>1, KeysOfSnapshot, WantedIsEntry DEF Entry
<1>5. ParentRow(p, k) \in Keys \cup {NoTemplate}
  <2>1. CASE ParentTemplate(p, k) = NoTemplate
      BY <2>1 DEF ParentRow
  <2>2. CASE ParentTemplate(p, k) # NoTemplate
    <3>1. ParentTemplate(p, k) \in TemplatesOf(source[p])
        BY <2>2 DEF ValidSnapshot
    <3>2. Target(p, ParentTemplate(p, k)) \in Keys
        BY <3>1, TargetIsKey, KeysOfSnapshot
    <3> QED BY <2>2, <3>2 DEF ParentRow
  <2> QED BY <2>1, <2>2
<1> DEFINE content == IF k \in NewKeys(p) THEN Wanted(p, k[1]).content ELSE rows[k].content
           status == Written(p, k, "status", "active")
           extends == Written(p, k, "extends", ParentRow(p, k))
<1>6. content \in Contents
    BY <1>2, <1>4 DEF Row
<1>7. status \in {"active", "inactive"}
    BY <1>3 DEF Written, Row
<1>8. extends \in Keys \cup {NoTemplate}
    BY <1>3, <1>5 DEF Written, Row
<1>9. TargetRow(p, k) = [content |-> content, status |-> status, extends |-> extends]
    BY DEF TargetRow
<1>10. k \in Stored => content = rows[k].content
    BY <1>3 DEF InsertsAreNew
<1> HIDE DEF content, status, extends
<1> QED BY <1>6, <1>7, <1>8, <1>9, <1>10 DEF Row

LEMMA PublishedTyped ==
    ASSUME TableInv, NEW p \in Syncers, phase[p] = "publishing", Publishable(p)
    PROVE  /\ Published(p) \in [Keys -> Row \cup {NoRow}]
           /\ \A k \in Stored :
                  Published(p)[k] # NoRow /\ Published(p)[k].content = rows[k].content
<1> USE DEF TableInv
<1>1. ASSUME NEW k \in Keys
      PROVE  /\ Published(p)[k] \in Row \cup {NoRow}
             /\ k \in Stored => Published(p)[k] # NoRow /\ Published(p)[k].content = rows[k].content
  <2>1. CASE k \in TargetKeys(p)
      BY <2>1, TargetRowTyped, NoRowAssumption DEF Publishable, Published
  <2>2. CASE k \notin TargetKeys(p) /\ k \in locked[p]
    <3>1. rows[k] \in Row
        BY <2>2 DEF LockedAreStored, Stored, TypeOK
    <3>2. Published(p)[k] = [rows[k] EXCEPT !.status = "inactive"]
        BY <2>2 DEF Published
    <3> QED BY <3>1, <3>2, NoRowAssumption DEF Row
  <2>3. CASE k \notin TargetKeys(p) /\ k \notin locked[p]
      BY <2>3 DEF Published, TypeOK, Stored
  <2> QED BY <2>1, <2>2, <2>3
<1>2. Published(p) = [k \in Keys |-> Published(p)[k]]
    BY DEF Published
<1>3. Stored \subseteq Keys
    BY DEF Stored
<1> HIDE DEF TableInv
<1> QED BY <1>1, <1>2, <1>3

LEMMA InitTable == Init => TableInv
<1> SUFFICES ASSUME Init PROVE TableInv
    OBVIOUS
<1>1. TypeOK
    BY DEF Init, TypeOK, Phases, RunStatuses, NothingSeen, NothingFound
<1>2. SourceLoaded /\ LockedAreStored /\ FoundAreStored
    BY DEF Init, SourceLoaded, LockedAreStored, FoundAreStored, NothingFound, Stored
<1> QED BY <1>1, <1>2 DEF TableInv

\* Steps that leave the rows alone keep what is locked and read of them.
LEMMA RowsUntouched ==
    ASSUME TableInv, TypeOK', SourceLoaded', UNCHANGED rows,
           \A p \in Syncers : locked'[p] \subseteq Stored,
           \A p \in Syncers, k \in Keys : found'[p][k] \in {found[p][k], rows[k], NoRow}
    PROVE  TableInv'
<1> USE DEF TableInv
<1>1. Stored' = Stored
    BY DEF Stored
<1>2. LockedAreStored'
    BY <1>1 DEF LockedAreStored
<1>3. FoundAreStored'
    BY <1>1 DEF FoundAreStored, Stored
<1> QED BY <1>2, <1>3

LEMMA NextTable == TableInv /\ [Next]_vars => TableInv'
<1> SUFFICES ASSUME TableInv, [Next]_vars PROVE TableInv'
    OBVIOUS
<1> USE DEF TableInv
<1>1. ASSUME NEW p \in Syncers, ReadActive(p) PROVE TableInv'
  <2>1. \A k \in Active : EntryOf(k) \in Entry
      BY DEF Active, Stored, EntryOf, TypeOK, Row, Entry, Keys
  <2>2. ASSUME NEW t \in ActiveTemplates
        PROVE  EntryOf(CHOOSE k \in Active : k[1] = t) \in Entry
    <3>1. \E k \in Active : k[1] = t
        BY DEF ActiveTemplates
    <3> QED BY <2>1, <3>1
  <2>3. seen'[p] \in [Templates -> Entry \cup {Absent}]
      BY <1>1, <2>2 DEF ReadActive, TypeOK
  <2>4. TypeOK' /\ SourceLoaded'
      BY <1>1, <2>3 DEF ReadActive, Goto, TypeOK, SourceLoaded, Phases
  <2> QED BY <1>1, <2>4, RowsUntouched DEF ReadActive, LockedAreStored
<1>2. ASSUME NEW p \in Syncers,
             \/ StartRun(p) \/ Prepare(p) \/ RefuseSources(p) \/ PrepareFails(p)
             \/ SelectActive(p) \/ FinishFails(p)
      PROVE  TableInv'
  <2>1. TypeOK' /\ SourceLoaded'
    <3>1. CASE StartRun(p)
        BY <3>1 DEF StartRun, Goto, TypeOK, SourceLoaded, Phases, RunStatuses
    <3>2. CASE Prepare(p) \/ RefuseSources(p) \/ PrepareFails(p) \/ FinishFails(p)
        BY <3>2 DEF Prepare, RefuseSources, PrepareFails, FinishFails, Goto, TypeOK,
                    SourceLoaded, Phases
    <3>3. CASE SelectActive(p)
        BY <3>3 DEF SelectActive, Goto, TypeOK, SourceLoaded, Phases, Active, Stored
    <3> QED BY <1>2, <3>1, <3>2, <3>3
  <2>2. UNCHANGED <<rows, locked, found>>
      BY <1>2 DEF StartRun, Prepare, RefuseSources, PrepareFails, SelectActive, FinishFails
  <2> QED BY <2>1, <2>2, RowsUntouched DEF LockedAreStored
<1>3. ASSUME NEW p \in Syncers, LockActive(p) PROVE TableInv'
  <2>1. TypeOK' /\ SourceLoaded'
      BY <1>3 DEF LockActive, Goto, TypeOK, SourceLoaded, Phases, Active, Stored
  <2>2. \A q \in Syncers : locked'[q] \subseteq Stored
      BY <1>3 DEF LockActive, TypeOK, LockedAreStored, Active
  <2> QED BY <1>3, <2>1, <2>2, RowsUntouched DEF LockActive
<1>4. ASSUME NEW p \in Syncers, ReadExisting(p) PROVE TableInv'
  <2>1. TypeOK' /\ SourceLoaded'
      BY <1>4 DEF ReadExisting, Goto, TypeOK, SourceLoaded, Phases
  <2>2. \A q \in Syncers, k \in Keys : found'[q][k] \in {found[q][k], rows[k], NoRow}
      BY <1>4 DEF ReadExisting, TypeOK
  <2> QED BY <1>4, <2>1, <2>2, RowsUntouched DEF ReadExisting, LockedAreStored
<1>5. ASSUME NEW p \in Syncers, CommitPublish(p) PROVE TableInv'
  <2>1. /\ rows' \in [Keys -> Row \cup {NoRow}]
        /\ \A k \in Stored : rows'[k] # NoRow /\ rows'[k].content = rows[k].content
      BY <1>5, PublishedTyped DEF CommitPublish
  <2>2. TypeOK' /\ SourceLoaded'
      BY <1>5, <2>1 DEF CommitPublish, EndTransaction, Goto, TypeOK, SourceLoaded, Phases,
                        NothingFound
  <2>3. Stored \subseteq Stored'
      BY <2>1 DEF Stored
  <2>4. LockedAreStored'
      BY <1>5, <2>3 DEF CommitPublish, EndTransaction, LockedAreStored, TypeOK
  <2>5. \A q \in Syncers, k \in Keys : found'[q][k] \in {found[q][k], NoRow}
      BY <1>5 DEF CommitPublish, EndTransaction, NothingFound, TypeOK
  <2>6. FoundAreStored'
      BY <2>1, <2>3, <2>5 DEF FoundAreStored
  <2> QED BY <2>2, <2>4, <2>6
<1>6. ASSUME NEW p \in Syncers,
             RefuseSnapshot(p) \/ PublishFails(p) \/ Finish(p) \/ RecordFailure(p) \/ Crash(p)
      PROVE  TableInv'
  <2>1. TypeOK' /\ SourceLoaded'
    <3> NothingSeen \in [Templates -> Entry \cup {Absent}]
        BY DEF NothingSeen
    <3> NothingFound \in [Keys -> Row \cup {NoRow}]
        BY DEF NothingFound
    <3>1. CASE RefuseSnapshot(p) \/ PublishFails(p)
      <4>1. /\ phase[p] # "idle"
            /\ phase' = [phase EXCEPT ![p] = "failing"]
            /\ matched' = [matched EXCEPT ![p] = {}]
            /\ locked' = [locked EXCEPT ![p] = {}]
            /\ found' = [found EXCEPT ![p] = NothingFound]
            /\ UNCHANGED <<rows, lastRun, checkout, source, seen>>
          BY <3>1 DEF RefuseSnapshot, PublishFails, EndTransaction, Goto
      <4> QED BY <4>1 DEF TypeOK, SourceLoaded, Phases
    <3>2. CASE Finish(p) \/ RecordFailure(p)
      <4>1. lastRun' \in [owner: Syncers \cup {Nobody}, source: Checkouts \cup {NoCheckout},
                          status: RunStatuses]
          BY <3>2 DEF Finish, RecordFailure, FinishRun, RunStatuses, TypeOK
      <4>2. /\ phase' = [phase EXCEPT ![p] = "idle"]
            /\ source' = [source EXCEPT ![p] = NoCheckout]
            /\ seen' = [seen EXCEPT ![p] = NothingSeen]
            /\ UNCHANGED <<rows, checkout, matched, locked, found>>
          BY <3>2 DEF Finish, RecordFailure, Goto, Forget
      <4> QED BY <4>1, <4>2 DEF TypeOK, SourceLoaded, Phases
    <3>3. CASE Crash(p)
      <4>1. lastRun' \in [owner: Syncers \cup {Nobody}, source: Checkouts \cup {NoCheckout},
                          status: RunStatuses]
          BY <3>3 DEF Crash, TypeOK
      <4>2. /\ phase' = [phase EXCEPT ![p] = "idle"]
            /\ source' = [source EXCEPT ![p] = NoCheckout]
            /\ seen' = [seen EXCEPT ![p] = NothingSeen]
            /\ matched' = [matched EXCEPT ![p] = {}]
            /\ locked' = [locked EXCEPT ![p] = {}]
            /\ found' = [found EXCEPT ![p] = NothingFound]
            /\ UNCHANGED <<rows, checkout>>
          BY <3>3 DEF Crash, EndTransaction, Goto, Forget
      <4> QED BY <4>1, <4>2 DEF TypeOK, SourceLoaded, Phases
    <3> QED BY <1>6, <3>1, <3>2, <3>3
  <2>2. UNCHANGED rows
      BY <1>6 DEF RefuseSnapshot, PublishFails, Finish, RecordFailure, Crash
  <2>3. \A q \in Syncers : locked'[q] \subseteq locked[q]
      BY <1>6 DEF RefuseSnapshot, PublishFails, Finish, RecordFailure, Crash, EndTransaction,
                  TypeOK
  <2>4. \A q \in Syncers, k \in Keys : found'[q][k] \in {found[q][k], NoRow}
      BY <1>6 DEF RefuseSnapshot, PublishFails, Finish, RecordFailure, Crash, EndTransaction,
                  NothingFound, TypeOK
  <2> QED BY <2>1, <2>2, <2>3, <2>4, RowsUntouched DEF LockedAreStored
<1>7. CASE Deploy
  <2>1. TypeOK' /\ SourceLoaded'
      BY <1>7 DEF Deploy, TypeOK, SourceLoaded
  <2> QED BY <1>7, <2>1, RowsUntouched DEF Deploy, LockedAreStored
<1>8. CASE UNCHANGED vars
  <2>1. TypeOK' /\ SourceLoaded'
      BY <1>8 DEF vars, TypeOK, SourceLoaded
  <2> QED BY <1>8, <2>1, RowsUntouched DEF vars, LockedAreStored
<1> QED BY <1>1, <1>2, <1>3, <1>4, <1>5, <1>6, <1>7, <1>8 DEF Next, Works, Fails

LEMMA OneActiveIsIndex == OneActivePerTemplate(rows) => OneActiveVersion
BY DEF OneActivePerTemplate, OneActiveVersion, Active, Stored

LEMMA OneActiveIsIndexNext == OneActivePerTemplate(rows)' => OneActiveVersion'
BY OneActiveIsIndex, PTL

\* Rows are written by the commit of a publishing transaction only.
LEMMA OnlyCommitWrites ==
    ASSUME [Next]_vars
    PROVE  UNCHANGED rows \/ \E p \in Syncers : CommitPublish(p)
BY DEF Next, Works, Fails, vars, ReadActive, StartRun, Prepare, RefuseSources, PrepareFails,
       SelectActive, LockActive, ReadExisting, RefuseSnapshot, PublishFails, Finish,
       FinishFails, RecordFailure, Crash, Deploy

LEMMA NextOneActive == OneActiveVersion /\ [Next]_vars => OneActiveVersion'
<1> SUFFICES ASSUME OneActiveVersion, [Next]_vars PROVE OneActiveVersion'
    OBVIOUS
<1>1. CASE UNCHANGED rows
    BY <1>1 DEF OneActiveVersion, Active, Stored
<1>2. ASSUME NEW p \in Syncers, CommitPublish(p) PROVE OneActiveVersion'
  <2>1. OneActivePerTemplate(rows)'
      BY <1>2 DEF CommitPublish, Publishable, OneActivePerTemplate
  <2> QED BY <2>1, OneActiveIsIndexNext
<1> QED BY <1>1, <1>2, OnlyCommitWrites

\* The variables keep their types, whatever syncs overlap, fail or crash.
THEOREM TypeCorrect == Spec => []TypeOK
<1>1. Spec => []TableInv
    BY InitTable, NextTable, PTL DEF Spec
<1> QED BY <1>1, PTL DEF TableInv

\* Overlapping syncs leave at most one active version of a template.
THEOREM OneActiveVersionAlways == Spec => []OneActiveVersion
<1>1. Init => OneActiveVersion
    BY DEF Init, OneActiveVersion, Active, Stored
<1> QED BY <1>1, NextOneActive, PTL DEF Spec

\* No step loses a stored version or changes its text.
LEMMA TextsAreKept ==
    ASSUME TableInv, [Next]_vars, NEW k \in Stored
    PROVE  k \in Stored' /\ rows'[k].content = rows[k].content
<1>1. CASE UNCHANGED rows
    BY <1>1 DEF Stored
<1>2. ASSUME NEW p \in Syncers, CommitPublish(p)
      PROVE  k \in Stored' /\ rows'[k].content = rows[k].content
    BY <1>2, PublishedTyped DEF CommitPublish, Stored
<1> QED BY <1>1, <1>2, OnlyCommitWrites

\* Overlapping syncs never lose a stored version or change its text, even when
\* they bring different texts of one version.
THEOREM VersionsAlwaysKeepTheirText == Spec => VersionsKeepTheirText
<1>1. Spec => []TableInv
    BY InitTable, NextTable, PTL DEF Spec
<1>2. TableInv /\ [Next]_vars =>
          [\A k \in Stored : k \in Stored' /\ rows'[k].content = rows[k].content]_vars
    BY TextsAreKept
<1> QED BY <1>1, <1>2, PTL DEF Spec, VersionsKeepTheirText
-----------------------------------------------------------------------------
(* Syncs that do not overlap.                                              *)

Unpublished == {"read", "started", "prepared", "locking", "locked", "publishing"}

\* What was read before the run is still what is active.
SeenIsActive(p) ==
    /\ \A k \in Active : seen[p][k[1]] = EntryOf(k)
    /\ \A t \in Templates : seen[p][t] # Absent => \E k \in Active : k[1] = t

PublishesWhatItSaw(p) ==
    /\ phase[p] \in Unpublished => SeenIsActive(p)
    /\ phase[p] \in {"prepared", "locking", "locked", "publishing"} => Conflicts(p) = {}
    /\ phase[p] = "locking" => matched[p] = Active
    /\ phase[p] \in {"locked", "publishing"} => locked[p] = Active
    /\ phase[p] = "publishing" => \A k \in NewKeys(p) : found[p][k] = rows[k]
    /\ phase[p] = "published" => ActiveEntries = Snapshot(source[p])

\* From its start to its end the run of a sync is the latest one.
RunIsLatest(p) ==
    phase[p] \in Phases \ {"idle", "read"} =>
        lastRun = [owner |-> p, source |-> source[p], status |-> "running"]

OneSyncInv ==
    /\ OneActiveVersion
    /\ \A p \in Syncers : PublishesWhatItSaw(p) /\ RunIsLatest(p)

\* The active rows are the versions of a checkout.
SnapshotIsActive(c) ==
    /\ \A k \in Active : k[1] \in TemplatesOf(c) /\ EntryOf(k) = Registry[c][k[1]]
    /\ \A t \in TemplatesOf(c) : \E k \in Active : k[1] = t

LEMMA ActiveAreSnapshot ==
    \A c \in Checkouts : SnapshotIsActive(c) => ActiveEntries = Snapshot(c)
BY DEF ActiveEntries, Snapshot, SnapshotIsActive

LEMMA ActiveAreSnapshotNext ==
    (\A c \in Checkouts : SnapshotIsActive(c) => ActiveEntries = Snapshot(c))'
BY ActiveAreSnapshot, PTL

\* A template of the checkout that is not new is active as the checkout has it.
LEMMA OldTemplatesAreActive ==
    ASSUME TableInv, NEW p \in Syncers, phase[p] # "idle", SeenIsActive(p),
           Conflicts(p) = {}, NEW t \in TemplatesOf(source[p]) \ New(p)
    PROVE  /\ \E k \in Active : k[1] = t
           /\ \A k \in Active : k[1] = t => EntryOf(k) = Wanted(p, t)
<1> USE DEF TableInv
<1>1. /\ seen[p][t] # Absent
      /\ Wanted(p, t).version = seen[p][t].version
      /\ t \in Templates
    BY DEF New, TemplatesOf
<1>2. Wanted(p, t).content = seen[p][t].content
    BY <1>1 DEF Conflicts
<1>3. seen[p][t] \in Entry /\ Wanted(p, t) \in Entry
    BY <1>1, WantedIsEntry DEF TypeOK
<1>4. seen[p][t] = Wanted(p, t)
    BY <1>1, <1>2, <1>3 DEF Entry
<1> QED BY <1>1, <1>4 DEF SeenIsActive

\* What a publishing transaction leaves, when nobody else publishes.
LEMMA CommitLeavesSnapshot ==
    ASSUME TableInv, OneSyncInv, NEW p \in Syncers, CommitPublish(p)
    PROVE  /\ Active' = TargetKeys(p)
           /\ \A k \in TargetKeys(p) :
                  /\ k[1] \in TemplatesOf(source[p])
                  /\ k[2] = Wanted(p, k[1]).version
                  /\ rows'[k] = [content |-> Wanted(p, k[1]).content, status |-> "active",
                                 extends |-> ParentRow(p, k)]
<1> USE DEF TableInv
<1>1. /\ phase[p] = "publishing"
      /\ Publishable(p)
      /\ rows' = Published(p)
    BY DEF CommitPublish
<1>2. /\ SeenIsActive(p)
      /\ Conflicts(p) = {}
      /\ locked[p] = Active
      /\ \A k \in NewKeys(p) : found[p][k] = rows[k]
    BY <1>1 DEF OneSyncInv, PublishesWhatItSaw, Unpublished
<1>3. TargetKeys(p) \subseteq Keys /\ NewKeys(p) \subseteq Keys
    BY <1>1, KeysOfSnapshot
<1>4. ASSUME NEW k \in TargetKeys(p)
      PROVE  /\ k[1] \in TemplatesOf(source[p])
             /\ k[2] = Wanted(p, k[1]).version
             /\ TargetRow(p, k).content = Wanted(p, k[1]).content
    <2>1. CASE k \in NewKeys(p)
        BY <1>1, <2>1, KeysOfSnapshot DEF NewKeys, TargetRow
    <2>2. CASE k \notin NewKeys(p)
      <3>1. k \in Active /\ k[1] \in TemplatesOf(source[p]) \ New(p)
          BY <1>2, <1>4, <2>2 DEF TargetKeys
      <3>2. EntryOf(k) = Wanted(p, k[1])
          BY <1>1, <1>2, <3>1, OldTemplatesAreActive
      <3> QED BY <2>2, <3>1, <3>2 DEF EntryOf, TargetRow
    <2> QED BY <2>1, <2>2
<1>5. ASSUME NEW k \in TargetKeys(p)
      PROVE  /\ TargetRow(p, k).status = "active"
             /\ TargetRow(p, k).extends = ParentRow(p, k)
    <2>1. k \in Reused(p) => rows[k] = found[p][k]
        BY <1>2 DEF Reused
    <2>2. Written(p, k, "status", "active") = "active"
        BY <2>1 DEF Written
    <2>3. Written(p, k, "extends", ParentRow(p, k)) = ParentRow(p, k)
        BY <2>1 DEF Written
    <2> QED BY <2>2, <2>3 DEF TargetRow
<1>6. ASSUME NEW k \in TargetKeys(p) PROVE rows'[k] = TargetRow(p, k) /\ rows'[k] \in Row
    BY <1>1, <1>3, <1>6, TargetRowTyped DEF Published, Publishable
<1>7. ASSUME NEW k \in TargetKeys(p)
      PROVE  rows'[k] = [content |-> Wanted(p, k[1]).content, status |-> "active",
                         extends |-> ParentRow(p, k)]
    BY <1>4, <1>5, <1>6, <1>7 DEF Row
<1>8. Active' = TargetKeys(p)
  <2>1. ASSUME NEW k \in TargetKeys(p) PROVE k \in Active'
      BY <1>3, <1>5, <1>6, <2>1, NoRowAssumption DEF Active, Stored
  <2>2. ASSUME NEW k \in Active', k \notin TargetKeys(p) PROVE FALSE
    <3>1. k \in Keys /\ rows'[k] # NoRow /\ rows'[k].status = "active"
        BY <2>2 DEF Active, Stored
    <3>2. CASE k \in locked[p]
      <4>1. rows[k] \in Row /\ rows'[k] = [rows[k] EXCEPT !.status = "inactive"]
          BY <1>1, <2>2, <3>1, <3>2 DEF Published, LockedAreStored, Stored, TypeOK
      <4> QED BY <3>1, <4>1 DEF Row
    <3>3. CASE k \notin locked[p]
      <4>1. rows'[k] = rows[k]
          BY <1>1, <2>2, <3>1, <3>3 DEF Published
      <4> QED BY <1>2, <3>1, <3>3, <4>1 DEF Active, Stored
    <3> QED BY <3>2, <3>3
  <2> QED BY <2>1, <2>2
<1> QED BY <1>4, <1>7, <1>8

LEMMA InitOneSync == Init => OneSyncInv
BY DEF Init, OneSyncInv, PublishesWhatItSaw, RunIsLatest, OneActiveVersion, Active, Stored,
       Unpublished

\* As long as rows and readings stay, so does all that is derived from them.
LEMMA SameReading ==
    ASSUME UNCHANGED <<rows, source, seen>>, NEW p \in Syncers
    PROVE  /\ Active' = Active
           /\ OneActiveVersion' = OneActiveVersion
           /\ ActiveEntries' = ActiveEntries
           /\ Snapshot(source[p])' = Snapshot(source[p])
           /\ SeenIsActive(p)' = SeenIsActive(p)
           /\ Conflicts(p)' = Conflicts(p)
           /\ NewKeys(p)' = NewKeys(p)
<1>1. Active' = Active
    BY DEF Active, Stored
<1>2. OneActiveVersion' = OneActiveVersion
    BY <1>1 DEF OneActiveVersion
<1>3. ActiveEntries' = ActiveEntries
    BY <1>1 DEF ActiveEntries, EntryOf
<1>4. SeenIsActive(p)' = SeenIsActive(p)
    BY <1>1 DEF SeenIsActive, EntryOf
<1>5. Conflicts(p)' = Conflicts(p)
    BY DEF Conflicts, Wanted
<1>6. NewKeys(p)' = NewKeys(p)
    BY DEF NewKeys, New, Wanted
<1> QED BY <1>1, <1>2, <1>3, <1>4, <1>5, <1>6

LEMMA NextOneSync ==
    ASSUME \A p, q \in Syncers : p = q
    PROVE  TableInv /\ OneSyncInv /\ [Next]_vars => OneSyncInv'
<1> SUFFICES ASSUME TableInv, OneSyncInv, [Next]_vars PROVE OneSyncInv'
    OBVIOUS
<1> USE DEF TableInv, OneSyncInv
<1>1. OneActiveVersion'
    BY NextOneActive
<1>2. SUFFICES ASSUME NEW p \in Syncers PROVE PublishesWhatItSaw(p)' /\ RunIsLatest(p)'
    BY <1>1
<1>3. PublishesWhatItSaw(p) /\ RunIsLatest(p)
    OBVIOUS
<1>4. CASE ReadActive(p)
  <2>1. phase'[p] = "read"
      BY <1>4 DEF ReadActive, Goto, TypeOK
  <2>2. Active' = Active /\ \A k \in Active : EntryOf(k)' = EntryOf(k)
      BY <1>4 DEF ReadActive, Active, Stored, EntryOf
  <2>3. \A t \in Templates : seen'[p][t] =
            IF t \in ActiveTemplates THEN EntryOf(CHOOSE k \in Active : k[1] = t) ELSE Absent
      BY <1>4 DEF ReadActive, TypeOK
  <2>4. ASSUME NEW k \in Active PROVE seen'[p][k[1]] = EntryOf(k)
    <3>1. k[1] \in Templates /\ k[1] \in ActiveTemplates
        BY DEF Active, Stored, Keys, ActiveTemplates
    <3>2. (CHOOSE j \in Active : j[1] = k[1]) = k
        BY DEF OneActiveVersion
    <3> QED BY <2>3, <3>1, <3>2
  <2>5. SeenIsActive(p)'
      BY <2>2, <2>3, <2>4 DEF SeenIsActive, ActiveTemplates
  <2> QED BY <2>1, <2>5 DEF PublishesWhatItSaw, RunIsLatest, Unpublished
<1>5. CASE StartRun(p)
  <2>1. /\ phase[p] = "read" /\ phase'[p] = "started"
        /\ lastRun' = [owner |-> p, source |-> source[p], status |-> "running"]
        /\ UNCHANGED <<rows, source, seen>>
      BY <1>5 DEF StartRun, Goto, TypeOK
  <2> QED BY <1>3, <2>1, SameReading DEF PublishesWhatItSaw, RunIsLatest, Unpublished
<1>6. CASE Prepare(p)
  <2>1. /\ phase[p] = "started"
        /\ phase'[p] = IF HasActiveChanges(p) THEN "prepared" ELSE "published"
        /\ Conflicts(p) = {}
        /\ UNCHANGED <<rows, source, seen, lastRun>>
      BY <1>6 DEF Prepare, Goto, TypeOK
  <2>2. RunIsLatest(p)'
      BY <1>3, <2>1 DEF RunIsLatest, Phases
  <2>3. SeenIsActive(p)
      BY <1>3, <2>1 DEF PublishesWhatItSaw, Unpublished
  <2>4. CASE HasActiveChanges(p)
      BY <2>1, <2>2, <2>3, <2>4, SameReading DEF PublishesWhatItSaw, Unpublished
  <2>5. CASE ~HasActiveChanges(p)
    <3>1. New(p) = {} /\ {t \in Templates : seen[p][t] # Absent} = TemplatesOf(source[p])
        BY <2>5 DEF HasActiveChanges
    <3>2. source[p] \in Checkouts
        BY <2>1 DEF SourceLoaded
    <3>3. \A t \in TemplatesOf(source[p]) :
              /\ \E k \in Active : k[1] = t
              /\ \A k \in Active : k[1] = t => EntryOf(k) = Wanted(p, t)
        BY <2>1, <2>3, <3>1, OldTemplatesAreActive
    <3>4. \A k \in Active : k[1] \in TemplatesOf(source[p])
      <4>1. \A k \in Active : k[1] \in Templates /\ EntryOf(k) \in Entry
          BY DEF Active, Stored, Keys, EntryOf, TypeOK, Row, Entry
      <4>2. \A k \in Active : seen[p][k[1]] # Absent
          BY <2>3, <4>1, RegistryAssumption DEF SeenIsActive
      <4> QED BY <3>1, <4>1, <4>2
    <3>5. ActiveEntries = Snapshot(source[p])
        BY <3>2, <3>3, <3>4, ActiveAreSnapshot DEF SnapshotIsActive, Wanted
    <3> QED BY <2>1, <2>2, <2>5, <3>5, SameReading DEF PublishesWhatItSaw, Unpublished
  <2> QED BY <2>4, <2>5
<1>7. CASE RefuseSources(p) \/ PrepareFails(p) \/ FinishFails(p)
           \/ RefuseSnapshot(p) \/ PublishFails(p)
  <2>1. /\ phase[p] \notin {"idle", "read"} /\ phase'[p] = "failing"
        /\ UNCHANGED <<lastRun, source>>
      BY <1>7 DEF RefuseSources, PrepareFails, FinishFails, RefuseSnapshot, PublishFails, Goto,
                  TypeOK
  <2> QED BY <1>3, <2>1 DEF PublishesWhatItSaw, RunIsLatest, Unpublished, TypeOK
<1>8. CASE SelectActive(p)
  <2>1. /\ phase[p] = "prepared" /\ phase'[p] = "locking" /\ matched'[p] = Active
        /\ UNCHANGED <<rows, source, seen, lastRun>>
      BY <1>8 DEF SelectActive, Goto, TypeOK
  <2> QED BY <1>3, <2>1, SameReading DEF PublishesWhatItSaw, RunIsLatest, Unpublished, Phases
<1>9. CASE LockActive(p)
  <2>1. /\ phase[p] = "locking" /\ phase'[p] = "locked" /\ locked'[p] = matched[p] \cap Active
        /\ UNCHANGED <<rows, source, seen, lastRun>>
      BY <1>9 DEF LockActive, Goto, TypeOK
  <2>2. locked'[p] = Active
      BY <1>3, <2>1 DEF PublishesWhatItSaw
  <2> QED BY <1>3, <2>1, <2>2, SameReading DEF PublishesWhatItSaw, RunIsLatest, Unpublished, Phases
<1>10. CASE ReadExisting(p)
  <2>1. /\ phase[p] = "locked" /\ phase'[p] = "publishing" /\ locked'[p] = locked[p]
        /\ UNCHANGED <<rows, source, seen, lastRun>>
      BY <1>10 DEF ReadExisting, Goto, TypeOK
  <2>2. NewKeys(p) \subseteq Keys
      BY <2>1, KeysOfSnapshot
  <2>3. \A k \in NewKeys(p) : found'[p][k] = rows[k]
      BY <1>10, <2>2 DEF ReadExisting, TypeOK
  <2> QED BY <1>3, <2>1, <2>3, SameReading DEF PublishesWhatItSaw, RunIsLatest, Unpublished, Phases
<1>11. CASE CommitPublish(p)
  <2>1. /\ phase[p] = "publishing" /\ phase'[p] = "published"
        /\ UNCHANGED <<source, lastRun>>
        /\ Publishable(p)
        /\ source[p] \in Checkouts
      BY <1>11 DEF CommitPublish, Goto, TypeOK, SourceLoaded
  <2>2. RunIsLatest(p)'
      BY <1>3, <2>1 DEF RunIsLatest, Phases
  <2>3. ASSUME NEW k \in Active'
        PROVE  k[1] \in TemplatesOf(source[p]) /\ EntryOf(k)' = Registry[source[p]][k[1]]
    <3>1. /\ k[1] \in TemplatesOf(source[p])
          /\ k[2] = Wanted(p, k[1]).version
          /\ rows'[k] = [content |-> Wanted(p, k[1]).content, status |-> "active",
                         extends |-> ParentRow(p, k)]
        BY <1>11, <2>3, CommitLeavesSnapshot
    <3>2. Wanted(p, k[1]) \in Entry
        BY <2>1, <3>1, WantedIsEntry
    <3>3. rows'[k].content = Wanted(p, k[1]).content
        BY <3>1
    <3> QED BY <3>1, <3>2, <3>3 DEF Entry, Wanted, EntryOf
  <2>4. \A t \in TemplatesOf(source[p]) : \E k \in Active' : k[1] = t
      BY <1>11, <2>1, CommitLeavesSnapshot DEF Publishable, ValidSnapshot
  <2>5. ActiveEntries' = Snapshot(source[p])
      BY <2>1, <2>3, <2>4, ActiveAreSnapshotNext DEF SnapshotIsActive
  <2> QED BY <2>1, <2>2, <2>5 DEF PublishesWhatItSaw, Unpublished
<1>12. CASE Finish(p) \/ RecordFailure(p) \/ Crash(p)
  <2>1. phase'[p] = "idle"
      BY <1>12 DEF Finish, RecordFailure, Crash, Goto, TypeOK
  <2> QED BY <2>1 DEF PublishesWhatItSaw, RunIsLatest, Unpublished
<1>13. CASE Deploy \/ UNCHANGED vars
  <2>1. UNCHANGED <<rows, lastRun, phase, source, seen, matched, locked, found>>
      BY <1>13 DEF Deploy, vars
  <2> QED BY <1>3, <2>1, SameReading DEF PublishesWhatItSaw, RunIsLatest
<1> QED BY <1>4, <1>5, <1>6, <1>7, <1>8, <1>9, <1>10, <1>11, <1>12, <1>13 DEF Next, Works, Fails

LEMMA NextParents ==
    ASSUME \A p, q \in Syncers : p = q
    PROVE  TableInv /\ OneSyncInv /\ ActiveParentsAreActive /\ [Next]_vars
               => ActiveParentsAreActive'
<1> SUFFICES ASSUME TableInv, OneSyncInv, ActiveParentsAreActive, [Next]_vars
             PROVE  ActiveParentsAreActive'
    OBVIOUS
<1> USE DEF TableInv
<1>1. CASE UNCHANGED rows
    BY <1>1 DEF ActiveParentsAreActive, Active, Stored
<1>2. ASSUME NEW p \in Syncers, CommitPublish(p) PROVE ActiveParentsAreActive'
  <2>1. /\ phase[p] = "publishing" /\ ValidSnapshot(p)
        /\ SeenIsActive(p) /\ Conflicts(p) = {} /\ locked[p] = Active
      BY <1>2 DEF CommitPublish, Publishable, OneSyncInv, PublishesWhatItSaw, Unpublished
  <2>2. ASSUME NEW k \in TargetKeys(p)
        PROVE  ParentTemplate(p, k) = ParentOf[Wanted(p, k[1]).content]
    <3>1. CASE k[1] \in New(p)
        BY <3>1 DEF ParentTemplate
    <3>2. CASE k[1] \notin New(p)
      <4>1. k \in Active /\ k[1] \in TemplatesOf(source[p]) \ New(p)
          BY <2>1, <2>2, <3>2 DEF TargetKeys, NewKeys
      <4>2. EntryOf(k) = Wanted(p, k[1])
          BY <2>1, <4>1, OldTemplatesAreActive
      <4>3. rows[k].content = Wanted(p, k[1]).content
          BY <4>2 DEF EntryOf
      <4>4. \A j \in Active : j # NoTemplate
          BY NamesAssumption DEF Active, Stored
      <4> QED BY <3>2, <4>1, <4>3, <4>4 DEF ParentTemplate, ActiveParentsAreActive
    <3> QED BY <3>1, <3>2
  <2>3. ASSUME NEW k \in Active'
        PROVE  LET parent == ParentOf[rows'[k].content]
               IN  IF parent = NoTemplate THEN rows'[k].extends = NoTemplate
                   ELSE rows'[k].extends \in Active' /\ rows'[k].extends[1] = parent
    <3>1. /\ k \in TargetKeys(p)
          /\ rows'[k] = [content |-> Wanted(p, k[1]).content, status |-> "active",
                         extends |-> ParentRow(p, k)]
        BY <1>2, <2>3, CommitLeavesSnapshot
    <3>2. rows'[k].content = Wanted(p, k[1]).content /\ rows'[k].extends = ParentRow(p, k)
        BY <3>1
    <3>3. ParentTemplate(p, k) = ParentOf[rows'[k].content]
        BY <2>2, <3>1, <3>2
    <3>4. CASE ParentTemplate(p, k) = NoTemplate
        BY <3>2, <3>3, <3>4 DEF ParentRow
    <3>5. CASE ParentTemplate(p, k) # NoTemplate
      <4>1. ParentTemplate(p, k) \in TemplatesOf(source[p])
          BY <2>1, <3>1, <3>5 DEF ValidSnapshot
      <4>2. /\ ParentRow(p, k) \in TargetKeys(p)
            /\ ParentRow(p, k)[1] = ParentTemplate(p, k)
          BY <2>1, <3>5, <4>1, TargetIsKey DEF ParentRow
      <4> QED BY <1>2, <3>2, <3>3, <3>5, <4>2, CommitLeavesSnapshot
    <3> QED BY <3>4, <3>5
  <2> QED BY <2>3 DEF ActiveParentsAreActive
<1> QED BY <1>1, <1>2, OnlyCommitWrites

LEMMA OneSyncAlways ==
    ASSUME \A p, q \in Syncers : p = q
    PROVE  Spec => [](TableInv /\ OneSyncInv)
<1>1. TableInv /\ OneSyncInv /\ [Next]_vars => OneSyncInv'
    BY NextOneSync
<1> QED BY <1>1, InitTable, NextTable, InitOneSync, PTL DEF Spec

\* As long as syncs do not overlap, an active row extends the active version of
\* its parent: through upgrades, removals, returns, failures and crashes.
THEOREM ParentsAreActiveAlways ==
    ASSUME \A p, q \in Syncers : p = q
    PROVE  Spec => []ActiveParentsAreActive
<1>1. Spec => [](TableInv /\ OneSyncInv)
    BY OneSyncAlways
<1>2. Init => ActiveParentsAreActive
    BY DEF Init, ActiveParentsAreActive, Active, Stored
<1>3. TableInv /\ OneSyncInv /\ ActiveParentsAreActive /\ [Next]_vars => ActiveParentsAreActive'
    BY NextParents
<1> QED BY <1>1, <1>2, <1>3, PTL DEF Spec

\* As long as syncs do not overlap, no publish replaces an active version by an
\* older one.
THEOREM VersionsNeverGoBackInOneSync ==
    ASSUME \A p, q \in Syncers : p = q
    PROVE  Spec => VersionsNeverGoBack
<1>1. Spec => [](TableInv /\ OneSyncInv)
    BY OneSyncAlways
<1>2. TableInv /\ OneSyncInv /\ [Next]_vars =>
          [\A j \in Active, k \in Active' : j[1] = k[1] => j[2] <= k[2]]_vars
  <2> SUFFICES ASSUME TableInv, OneSyncInv, [Next]_vars,
                      NEW j \in Active, NEW k \in Active', j[1] = k[1]
               PROVE  j[2] <= k[2]
      OBVIOUS
  <2> USE DEF TableInv
  <2>1. j \in Keys /\ j[2] \in Nat
      BY VersionAssumption DEF Active, Stored, Keys
  <2>2. CASE UNCHANGED rows
    <3>1. k \in Active
        BY <2>2 DEF Active, Stored
    <3> QED BY <2>1, <3>1 DEF OneSyncInv, OneActiveVersion
  <2>3. ASSUME NEW p \in Syncers, CommitPublish(p) PROVE j[2] <= k[2]
    <3>1. phase[p] = "publishing" /\ SeenIsActive(p) /\ Conflicts(p) = {}
        BY <2>3 DEF CommitPublish, OneSyncInv, PublishesWhatItSaw, Unpublished
    <3>2. k[1] \in TemplatesOf(source[p]) /\ k[2] = Wanted(p, k[1]).version
        BY <2>3, CommitLeavesSnapshot
    <3>3. seen[p][k[1]] = EntryOf(j)
        BY <3>1 DEF SeenIsActive
    <3>4. EntryOf(j).version = j[2] /\ EntryOf(j) \in Entry
        BY DEF EntryOf, Active, Stored, Keys, TypeOK, Row, Entry
    <3>5. ~(Wanted(p, k[1]).version < seen[p][k[1]].version)
        BY <3>1, <3>2, <3>3, <3>4, RegistryAssumption DEF Conflicts
    <3>6. Wanted(p, k[1]).version \in Nat
        BY <3>1, <3>2, WantedIsEntry, VersionAssumption DEF Entry
    <3> QED BY <2>1, <3>2, <3>3, <3>4, <3>5, <3>6
  <2> QED BY <2>2, <2>3, OnlyCommitWrites
<1> QED BY <1>1, <1>2, PTL DEF Spec, VersionsNeverGoBack

-----------------------------------------------------------------------------
(* The refinement of the catalog.                                          *)

\* The checkout that the index is open to.
OpenTo == IF Queryable(lastRun.source) THEN lastRun.source ELSE NoCheckout

\* Whether the index is open depends on the rows and on the latest run.
LEMMA SameIndex ==
    ASSUME UNCHANGED rows, lastRun'.status = lastRun.status, lastRun'.source = lastRun.source
    PROVE  OpenTo' = OpenTo /\ ActiveEntries' = ActiveEntries
<1>1. Active' = Active
    BY DEF Active, Stored
<1> QED BY <1>1 DEF OpenTo, Queryable, ActiveTemplates, ActiveEntries, EntryOf

LEMMA NextCatalog ==
    ASSUME \A p, q \in Syncers : p = q
    PROVE  TableInv /\ OneSyncInv /\ [Next]_vars
               => \/ ActiveEntries' = ActiveEntries /\ OpenTo' \in {OpenTo, NoCheckout}
                  \/ \E c \in Checkouts :
                        /\ ActiveEntries' = ActiveEntries /\ ActiveEntries = Snapshot(c)
                        /\ OpenTo' = c
                  \/ \E c \in Checkouts :
                        /\ OpenTo = NoCheckout /\ OpenTo' = NoCheckout
                        /\ ActiveEntries' = Snapshot(c)
<1> SUFFICES ASSUME TableInv, OneSyncInv, [Next]_vars
             PROVE  \/ ActiveEntries' = ActiveEntries /\ OpenTo' \in {OpenTo, NoCheckout}
                    \/ \E c \in Checkouts :
                          /\ ActiveEntries' = ActiveEntries /\ ActiveEntries = Snapshot(c)
                          /\ OpenTo' = c
                    \/ \E c \in Checkouts :
                          /\ OpenTo = NoCheckout /\ OpenTo' = NoCheckout
                          /\ ActiveEntries' = Snapshot(c)
    OBVIOUS
<1> USE DEF TableInv
<1>1. CASE UNCHANGED <<rows, lastRun>>
    BY <1>1, SameIndex
<1>2. ASSUME NEW p \in Syncers, StartRun(p)
      PROVE  ActiveEntries' = ActiveEntries /\ OpenTo' = NoCheckout
  <2>1. UNCHANGED rows /\ lastRun'.status = "running"
      BY <1>2 DEF StartRun
  <2>2. Active' = Active
      BY <2>1 DEF Active, Stored
  <2> QED BY <2>1, <2>2 DEF OpenTo, Queryable, ActiveEntries, EntryOf
<1>3. ASSUME NEW p \in Syncers, CommitPublish(p)
      PROVE  \E c \in Checkouts : /\ OpenTo = NoCheckout /\ OpenTo' = NoCheckout
                                  /\ ActiveEntries' = Snapshot(c)
  <2>1. /\ phase[p] = "publishing" /\ phase'[p] = "published"
        /\ UNCHANGED <<lastRun, source>>
        /\ source[p] \in Checkouts
      BY <1>3 DEF CommitPublish, Goto, TypeOK, SourceLoaded
  <2>2. lastRun.status = "running"
      BY <2>1 DEF OneSyncInv, RunIsLatest, Phases
  <2>3. OpenTo = NoCheckout /\ OpenTo' = NoCheckout
      BY <2>1, <2>2 DEF OpenTo, Queryable
  <2>4. OneSyncInv'
      BY NextOneSync
  <2>5. ActiveEntries' = Snapshot(source[p])
      BY <2>1, <2>4 DEF OneSyncInv, PublishesWhatItSaw
  <2> QED BY <2>1, <2>3, <2>5
<1>4. ASSUME NEW p \in Syncers, Finish(p)
      PROVE  /\ ActiveEntries' = ActiveEntries
             /\ \/ OpenTo' = NoCheckout
                \/ \E c \in Checkouts : ActiveEntries = Snapshot(c) /\ OpenTo' = c
  <2>1. /\ phase[p] = "published" /\ UNCHANGED rows
        /\ source[p] \in Checkouts
      BY <1>4 DEF Finish, SourceLoaded
  <2>2. lastRun = [owner |-> p, source |-> source[p], status |-> "running"]
      BY <2>1 DEF OneSyncInv, RunIsLatest, Phases
  <2>3. lastRun'.source = source[p]
      BY <1>4, <2>2 DEF Finish, FinishRun
  <2>4. ActiveEntries = Snapshot(source[p])
      BY <2>1 DEF OneSyncInv, PublishesWhatItSaw
  <2>5. ActiveEntries' = ActiveEntries
      BY <2>1 DEF ActiveEntries, Active, Stored, EntryOf
  <2> QED BY <2>1, <2>3, <2>4, <2>5 DEF OpenTo
<1>5. ASSUME NEW p \in Syncers, RecordFailure(p)
      PROVE  ActiveEntries' = ActiveEntries /\ OpenTo' = NoCheckout
  <2>1. /\ phase[p] = "failing" /\ UNCHANGED rows
      BY <1>5 DEF RecordFailure
  <2>2. lastRun = [owner |-> p, source |-> source[p], status |-> "running"]
      BY <2>1 DEF OneSyncInv, RunIsLatest, Phases
  <2>3. lastRun'.status = "failed"
      BY <1>5, <2>2 DEF RecordFailure, FinishRun
  <2>4. ActiveEntries' = ActiveEntries
      BY <2>1 DEF ActiveEntries, Active, Stored, EntryOf
  <2> QED BY <2>3, <2>4 DEF OpenTo, Queryable
<1>6. ASSUME NEW p \in Syncers, Crash(p) PROVE ActiveEntries' = ActiveEntries /\ OpenTo' = OpenTo
  <2>1. /\ UNCHANGED rows
        /\ lastRun'.status = lastRun.status /\ lastRun'.source = lastRun.source
      BY <1>6 DEF Crash, TypeOK
  <2> QED BY <2>1, SameIndex
<1>7. \/ UNCHANGED <<rows, lastRun>>
      \/ \E p \in Syncers :
            StartRun(p) \/ CommitPublish(p) \/ Finish(p) \/ RecordFailure(p) \/ Crash(p)
    BY DEF Next, Works, Fails, vars, ReadActive, Prepare, RefuseSources, PrepareFails,
           SelectActive, LockActive, ReadExisting, RefuseSnapshot, PublishFails, FinishFails, Deploy
<1> QED BY <1>1, <1>2, <1>3, <1>4, <1>5, <1>6, <1>7

\* One sync at a time, of whatever checkout and after whatever failures and
\* crashes: each step opens the index to the versions it holds, closes it, or
\* replaces all versions at once while it is closed.
THEOREM SyncImplementsCatalog ==
    ASSUME \A p, q \in Syncers : p = q
    PROVE  Spec => ImplementsCatalog
<1>1. Spec => [](TableInv /\ OneSyncInv)
    BY OneSyncAlways
<1>2. Init => Catalog!Init
    BY DEF Init, Catalog!Init, Queryable, ActiveEntries, Active, Stored
<1>3. TableInv /\ OneSyncInv /\ [Next]_vars => [Catalog!Next]_<<ActiveEntries, OpenTo>>
  <2> SUFFICES ASSUME TableInv, OneSyncInv, [Next]_vars
               PROVE  [Catalog!Next]_<<ActiveEntries, OpenTo>>
      OBVIOUS
  <2> QED BY NextCatalog
          DEF OpenTo, Catalog!Next, Catalog!Close, Catalog!Open, Catalog!Publish
<1> QED BY <1>1, <1>2, <1>3, PTL DEF Spec, ImplementsCatalog, Catalog!Spec, OpenTo

-----------------------------------------------------------------------------
(* The retrieval.                                                          *)

\* What is proved of the selection is proved of Context.
Selection == INSTANCE TemplateContextProofs WITH
    Ids <- Keys, NoParent <- NoTemplate, Missing <- NoRow

LEMMA SelectionIsContext ==
    /\ Selection!ConstantsFit
    /\ \A docs, ranked : Context!Build(docs, ranked) = Selection!Build(docs, ranked)
    /\ \A docs, chain : Context!Tokens(docs, chain) = Selection!Tokens(docs, chain)
<1>1. Selection!ConstantsFit
    BY ReaderAssumption, NamesAssumption DEF Selection!ConstantsFit, Selection!IsFiniteSet, IsFiniteSet
<1>2. ASSUME NEW docs, NEW chain PROVE Context!Tokens(docs, chain) = Selection!Tokens(docs, chain)
    BY DEF Context!Tokens, Selection!Tokens, Context!After, Selection!After
<1>3. ASSUME NEW docs, NEW ranked PROVE Context!Build(docs, ranked) = Selection!Build(docs, ranked)
    BY DEF Context!Build, Selection!Build, Context!Take, Selection!Take, Context!Taken, Selection!Taken,
           Context!Completed, Selection!Completed, Context!With, Selection!With,
           Context!DependencyChain, Selection!DependencyChain, Context!Extended, Selection!Extended,
           Context!Tokens, Selection!Tokens, Context!After, Selection!After,
           Context!ToSet, Selection!ToSet, Context!Cardinality, Selection!Cardinality
<1> QED BY <1>1, <1>2, <1>3

-----------------------------------------------------------------------------
(* The catalog that is read, while one sync at a time replaces it.         *)

\* What is stored was in a checkout.
StoredIsRegistered ==
    \A k \in Stored : \E c \in Checkouts :
        k[1] \in TemplatesOf(c) /\ rows[k].content = Registry[c][k[1]].content

\* What the latest run succeeded with is what is active.
LatestIsActive ==
    lastRun.status = "succeeded" =>
        lastRun.source \in Checkouts /\ ActiveEntries = Snapshot(lastRun.source)

CatalogInv ==
    /\ TableInv /\ OneSyncInv /\ ActiveParentsAreActive
    /\ StoredIsRegistered /\ LatestIsActive

LEMMA NextStored == TableInv /\ StoredIsRegistered /\ [Next]_vars => StoredIsRegistered'
<1> SUFFICES ASSUME TableInv, StoredIsRegistered, [Next]_vars PROVE StoredIsRegistered'
    OBVIOUS
<1>1. CASE UNCHANGED rows
    BY <1>1 DEF StoredIsRegistered, Stored
<1>2. ASSUME NEW p \in Syncers, CommitPublish(p) PROVE StoredIsRegistered'
  <2>1. /\ phase[p] = "publishing" /\ Publishable(p) /\ rows' = Published(p)
        /\ source[p] \in Checkouts
      BY <1>2 DEF CommitPublish, TableInv, SourceLoaded
  <2>2. SUFFICES ASSUME NEW k \in Keys, rows'[k] # NoRow
                 PROVE  \E c \in Checkouts :
                            k[1] \in TemplatesOf(c) /\ rows'[k].content = Registry[c][k[1]].content
      BY DEF StoredIsRegistered, Stored
  <2>3. CASE k \in Stored
    <3>1. rows'[k].content = rows[k].content
        BY <2>1, <2>3, PublishedTyped
    <3> QED BY <2>3, <3>1 DEF StoredIsRegistered
  <2>4. CASE k \notin Stored
    <3>1. k \notin locked[p] /\ rows[k] = NoRow
        BY <2>4 DEF TableInv, LockedAreStored, Stored
    <3>2. k \in NewKeys(p) /\ rows'[k] = TargetRow(p, k)
        BY <2>1, <2>2, <3>1 DEF Published, TargetKeys
    <3>3. k[1] \in TemplatesOf(source[p])
        BY <3>2 DEF NewKeys, New
    <3>4. rows'[k].content = Wanted(p, k[1]).content
        BY <3>2 DEF TargetRow
    <3> QED BY <2>1, <3>3, <3>4 DEF Wanted
  <2> QED BY <2>3, <2>4
<1> QED BY <1>1, <1>2, OnlyCommitWrites

LEMMA NextLatest ==
    ASSUME \A p, q \in Syncers : p = q
    PROVE  TableInv /\ OneSyncInv /\ LatestIsActive /\ [Next]_vars => LatestIsActive'
<1> SUFFICES ASSUME TableInv, OneSyncInv, LatestIsActive, [Next]_vars, lastRun'.status = "succeeded"
             PROVE  lastRun'.source \in Checkouts /\ ActiveEntries' = Snapshot(lastRun'.source)
    BY DEF LatestIsActive, Snapshot
<1> USE DEF TableInv
<1>1. CASE /\ UNCHANGED rows
           /\ lastRun'.status = lastRun.status /\ lastRun'.source = lastRun.source
    BY <1>1, SameIndex DEF LatestIsActive
<1>2. ASSUME NEW p \in Syncers, StartRun(p) \/ CommitPublish(p) \/ RecordFailure(p) PROVE FALSE
  <2>1. CASE StartRun(p)
      BY <2>1 DEF StartRun
  <2>2. CASE CommitPublish(p)
      BY <2>2 DEF CommitPublish, OneSyncInv, RunIsLatest, Phases
  <2>3. CASE RecordFailure(p)
    <3>1. lastRun = [owner |-> p, source |-> source[p], status |-> "running"]
        BY <2>3 DEF RecordFailure, OneSyncInv, RunIsLatest, Phases
    <3> QED BY <2>3, <3>1 DEF RecordFailure, FinishRun
  <2> QED BY <1>2, <2>1, <2>2, <2>3
<1>3. ASSUME NEW p \in Syncers, Finish(p)
      PROVE  lastRun'.source \in Checkouts /\ ActiveEntries' = Snapshot(lastRun'.source)
  <2>1. /\ phase[p] = "published" /\ UNCHANGED rows
        /\ source[p] \in Checkouts
      BY <1>3 DEF Finish, SourceLoaded
  <2>2. lastRun = [owner |-> p, source |-> source[p], status |-> "running"]
      BY <2>1 DEF OneSyncInv, RunIsLatest, Phases
  <2>3. lastRun'.source = source[p]
      BY <1>3, <2>2 DEF Finish, FinishRun
  <2>4. ActiveEntries = Snapshot(source[p])
      BY <2>1 DEF OneSyncInv, PublishesWhatItSaw
  <2>5. ActiveEntries' = ActiveEntries
      BY <2>1 DEF ActiveEntries, Active, Stored, EntryOf
  <2> QED BY <2>1, <2>3, <2>4, <2>5
<1>4. ASSUME NEW p \in Syncers, Crash(p)
      PROVE  /\ UNCHANGED rows
             /\ lastRun'.status = lastRun.status /\ lastRun'.source = lastRun.source
    BY <1>4 DEF Crash, TypeOK
<1>5. \/ UNCHANGED <<rows, lastRun>>
      \/ \E p \in Syncers :
            StartRun(p) \/ CommitPublish(p) \/ Finish(p) \/ RecordFailure(p) \/ Crash(p)
    BY DEF Next, Works, Fails, vars, ReadActive, Prepare, RefuseSources, PrepareFails,
           SelectActive, LockActive, ReadExisting, RefuseSnapshot, PublishFails, FinishFails, Deploy
<1> QED BY <1>1, <1>2, <1>3, <1>4, <1>5

\* A step of a request is none of the sync's.
LEMMA RetrievalIsSync == [RetrievalNext]_readingVars => [Next]_vars
BY DEF RetrievalNext, readingVars, vars

LEMMA CatalogAlways ==
    ASSUME \A p, q \in Syncers : p = q
    PROVE  RetrievalSpec => []CatalogInv
<1>1. RetrievalInit => CatalogInv
  <2> SUFFICES ASSUME Init PROVE CatalogInv
      BY DEF RetrievalInit
  <2>1. ActiveParentsAreActive /\ StoredIsRegistered /\ LatestIsActive
      BY DEF Init, ActiveParentsAreActive, StoredIsRegistered, LatestIsActive, Active, Stored
  <2> QED BY <2>1, InitTable, InitOneSync DEF CatalogInv
<1>2. CatalogInv /\ [Next]_vars => CatalogInv'
    BY NextTable, NextOneSync, NextParents, NextStored, NextLatest DEF CatalogInv
<1> QED BY <1>1, <1>2, RetrievalIsSync, PTL DEF RetrievalSpec

\* An index that fits when the run is read is open.
LEMMA FittingIsQueryable ==
    ASSUME CatalogInv, NEW c \in Checkouts, LatestRunFits(c)
    PROVE  Queryable(c)
<1>1. lastRun.status = "succeeded" /\ lastRun.source = c /\ ActiveEntries = Snapshot(c)
    BY DEF CatalogInv, LatestRunFits, LatestIsActive
<1>2. TemplatesOf(c) # {} /\ Defaults[c] \subseteq TemplatesOf(c)
    BY RegistryAssumption
<1>3. \A t \in TemplatesOf(c) : \E k \in Active : k[1] = t
  <2> TAKE t \in TemplatesOf(c)
  <2>1. <<t, Registry[c][t]>> \in ActiveEntries
      BY <1>1 DEF Snapshot
  <2> QED BY <2>1 DEF ActiveEntries
<1>4. Active # {} /\ Defaults[c] \subseteq ActiveTemplates
    BY <1>2, <1>3 DEF ActiveTemplates
<1> QED BY <1>1, <1>4 DEF Queryable

-----------------------------------------------------------------------------
(* The requests.                                                           *)

Candidates == [key: Keys, extends: Keys \cup {NoTemplate}]

Request == [at: {"idle", "run", "ids", "ready", "vectors", "ranked", "defaults", "parents",
                 "documents", "answered", "refused"},
            server: Checkouts \cup {NoCheckout}, queryable: BOOLEAN, similar: BOOLEAN,
            candidates: SUBSET Candidates, docs: [Keys -> Row \cup {NoRow}],
            reason: {"semantic", "default"}, context: Seq(Keys)]

Witnesses == [open: BOOLEAN, actives: SUBSET SUBSET Keys]

\* Core templates extend nothing, so that no chain has more than two versions.
CoreExtendsNothing ==
    \A c \in Checkouts : \A t \in TemplatesOf(c) \cap CoreTemplates :
        ParentOf[Registry[c][t].content] = NoTemplate

\* A status is told from an open index, and only then is anything searched.
StatusTold(q, w) ==
    /\ q.at \in {"run", "ids"} /\ q.queryable => w.open
    /\ q.at \notin {"idle", "run", "ids"} => w.open

\* A loaded version extends the template that its text names.
ParentsOfText(docs) ==
    \A k \in Loaded(docs) :
        LET parent == ParentOf[docs[k].content]
        IN  IF parent = NoTemplate THEN docs[k].extends = NoTemplate
            ELSE docs[k].extends \in Keys /\ docs[k].extends[1] = parent

\* The loaded versions and what they extend were active when the first of them
\* were read.
OneCatalog(docs, actives) ==
    \E A \in actives : \A k \in Loaded(docs) :
        k \in A /\ docs[k].extends \in A \cup {NoTemplate}

DocsRead(q, w) ==
    q.at \in {"parents", "documents", "answered"} =>
        ParentsOfText(q.docs) /\ (CoreExtendsNothing => OneCatalog(q.docs, w.actives))

ContextBuilt(q) ==
    q.context # <<>> => q.at = "answered" /\ q.context \in Selection!Complete(Sized(q.docs))

RequestInv(q, w) ==
    /\ q \in Request /\ w \in Witnesses
    /\ StatusTold(q, w) /\ DocsRead(q, w) /\ ContextBuilt(q)

ReadersInv ==
    /\ request = [r \in Readers |-> request[r]]
    /\ \A r \in Readers : RequestInv(request[r], witnessed[r])

\* More may have been so as time goes by.
Grown(w, v) ==
    /\ v \in Witnesses
    /\ w.open => v.open
    /\ w.actives \subseteq v.actives

LEMMA GrownKeeps ==
    ASSUME NEW q, NEW w, NEW v, RequestInv(q, w), Grown(w, v)
    PROVE  RequestInv(q, v)
<1>1. StatusTold(q, v)
    BY DEF RequestInv, Grown, StatusTold
<1>2. DocsRead(q, v)
    BY DEF RequestInv, Grown, DocsRead, OneCatalog
<1> QED BY <1>1, <1>2 DEF RequestInv, Grown

LEMMA IdleIsFine ==
    ASSUME NEW w \in Witnesses
    PROVE  RequestInv(Idle, w) /\ Idle \in Request /\ Idle.at = "idle" /\ Idle.context = <<>>
<1>1. Idle \in Request
    BY DEF Idle, Request, NothingFound, Candidates
<1>2. Idle.at = "idle" /\ Idle.context = <<>>
    BY DEF Idle
<1> QED BY <1>1, <1>2 DEF RequestInv, StatusTold, DocsRead, ContextBuilt

\* What is witnessed of a request after a step.
LEMMA WitnessGrows ==
    ASSUME Witness, NEW r \in Readers, witnessed[r] \in Witnesses, TypeOK'
    PROVE  /\ request'[r].at = "idle" => witnessed'[r] \in Witnesses
           /\ request'[r].at # "idle" =>
                /\ Grown(witnessed[r], witnessed'[r])
                /\ Active' \in witnessed'[r].actives
                /\ \A c \in Checkouts :
                        c = request'[r].server /\ Queryable(c)' => witnessed'[r].open
<1>1. witnessed'[r] =
        IF request'[r].at = "idle" THEN Unwitnessed
        ELSE [open |-> \/ witnessed[r].open
                       \/ \E c \in Checkouts : c = request'[r].server /\ Queryable(c)',
              actives |-> witnessed[r].actives \cup {Active'}]
    BY DEF Witness
<1>2. Active' \in SUBSET Keys
    BY DEF Active, Stored
<1> DEFINE opened == \E c \in Checkouts : c = request'[r].server /\ Queryable(c)'
<1>3. opened \in BOOLEAN
    OBVIOUS
<1>4. Unwitnessed \in Witnesses
    BY DEF Unwitnessed, Witnesses
<1>5. ASSUME NEW o \in BOOLEAN, NEW v, v = [open |-> witnessed[r].open \/ o,
                                            actives |-> witnessed[r].actives \cup {Active'}]
      PROVE  Grown(witnessed[r], v) /\ Active' \in v.actives /\ (o => v.open)
    BY <1>2, <1>5 DEF Grown, Witnesses
<1>6. request'[r].at # "idle" =>
        witnessed'[r] = [open |-> witnessed[r].open \/ opened,
                         actives |-> witnessed[r].actives \cup {Active'}]
    BY <1>1
<1>7. request'[r].at # "idle" =>
        Grown(witnessed[r], witnessed'[r]) /\ Active' \in witnessed'[r].actives
        /\ (opened => witnessed'[r].open)
  <2> HIDE DEF opened
  <2> QED BY <1>3, <1>5, <1>6
<1> QED BY <1>1, <1>4, <1>7

\* Reading the rows of active versions.
LEMMA ActiveAreRead ==
    ASSUME CatalogInv, NEW ids, NEW docs, docs = ActiveAmong(ids)
    PROVE  /\ docs \in [Keys -> Row \cup {NoRow}]
           /\ Loaded(docs) \subseteq ids \cap Active
           /\ \A k \in Loaded(docs) : docs[k] = rows[k]
           /\ ParentsOfText(docs)
           /\ \A k \in Loaded(docs) : docs[k].extends \in Active \cup {NoTemplate}
<1>1. rows \in [Keys -> Row \cup {NoRow}] /\ Active \subseteq Keys
    BY DEF CatalogInv, TableInv, TypeOK, Active, Stored
<1>2. \A k \in Keys : docs[k] = IF k \in ids \cap Active THEN rows[k] ELSE NoRow
    BY DEF ActiveAmong
<1>3. docs \in [Keys -> Row \cup {NoRow}]
    BY <1>1 DEF ActiveAmong
<1>4. \A k \in Loaded(docs) : k \in ids \cap Active /\ docs[k] = rows[k]
    BY <1>2 DEF Loaded
<1>5. \A k \in Active :
        LET parent == ParentOf[rows[k].content]
        IN  IF parent = NoTemplate THEN rows[k].extends = NoTemplate
            ELSE rows[k].extends \in Active /\ rows[k].extends[1] = parent
    BY DEF CatalogInv, ActiveParentsAreActive
<1>6. ParentsOfText(docs)
    BY <1>1, <1>4, <1>5 DEF ParentsOfText
<1> QED BY <1>3, <1>4, <1>5, <1>6

\* A template that the text of a stored version names extends nothing.
LEMMA ParentsExtendNothing ==
    ASSUME CatalogInv, CoreExtendsNothing, NEW k \in Active, NEW content \in Contents,
           k[1] = ParentOf[content], ParentOf[content] # NoTemplate
    PROVE  rows[k].extends = NoTemplate
<1>1. k[1] \in CoreTemplates
    BY ReaderAssumption
<1>2. PICK c \in Checkouts :
        k[1] \in TemplatesOf(c) /\ rows[k].content = Registry[c][k[1]].content
    BY DEF CatalogInv, StoredIsRegistered, Active
<1>3. ParentOf[rows[k].content] = NoTemplate
    BY <1>1, <1>2 DEF CoreExtendsNothing
<1> QED BY <1>3 DEF CatalogInv, ActiveParentsAreActive

\* The parents that were missing are read too.
LEMMA ParentsAreAdded ==
    ASSUME CatalogInv, NEW docs \in [Keys -> Row \cup {NoRow}], ParentsOfText(docs),
           NEW more, more = ActiveAmong(PendingParents(docs)),
           NEW all, all = [k \in Keys |-> IF more[k] # NoRow THEN more[k] ELSE docs[k]]
    PROVE  /\ all \in [Keys -> Row \cup {NoRow}]
           /\ ParentsOfText(all)
           /\ \A actives : CoreExtendsNothing /\ OneCatalog(docs, actives) => OneCatalog(all, actives)
<1>1. /\ more \in [Keys -> Row \cup {NoRow}]
      /\ Loaded(more) \subseteq PendingParents(docs) \cap Active
      /\ \A k \in Loaded(more) : more[k] = rows[k]
      /\ ParentsOfText(more)
  <2> HIDE DEF CatalogInv
  <2> QED BY ActiveAreRead
<1>2. all \in [Keys -> Row \cup {NoRow}]
    BY <1>1
<1>3. \A k \in Loaded(all) : \/ k \in Loaded(more) /\ all[k] = more[k]
                             \/ k \in Loaded(docs) /\ all[k] = docs[k]
    BY DEF Loaded
<1>4. ParentsOfText(all)
    BY <1>1, <1>3 DEF ParentsOfText
<1>5. ASSUME NEW actives, CoreExtendsNothing, OneCatalog(docs, actives)
      PROVE  OneCatalog(all, actives)
  <2>1. PICK A \in actives : \A k \in Loaded(docs) : k \in A /\ docs[k].extends \in A \cup {NoTemplate}
      BY <1>5 DEF OneCatalog
  <2>2. ASSUME NEW k \in Loaded(more) PROVE k \in A /\ more[k].extends = NoTemplate
    <3>1. k \in Active /\ k \in PendingParents(docs)
        BY <1>1, <2>2
    <3>2. PICK j \in Loaded(docs) : docs[j].extends = k
        BY <3>1 DEF PendingParents
    <3>3. k # NoTemplate
        BY <3>1 DEF PendingParents
    <3>4. docs[j] \in Row
        BY DEF Loaded
    <3>5. docs[j].content \in Contents
        BY <3>4 DEF Row
    <3>6. ParentOf[docs[j].content] # NoTemplate /\ k[1] = ParentOf[docs[j].content]
        BY <3>2, <3>3 DEF ParentsOfText
    <3>7. rows[k].extends = NoTemplate
        BY <1>5, <3>1, <3>5, <3>6, ParentsExtendNothing
    <3> QED BY <1>1, <2>1, <3>2, <3>3, <3>7
  <2>3. \A k \in Loaded(all) : k \in A /\ all[k].extends \in A \cup {NoTemplate}
      BY <1>3, <2>1, <2>2
  <2> QED BY <2>3 DEF OneCatalog
<1> QED BY <1>2, <1>4, <1>5

\* Any ranking of candidates is one of keys.
LEMMA RankedAreKeys ==
    ASSUME NEW S \in SUBSET Keys, NEW ranked \in SetToSeqs(S)
    PROVE  ranked \in Seq(Keys)
<1>1. IsFiniteSet(S)
    BY ReaderAssumption, FS_Subset
<1>2. Cardinality(S) \in Nat
    BY <1>1, FS_CardinalityType
<1>3. ranked \in [1..Cardinality(S) -> S]
    BY DEF SetToSeqs
<1> QED BY <1>2, <1>3

\* The documents as the selection sees them.
LEMMA SizedAreDocuments ==
    ASSUME NEW docs \in [Keys -> Row \cup {NoRow}]
    PROVE  /\ Sized(docs) \in Selection!Documents
           /\ \A k \in Keys : Sized(docs)[k] # NoRow =>
                docs[k] # NoRow /\ Sized(docs)[k].extends = docs[k].extends
<1>1. ASSUME NEW k \in Keys, docs[k] # NoRow
      PROVE  /\ Sized(docs)[k] \in Selection!Document
             /\ Sized(docs)[k].extends = docs[k].extends
  <2>1. docs[k] \in Row
      BY <1>1
  <2>2. docs[k].extends \in Keys \cup {NoTemplate} /\ docs[k].content \in Contents
      BY <2>1 DEF Row
  <2>3. SizeOf[docs[k].content] \in Nat
      BY <2>2, ReaderAssumption
  <2>4. Sized(docs)[k] = [extends |-> docs[k].extends, core |-> k[1] \in CoreTemplates,
                          size |-> SizeOf[docs[k].content]]
      BY <1>1 DEF Sized
  <2>5. (k[1] \in CoreTemplates) \in BOOLEAN
      OBVIOUS
  <2> QED BY <2>2, <2>3, <2>4, <2>5 DEF Selection!Document
<1>2. \A k \in Keys : docs[k] = NoRow => Sized(docs)[k] = NoRow
    BY DEF Sized
<1>3. Sized(docs) = [k \in Keys |-> Sized(docs)[k]]
    BY DEF Sized
<1>4. Sized(docs) \in Selection!Documents
    BY <1>1, <1>2, <1>3 DEF Selection!Documents
<1> QED BY <1>1, <1>2, <1>4

-----------------------------------------------------------------------------
(* The steps of a request.                                                 *)

\* A step to which nothing is added that was read.
LEMMA PlainStep ==
    ASSUME NEW q, NEW w, NEW v, RequestInv(q, w), Grown(w, v), w.open,
           NEW new \in Request, new.at \in {"ready", "vectors", "ranked", "defaults", "refused"},
           new.context = <<>>
    PROVE  RequestInv(new, v)
BY DEF RequestInv, Grown, StatusTold, DocsRead, ContextBuilt

\* A request that searches or reads was let through.
LEMMA LetThrough ==
    ASSUME NEW q, NEW w, RequestInv(q, w), q.at \notin {"idle", "run", "ids"}
    PROVE  /\ w.open
           /\ q.at # "answered" => q.context = <<>>
           /\ q \in Request
BY DEF RequestInv, StatusTold, ContextBuilt

LEMMA ReadStatusKeeps ==
    ASSUME CatalogInv, ReadersInv, UNCHANGED vars, Witness, NEW r \in Readers,
           ReadLatestRun(r) \/ ReadActiveIds(r) \/ CountChunks(r),
           NEW q, q = request[r], NEW w, w = witnessed[r],
           NEW new, new = request'[r], NEW v, v = witnessed'[r]
    PROVE  RequestInv(new, v)
<1>1. RequestInv(q, w) /\ q \in Request /\ w \in Witnesses
    BY DEF ReadersInv, RequestInv
<1>2. /\ new.at = "idle" => v \in Witnesses
      /\ new.at # "idle" => Grown(w, v)
      /\ \A c \in Checkouts : new.at # "idle" /\ c = new.server /\ Queryable(c) => v.open
  <2>1. TypeOK'
      BY DEF CatalogInv, TableInv, TypeOK, vars
  <2>2. \A c \in Checkouts : Queryable(c)' = Queryable(c)
      BY DEF Queryable, ActiveTemplates, Active, Stored, vars
  <2> QED BY <1>1, <2>1, <2>2, WitnessGrows
<1>3. CASE ReadLatestRun(r)
  <2>1. PICK c \in Checkouts :
            new = [Idle EXCEPT !.at = "run", !.server = c, !.queryable = LatestRunFits(c)]
      BY <1>3 DEF ReadLatestRun, Becomes, ReadersInv
  <2>2. /\ new = [Idle EXCEPT !.at = "run", !.server = c, !.queryable = new.queryable]
        /\ new.queryable \in BOOLEAN
        /\ new.queryable <=> LatestRunFits(c)
      BY <2>1 DEF Idle, LatestRunFits
  <2>3. new.at = "run" /\ new.server = c /\ new.context = <<>>
      BY <2>1 DEF Idle
  <2>4. new \in Request
      BY <1>1, <2>2, IdleIsFine DEF Request
  <2>5. new.queryable => v.open
      BY <1>2, <2>2, <2>3, FittingIsQueryable
  <2>6. v \in Witnesses
      BY <1>2, <2>3 DEF Grown
  <2> QED BY <2>3, <2>4, <2>5, <2>6 DEF RequestInv, StatusTold, DocsRead, ContextBuilt
<1>4. CASE ReadActiveIds(r)
  <2> DEFINE still == Active # {} /\ Defaults[q.server] \subseteq ActiveTemplates
  <2>1. /\ q.at = "run"
        /\ new = [q EXCEPT !.at = "ids", !.queryable = q.queryable /\ still]
      BY <1>4 DEF ReadActiveIds, Becomes, ReadersInv
  <2> HIDE DEF still
  <2>2. /\ new.at = "ids" /\ new.context = q.context
        /\ new.queryable => q.queryable
      BY <1>1, <2>1 DEF Request
  <2>3. new \in Request
      BY <1>1, <2>1 DEF Request
  <2>4. Grown(w, v) /\ (q.queryable => w.open) /\ q.context = <<>>
      BY <1>1, <1>2, <2>1, <2>2 DEF RequestInv, StatusTold, ContextBuilt
  <2> QED BY <2>2, <2>3, <2>4 DEF RequestInv, StatusTold, DocsRead, ContextBuilt, Grown
<1>5. CASE CountChunks(r)
  <2>1. /\ q.at = "ids"
        /\ \/ new = Idle
           \/ q.queryable /\ new = [q EXCEPT !.at = "ready"]
      BY <1>5 DEF CountChunks, Becomes, ReadersInv
  <2>2. CASE new = Idle
      BY <1>1, <1>2, <2>2, IdleIsFine
  <2>3. CASE q.queryable /\ new = [q EXCEPT !.at = "ready"]
    <3>1. new \in Request /\ new.at = "ready" /\ new.context = q.context
        BY <1>1, <2>3 DEF Request
    <3>2. Grown(w, v) /\ w.open /\ q.context = <<>>
        BY <1>1, <1>2, <2>1, <2>3, <3>1 DEF RequestInv, StatusTold, ContextBuilt
    <3> QED BY <1>1, <3>1, <3>2, PlainStep
  <2> QED BY <2>1, <2>2, <2>3
<1> QED BY <1>3, <1>4, <1>5

LEMMA SearchKeeps ==
    ASSUME CatalogInv, ReadersInv, UNCHANGED vars, Witness, NEW r \in Readers,
           FindVectorCandidates(r) \/ FindLexicalCandidates(r) \/ Leave(r) \/ GiveUp(r),
           NEW q, q = request[r], NEW w, w = witnessed[r],
           NEW new, new = request'[r], NEW v, v = witnessed'[r]
    PROVE  RequestInv(new, v)
<1>1. RequestInv(q, w) /\ q \in Request /\ w \in Witnesses
    BY DEF ReadersInv, RequestInv
<1>2. /\ new.at = "idle" => v \in Witnesses
      /\ new.at # "idle" => Grown(w, v)
  <2>1. TypeOK'
      BY DEF CatalogInv, TableInv, TypeOK, vars
  <2> QED BY <1>1, <2>1, WitnessGrows
<1>3. \A hits \in Found : hits \in SUBSET Candidates
  <2>1. \A k \in Active : k \in Keys /\ rows[k].extends \in Keys \cup {NoTemplate}
      BY DEF CatalogInv, TableInv, TypeOK, Active, Stored, Row
  <2> QED BY <2>1 DEF Found, Candidates
<1>4. CASE FindVectorCandidates(r)
  <2>1. q.at = "ready"
      BY <1>4 DEF FindVectorCandidates
  <2>2. PICK hits \in Found, similar \in BOOLEAN :
            new = [q EXCEPT !.at = "vectors", !.candidates = hits, !.similar = similar]
      BY <1>4 DEF FindVectorCandidates, Becomes, ReadersInv
  <2>3. hits \in SUBSET Candidates
      BY <1>3
  <2>4. new \in Request /\ new.at = "vectors" /\ new.context = q.context
      BY <1>1, <2>2, <2>3 DEF Request
  <2> QED BY <1>1, <1>2, <2>1, <2>4, LetThrough, PlainStep
<1>5. CASE FindLexicalCandidates(r)
  <2>1. q.at = "vectors"
      BY <1>5 DEF FindLexicalCandidates
  <2>2. PICK hits \in Found :
            \/ new = [q EXCEPT !.at = "ranked", !.candidates = q.candidates \cup hits]
            \/ new = [q EXCEPT !.at = "defaults", !.candidates = {}]
      BY <1>5 DEF FindLexicalCandidates, Becomes, ReadersInv
  <2>3. hits \in SUBSET Candidates
      BY <1>3
  <2>4. new \in Request /\ new.at \in {"ranked", "defaults"} /\ new.context = q.context
    <3>1. q.candidates \cup hits \in SUBSET Candidates
        BY <1>1, <2>3 DEF Request
    <3> QED BY <1>1, <2>2, <3>1 DEF Request
  <2> QED BY <1>1, <1>2, <2>1, <2>4, LetThrough, PlainStep
<1>6. CASE Leave(r) \/ GiveUp(r)
  <2>1. new = Idle
      BY <1>6 DEF Leave, GiveUp, Becomes, ReadersInv
  <2> QED BY <1>1, <1>2, <2>1, IdleIsFine
<1> QED BY <1>4, <1>5, <1>6

LEMMA LoadKeeps ==
    ASSUME CatalogInv, ReadersInv, UNCHANGED vars, Witness, NEW r \in Readers,
           LoadCandidateDocuments(r) \/ LoadParents(r) \/ LoadDefaults(r),
           NEW q, q = request[r], NEW w, w = witnessed[r],
           NEW new, new = request'[r], NEW v, v = witnessed'[r]
    PROVE  RequestInv(new, v)
<1>1. RequestInv(q, w) /\ q \in Request /\ w \in Witnesses
    BY DEF ReadersInv, RequestInv
<1>2. new.at # "idle" => Grown(w, v) /\ Active \in v.actives
  <2>1. TypeOK'
      BY DEF CatalogInv, TableInv, TypeOK, vars
  <2>2. Active' = Active
      BY DEF Active, Stored, vars
  <2> QED BY <1>1, <2>1, <2>2, WitnessGrows
\* Active rows that are read at once.
<1>3. ASSUME NEW ids, NEW docs, docs = ActiveAmong(ids),
             new \in Request, new.at = "parents", new.docs = docs, new.context = <<>>, w.open
      PROVE  RequestInv(new, v)
  <2>1. ParentsOfText(docs) /\ \A k \in Loaded(docs) : k \in Active /\ docs[k].extends \in Active \cup {NoTemplate}
      BY <1>3, ActiveAreRead
  <2>2. OneCatalog(docs, v.actives)
      BY <1>2, <1>3, <2>1 DEF OneCatalog
  <2>3. v \in Witnesses /\ v.open
      BY <1>2, <1>3 DEF Grown
  <2> QED BY <1>3, <2>1, <2>2, <2>3 DEF RequestInv, StatusTold, DocsRead, ContextBuilt
<1>4. CASE LoadCandidateDocuments(r)
  <2> DEFINE ids == UNION {{c.key, c.extends} : c \in q.candidates}
  <2>0. PICK loaded : loaded = ActiveAmong(ids)
      OBVIOUS
  <2>1. /\ q.at = "ranked"
        /\ new = [q EXCEPT !.at = "parents", !.docs = loaded]
      BY <1>4, <2>0 DEF LoadCandidateDocuments, Becomes, ReadersInv
  <2> HIDE DEF ids
  <2>2. loaded \in [Keys -> Row \cup {NoRow}]
      BY <2>0, ActiveAreRead
  <2>3. w.open /\ q.context = <<>>
      BY <1>1, <2>1, LetThrough
  <2>4. q \in Request /\ new = [q EXCEPT !.at = "parents", !.docs = loaded]
      BY <1>1, <2>1
  <2>5. new \in Request
      BY <2>2, <2>4 DEF Request
  <2>6. new.at = "parents" /\ new.docs = loaded /\ new.context = q.context
      BY <2>4 DEF Request
  <2> QED BY <1>3, <2>0, <2>3, <2>5, <2>6
<1>5. CASE LoadDefaults(r)
  <2> DEFINE ids == {k \in Active : k[1] \in Defaults[q.server]}
  <2>0. PICK loaded, defaults : /\ loaded = ActiveAmong(ids)
                               /\ defaults = {[key |-> k, extends |-> rows[k].extends] : k \in ids}
      OBVIOUS
  <2>1. /\ q.at = "defaults"
        /\ \/ new = [q EXCEPT !.at = "parents", !.reason = "default", !.docs = loaded,
                              !.candidates = defaults]
           \/ new = [Idle EXCEPT !.at = "refused", !.server = q.server]
      BY <1>5, <2>0 DEF LoadDefaults, Becomes, ReadersInv
  <2>2. w.open /\ q.context = <<>>
      BY <1>1, <2>1, LetThrough
  <2>3. CASE new = [Idle EXCEPT !.at = "refused", !.server = q.server]
    <3>1. new \in Request /\ new.at = "refused" /\ new.context = <<>>
        BY <1>1, <2>3, IdleIsFine DEF Request
    <3> QED BY <1>1, <1>2, <2>2, <3>1, PlainStep
  <2>4. CASE new = [q EXCEPT !.at = "parents", !.reason = "default", !.docs = loaded,
                             !.candidates = defaults]
    <3>1. loaded \in [Keys -> Row \cup {NoRow}]
      <4> HIDE DEF ids
      <4> QED BY <2>0, ActiveAreRead
    <3>2. defaults \in SUBSET Candidates
      <4>1. \A k \in Active : k \in Keys /\ rows[k].extends \in Keys \cup {NoTemplate}
          BY DEF CatalogInv, TableInv, TypeOK, Active, Stored, Row
      <4> QED BY <2>0, <4>1 DEF Candidates
    <3>3. q \in Request
        BY <1>1
    <3>4. new \in Request
        BY <2>4, <3>1, <3>2, <3>3 DEF Request
    <3>5. new.at = "parents" /\ new.docs = loaded /\ new.context = q.context
        BY <2>4, <3>3 DEF Request
    <3> QED BY <1>3, <2>0, <2>2, <3>4, <3>5
  <2> QED BY <2>1, <2>3, <2>4
<1>6. CASE LoadParents(r)
  <2> DEFINE more == ActiveAmong(PendingParents(q.docs))
             all == [k \in Keys |-> IF more[k] # NoRow THEN more[k] ELSE q.docs[k]]
  <2>1. /\ q.at = "parents"
        /\ \/ new = [q EXCEPT !.at = "documents"]
           \/ new = [q EXCEPT !.docs = all]
      BY <1>6 DEF LoadParents, Becomes, ReadersInv
  <2>2. /\ q.docs \in [Keys -> Row \cup {NoRow}]
        /\ ParentsOfText(q.docs)
        /\ CoreExtendsNothing => OneCatalog(q.docs, w.actives)
      BY <1>1, <2>1 DEF RequestInv, DocsRead, Request
  <2>3. w.open /\ q.context = <<>>
      BY <1>1, <2>1, LetThrough
  <2>4. /\ all \in [Keys -> Row \cup {NoRow}]
        /\ ParentsOfText(all)
        /\ CoreExtendsNothing => OneCatalog(all, w.actives)
      BY <2>2, ParentsAreAdded
  <2> HIDE DEF all, more
  <2>5. /\ new \in Request /\ new.at \in {"parents", "documents"} /\ new.context = <<>>
        /\ new.docs \in {q.docs, all}
      BY <1>1, <2>1, <2>3, <2>4 DEF Request
  <2>6. Grown(w, v)
      BY <1>2, <2>5
  <2>7. ParentsOfText(new.docs) /\ (CoreExtendsNothing => OneCatalog(new.docs, v.actives))
      BY <2>2, <2>4, <2>5, <2>6 DEF Grown, OneCatalog
  <2> QED BY <2>3, <2>5, <2>6, <2>7 DEF RequestInv, StatusTold, DocsRead, ContextBuilt, Grown
<1> QED BY <1>4, <1>5, <1>6

LEMMA BuildKeeps ==
    ASSUME CatalogInv, ReadersInv, UNCHANGED vars, Witness, NEW r \in Readers, BuildContext(r),
           NEW q, q = request[r], NEW w, w = witnessed[r],
           NEW new, new = request'[r], NEW v, v = witnessed'[r]
    PROVE  RequestInv(new, v)
<1>1. RequestInv(q, w) /\ q \in Request /\ w \in Witnesses
    BY DEF ReadersInv, RequestInv
<1>2. new.at # "idle" => Grown(w, v)
  <2>1. TypeOK'
      BY DEF CatalogInv, TableInv, TypeOK, vars
  <2> QED BY <1>1, <2>1, WitnessGrows
<1> DEFINE ids == {c.key : c \in q.candidates}
<1>3. q.at = "documents"
    BY DEF BuildContext
<1>4. PICK ranked \in SetToSeqs(ids) :
        new = IF Context!Build(Sized(q.docs), ranked) # <<>>
              THEN [Idle EXCEPT !.at = "answered", !.server = q.server, !.reason = q.reason,
                                !.docs = q.docs, !.context = Context!Build(Sized(q.docs), ranked)]
              ELSE IF q.reason = "semantic"
              THEN [Idle EXCEPT !.at = "defaults", !.server = q.server]
              ELSE [Idle EXCEPT !.at = "refused", !.server = q.server]
    BY DEF BuildContext, Becomes, ReadersInv
<1>5. /\ w.open /\ q.context = <<>>
      /\ q.docs \in [Keys -> Row \cup {NoRow}]
      /\ ParentsOfText(q.docs)
      /\ CoreExtendsNothing => OneCatalog(q.docs, w.actives)
    BY <1>1, <1>3 DEF RequestInv, StatusTold, DocsRead, ContextBuilt, Request
<1> DEFINE context == Context!Build(Sized(q.docs), ranked)
<1>6. context \in Selection!Complete(Sized(q.docs))
  <2>1. ids \in SUBSET Keys
      BY <1>1 DEF Request, Candidates
  <2>2. ranked \in Seq(Keys)
    <3> HIDE DEF ids
    <3> QED BY <2>1, RankedAreKeys
  <2>3. Sized(q.docs) \in Selection!Documents
      BY <1>5, SizedAreDocuments
  <2> QED BY <2>2, <2>3, Selection!ContextIsComplete, SelectionIsContext
<1>7. context \in Seq(Keys)
    BY <1>6 DEF Selection!Complete
<1> HIDE DEF context, ids
<1>8. CASE new = [Idle EXCEPT !.at = "answered", !.server = q.server, !.reason = q.reason,
                              !.docs = q.docs, !.context = context]
  <2>1. /\ new \in Request /\ new.at = "answered" /\ new.docs = q.docs /\ new.context = context
      BY <1>1, <1>7, <1>8, IdleIsFine DEF Request
  <2>2. Grown(w, v)
      BY <1>2, <2>1
  <2>3. ParentsOfText(new.docs) /\ (CoreExtendsNothing => OneCatalog(new.docs, v.actives))
      BY <1>5, <2>1, <2>2 DEF Grown, OneCatalog
  <2> QED BY <1>5, <1>6, <2>1, <2>2, <2>3 DEF RequestInv, StatusTold, DocsRead, ContextBuilt, Grown
<1>9. CASE \/ new = [Idle EXCEPT !.at = "defaults", !.server = q.server]
           \/ new = [Idle EXCEPT !.at = "refused", !.server = q.server]
  <2>1. new \in Request /\ new.at \in {"defaults", "refused"} /\ new.context = <<>>
      BY <1>1, <1>9, IdleIsFine DEF Request
  <2> QED BY <1>1, <1>2, <1>5, <2>1, PlainStep
<1> QED BY <1>4, <1>8, <1>9 DEF context

LEMMA NextReaders == CatalogInv /\ CatalogInv' /\ ReadersInv /\ [RetrievalNext]_readingVars => ReadersInv'
<1> SUFFICES ASSUME CatalogInv, CatalogInv', ReadersInv, [RetrievalNext]_readingVars
             PROVE  ReadersInv'
    OBVIOUS
<1>1. CASE UNCHANGED readingVars
    BY <1>1 DEF readingVars, ReadersInv
\* A request that takes no step.
<1>2. ASSUME Witness, NEW r \in Readers, request'[r] = request[r]
      PROVE  RequestInv(request'[r], witnessed'[r])
  <2>1. RequestInv(request[r], witnessed[r]) /\ witnessed[r] \in Witnesses
      BY DEF ReadersInv, RequestInv
  <2>2. TypeOK'
      BY DEF CatalogInv, TableInv
  <2>3. CASE request[r].at = "idle"
    <3>1. witnessed'[r] \in Witnesses
        BY <1>2, <2>1, <2>2, <2>3, WitnessGrows
    <3> QED BY <1>2, <2>1, <2>3, <3>1 DEF RequestInv, StatusTold, DocsRead, ContextBuilt
  <2>4. CASE request[r].at # "idle"
    <3>1. Grown(witnessed[r], witnessed'[r])
        BY <1>2, <2>1, <2>2, <2>4, WitnessGrows
    <3> QED BY <1>2, <2>1, <3>1, GrownKeeps
  <2> QED BY <2>3, <2>4
<1>3. CASE UNCHANGED request /\ Witness
    BY <1>2, <1>3 DEF ReadersInv
<1>4. ASSUME UNCHANGED vars, Witness, NEW r \in Readers, ReadLatestRun(r) \/ Serve(r) \/ GiveUp(r)
      PROVE  ReadersInv'
  <2>1. RequestInv(request'[r], witnessed'[r])
      BY <1>4, ReadStatusKeeps, SearchKeeps, LoadKeeps, BuildKeeps DEF Serve
  <2>2. \E new : Becomes(r, new)
      BY <1>4 DEF Serve, ReadLatestRun, ReadActiveIds, CountChunks, FindVectorCandidates,
                  FindLexicalCandidates, LoadCandidateDocuments, LoadParents, BuildContext,
                  LoadDefaults, Leave, GiveUp
  <2>3. /\ request' = [x \in Readers |-> request'[x]]
        /\ \A x \in Readers \ {r} : request'[x] = request[x]
      BY <2>2 DEF Becomes, ReadersInv
  <2>4. \A x \in Readers : RequestInv(request'[x], witnessed'[x])
      BY <1>2, <1>4, <2>1, <2>3
  <2> QED BY <2>3, <2>4 DEF ReadersInv
<1> QED BY <1>1, <1>3, <1>4 DEF RetrievalNext

LEMMA ReadersAlways ==
    ASSUME \A p, q \in Syncers : p = q
    PROVE  RetrievalSpec => []ReadersInv
<1>1. RetrievalSpec => []CatalogInv
    BY CatalogAlways
<1>2. RetrievalInit => ReadersInv
  <2>1. Unwitnessed \in Witnesses
      BY DEF Unwitnessed, Witnesses
  <2> QED BY <2>1, IdleIsFine DEF RetrievalInit, ReadersInv
<1> QED BY <1>1, <1>2, NextReaders, PTL DEF RetrievalSpec

\* As long as syncs do not overlap, every request that searches has met an open
\* index, in spite of the statements that its status was put together from.
THEOREM StatusWasAlwaysTrue ==
    ASSUME \A p, q \in Syncers : p = q
    PROVE  RetrievalSpec => []StatusWasTrue
<1>1. RetrievalSpec => []ReadersInv
    BY ReadersAlways
<1>2. ReadersInv => StatusWasTrue
    BY DEF ReadersInv, RequestInv, StatusTold, StatusWasTrue
<1> QED BY <1>1, <1>2, PTL

\* As long as syncs do not overlap, and core templates extend nothing, every
\* context is of versions that were active together, each behind its parent.
THEOREM ContextWasAlwaysOneCatalog ==
    ASSUME \A p, q \in Syncers : p = q, CoreExtendsNothing
    PROVE  RetrievalSpec => []ContextWasOneCatalog
<1>1. RetrievalSpec => []ReadersInv
    BY ReadersAlways
<1>2. ReadersInv => ContextWasOneCatalog
  <2> SUFFICES ASSUME ReadersInv, NEW r \in Readers, request[r].context # <<>>
               PROVE  /\ \E active \in witnessed[r].actives :
                            ToSet(request[r].context) \subseteq active
                      /\ \A i \in DOMAIN request[r].context :
                            LET parent == ParentOf[request[r].docs[request[r].context[i]].content]
                            IN  parent # NoTemplate =>
                                    \E j \in 1..(i - 1) : request[r].context[j][1] = parent
      BY DEF ContextWasOneCatalog
  <2> DEFINE context == request[r].context
             docs == request[r].docs
  <2>1. /\ request[r].at = "answered"
        /\ docs \in [Keys -> Row \cup {NoRow}]
        /\ context \in Selection!Complete(Sized(docs))
        /\ ParentsOfText(docs) /\ OneCatalog(docs, witnessed[r].actives)
      BY DEF ReadersInv, RequestInv, DocsRead, ContextBuilt, Request
  <2> HIDE DEF context, docs
  <2>2. context \in Seq(Keys) /\ DOMAIN context = 1..Len(context)
      BY <2>1 DEF Selection!Complete
  <2>3. \A i \in 1..Len(context) :
            /\ context[i] \in Loaded(docs)
            /\ docs[context[i]].extends # NoTemplate =>
                    \E j \in 1..(i - 1) : context[j] = docs[context[i]].extends
    <3> TAKE i \in 1..Len(context)
    <3>1. context[i] \in Keys /\ Sized(docs)[context[i]] # NoRow
        BY <2>1, <2>2 DEF Selection!Complete
    <3>2. docs[context[i]] # NoRow /\ Sized(docs)[context[i]].extends = docs[context[i]].extends
        BY <2>1, <3>1, SizedAreDocuments
    <3> QED BY <2>1, <3>1, <3>2 DEF Selection!Complete, Loaded
  <2>4. \E active \in witnessed[r].actives : ToSet(context) \subseteq active
    <3>1. PICK A \in witnessed[r].actives : \A k \in Loaded(docs) : k \in A
        BY <2>1 DEF OneCatalog
    <3>2. ToSet(context) \subseteq A
        BY <2>2, <2>3, <3>1 DEF ToSet
    <3> QED BY <3>2
  <2>5. ASSUME NEW i \in 1..Len(context), ParentOf[docs[context[i]].content] # NoTemplate
        PROVE  \E j \in 1..(i - 1) : context[j][1] = ParentOf[docs[context[i]].content]
    <3>1. /\ docs[context[i]].extends \in Keys
          /\ docs[context[i]].extends[1] = ParentOf[docs[context[i]].content]
        BY <2>1, <2>3, <2>5 DEF ParentsOfText
    <3>2. docs[context[i]].extends # NoTemplate
        BY <3>1, NamesAssumption
    <3> QED BY <2>3, <3>1, <3>2
  <2> QED BY <2>2, <2>4, <2>5 DEF context, docs
<1> QED BY <1>1, <1>2, PTL

-----------------------------------------------------------------------------
(* Requests that no publication disturbs.                                  *)

\* Documents are as they are stored, and active.
AsStored(docs) ==
    \A k \in Loaded(docs) :
        k \in Active /\ docs[k].content = rows[k].content /\ docs[k].extends = rows[k].extends

\* Candidates are active and extend what they did when they were found.
Current(candidates) ==
    \A c \in candidates : c.key \in Active /\ c.extends = rows[c.key].extends

\* What a request knows that has seen one catalog only, which is still there.
Calm(q, w) ==
    /\ w.open => ActiveEntries = Snapshot(q.server)
    /\ q.at \in {"vectors", "ranked", "parents", "documents"} => Current(q.candidates)
    /\ (q.at = "vectors" /\ q.similar) \/ q.at \in {"ranked", "parents", "documents"} =>
        q.candidates # {}
    /\ q.at \in {"parents", "documents"} =>
        AsStored(q.docs) /\ \A c \in q.candidates : c.key \in Loaded(q.docs)
    /\ q.at = "documents" =>
        \A k \in Loaded(q.docs) : rows[k].extends \in Loaded(q.docs) \cup {NoTemplate}
    /\ q.at = "answered" => ToSet(q.context) \subseteq Active
    /\ q.at # "refused"

CalmOf(q, w) ==
    /\ q.at = "idle" => w = Unwitnessed
    /\ q.at # "idle" =>
        /\ q.server \in Checkouts /\ Active \in w.actives
        /\ w.actives = {Active} => Calm(q, w)

CalmInv == \A r \in Readers : CalmOf(request[r], witnessed[r])

\* The catalog that a step leaves alone: its active versions are still those.
SameCatalog ==
    /\ Active' = Active /\ ActiveEntries' = ActiveEntries
    /\ \A k \in Active : rows'[k].content = rows[k].content /\ rows'[k].extends = rows[k].extends

LEMMA SameActiveSameCatalog ==
    ASSUME CatalogInv, CatalogInv', [Next]_vars, Active' = Active
    PROVE  SameCatalog
<1>1. Active \subseteq Stored /\ Stored \subseteq Keys
    BY DEF Active, Stored
<1>2. \A k \in Active : rows'[k].content = rows[k].content
    BY <1>1, TextsAreKept DEF CatalogInv
<1>3. ActiveEntries' = ActiveEntries
    BY <1>2 DEF ActiveEntries, EntryOf
<1>4. ASSUME NEW k \in Active PROVE rows'[k].extends = rows[k].extends
  <2> DEFINE parent == ParentOf[rows[k].content]
  <2>1. IF parent = NoTemplate THEN rows[k].extends = NoTemplate
        ELSE rows[k].extends \in Active /\ rows[k].extends[1] = parent
      BY DEF CatalogInv, ActiveParentsAreActive
  <2>2. k \in Active' /\ ParentOf[rows'[k].content] = parent
      BY <1>2
  <2>3. \A j \in Active' :
            LET p == ParentOf[rows'[j].content]
            IN  IF p = NoTemplate THEN rows'[j].extends = NoTemplate
                ELSE rows'[j].extends \in Active' /\ rows'[j].extends[1] = p
      BY DEF CatalogInv, ActiveParentsAreActive
  <2>4. IF parent = NoTemplate THEN rows'[k].extends = NoTemplate
        ELSE rows'[k].extends \in Active /\ rows'[k].extends[1] = parent
      BY <2>2, <2>3
  <2>5. \A i, j \in Active : i[1] = j[1] => i = j
      BY DEF CatalogInv, OneSyncInv, OneActiveVersion
  <2> HIDE DEF parent
  <2> QED BY <2>1, <2>4, <2>5
<1> QED BY <1>2, <1>3, <1>4 DEF SameCatalog

LEMMA SameCatalogKeepsCalm ==
    ASSUME SameCatalog, NEW q, NEW w, Calm(q, w)
    PROVE  Calm(q, w)'
<1>1. Current(q.candidates) => Current(q.candidates)'
    BY DEF SameCatalog, Current
<1>2. AsStored(q.docs) => AsStored(q.docs)'
    BY DEF SameCatalog, AsStored
<1>3. (w.open => ActiveEntries' = Snapshot(q.server))
    BY DEF SameCatalog, Calm
<1>4. ASSUME q.at = "documents", NEW k \in Loaded(q.docs)
      PROVE  rows'[k].extends \in Loaded(q.docs) \cup {NoTemplate}
    BY <1>4 DEF Calm, AsStored, SameCatalog
<1> QED BY <1>1, <1>2, <1>3, <1>4 DEF Calm, SameCatalog, Snapshot

\* What is witnessed after a statement that made new out of q, and what was so
\* before it.
Witnessed(q, w, new, v) ==
    /\ Active \in v.actives
    /\ v.actives = {Active} =>
        /\ v.open => ActiveEntries = Snapshot(new.server)
        /\ q.at # "idle" => Calm(q, w)

\* A statement changes no table.
LEMMA StatementWitnessed ==
    ASSUME CatalogInv, UNCHANGED vars, Witness, NEW r \in Readers,
           NEW q, q = request[r], NEW w, w = witnessed[r], CalmOf(q, w),
           NEW new, new = request'[r], NEW v, v = witnessed'[r],
           new.at # "idle", new.server \in Checkouts, q.at = "idle" \/ new.server = q.server
    PROVE  Witnessed(q, w, new, v)
<1>1. Active' = Active /\ \A c \in Checkouts : Queryable(c)' = Queryable(c)
    BY DEF Queryable, ActiveTemplates, Active, Stored, vars
<1>2. v = [open |-> w.open \/ \E c \in Checkouts : c = new.server /\ Queryable(c)',
           actives |-> w.actives \cup {Active'}]
    BY DEF Witness
<1>3. v.actives = w.actives \cup {Active}
    BY <1>1, <1>2
<1>4. v.open => w.open \/ Queryable(new.server)
  <2> DEFINE opened == \E c \in Checkouts : c = new.server /\ Queryable(c)'
  <2>1. opened => Queryable(new.server)
      BY <1>1
  <2>2. v.open = (w.open \/ opened)
      BY <1>2
  <2> HIDE DEF opened
  <2> QED BY <2>1, <2>2
<1>5. Queryable(new.server) => ActiveEntries = Snapshot(new.server)
    BY DEF Queryable, CatalogInv, LatestIsActive
<1>6. CASE q.at = "idle"
  <2>1. w = Unwitnessed
      BY <1>6 DEF CalmOf
  <2>2. ~w.open
      BY <2>1 DEF Unwitnessed
  <2> QED BY <1>3, <1>4, <1>5, <1>6, <2>2 DEF Witnessed
<1>7. CASE q.at # "idle"
  <2>1. Active \in w.actives /\ (w.actives = {Active} => Calm(q, w)) /\ new.server = q.server
      BY <1>7 DEF CalmOf
  <2>2. v.actives = w.actives
      BY <1>3, <2>1
  <2>3. Calm(q, w) => (w.open => ActiveEntries = Snapshot(new.server))
      BY <2>1 DEF Calm
  <2> QED BY <1>4, <1>5, <2>1, <2>2, <2>3 DEF Witnessed
<1> QED BY <1>6, <1>7

\* A request that ends, or never began.
LEMMA IdleIsCalm ==
    ASSUME Witness, NEW r \in Readers, NEW new, new = request'[r], NEW v, v = witnessed'[r],
           new.at = "idle"
    PROVE  CalmOf(new, v)
BY DEF Witness, CalmOf

LEMMA StatusKeepsCalm ==
    ASSUME CatalogInv, ReadersInv, UNCHANGED vars, Witness, NEW r \in Readers,
           ReadLatestRun(r) \/ ReadActiveIds(r) \/ CountChunks(r) \/ Leave(r) \/ GiveUp(r),
           NEW q, q = request[r], NEW w, w = witnessed[r], CalmOf(q, w),
           NEW new, new = request'[r], NEW v, v = witnessed'[r]
    PROVE  CalmOf(new, v)
<1>1. q \in Request
    BY DEF ReadersInv, RequestInv
<1>2. CASE ReadLatestRun(r)
  <2>1. PICK c \in Checkouts :
            q.at = "idle" /\ new = [Idle EXCEPT !.at = "run", !.server = c, !.queryable = LatestRunFits(c)]
      BY <1>2 DEF ReadLatestRun, Becomes, ReadersInv
  <2>2. new.at = "run" /\ new.server = c
      BY <2>1 DEF Idle
  <2>3. Witnessed(q, w, new, v)
      BY <2>1, <2>2, StatementWitnessed
  <2> QED BY <2>2, <2>3 DEF Witnessed, CalmOf, Calm
<1>3. CASE ReadActiveIds(r)
  <2> DEFINE still == Active # {} /\ Defaults[q.server] \subseteq ActiveTemplates
  <2>1. /\ q.at = "run"
        /\ new = [q EXCEPT !.at = "ids", !.queryable = q.queryable /\ still]
      BY <1>3 DEF ReadActiveIds, Becomes, ReadersInv
  <2> HIDE DEF still
  <2>2. new.at = "ids" /\ new.server = q.server /\ q.server \in Checkouts
      BY <1>1, <2>1 DEF Request, CalmOf
  <2>3. Witnessed(q, w, new, v)
      BY <2>1, <2>2, StatementWitnessed
  <2> QED BY <2>2, <2>3 DEF Witnessed, CalmOf, Calm
<1>4. CASE CountChunks(r)
  <2>1. q.at = "ids" /\ (new = Idle \/ new = [q EXCEPT !.at = "ready"])
      BY <1>4 DEF CountChunks, Becomes, ReadersInv
  <2>2. CASE new = Idle
    <3>1. new.at = "idle"
        BY <2>2 DEF Idle
    <3> QED BY <3>1, IdleIsCalm
  <2>3. CASE new = [q EXCEPT !.at = "ready"]
    <3>1. new.at = "ready" /\ new.server = q.server /\ q.server \in Checkouts
        BY <1>1, <2>1, <2>3 DEF Request, CalmOf
    <3>2. Witnessed(q, w, new, v)
        BY <2>1, <3>1, StatementWitnessed
    <3> QED BY <3>1, <3>2 DEF Witnessed, CalmOf, Calm
  <2> QED BY <2>1, <2>2, <2>3
<1>5. CASE Leave(r) \/ GiveUp(r)
  <2>1. new = Idle
      BY <1>5 DEF Leave, GiveUp, Becomes, ReadersInv
  <2>2. new.at = "idle"
      BY <2>1 DEF Idle
  <2> QED BY <2>2, IdleIsCalm
<1> QED BY <1>2, <1>3, <1>4, <1>5

LEMMA SearchKeepsCalm ==
    ASSUME CatalogInv, ReadersInv, UNCHANGED vars, Witness, NEW r \in Readers,
           FindVectorCandidates(r) \/ FindLexicalCandidates(r),
           NEW q, q = request[r], NEW w, w = witnessed[r], CalmOf(q, w),
           NEW new, new = request'[r], NEW v, v = witnessed'[r]
    PROVE  CalmOf(new, v)
<1>1. q \in Request
    BY DEF ReadersInv, RequestInv
<1>2. \A hits \in Found : Current(hits)
    BY DEF Found, Current
<1>3. CASE FindVectorCandidates(r)
  <2>1. q.at = "ready"
      BY <1>3 DEF FindVectorCandidates
  <2>2. PICK hits \in Found, similar \in BOOLEAN :
            /\ similar => hits # {}
            /\ new = [q EXCEPT !.at = "vectors", !.candidates = hits, !.similar = similar]
      BY <1>3 DEF FindVectorCandidates, Becomes, ReadersInv
  <2>3. /\ new.at = "vectors" /\ new.server = q.server /\ q.server \in Checkouts
        /\ new.candidates = hits /\ new.similar = similar
      BY <1>1, <2>1, <2>2 DEF Request, CalmOf
  <2>4. Witnessed(q, w, new, v)
      BY <2>1, <2>3, StatementWitnessed
  <2> QED BY <1>2, <2>1, <2>2, <2>3, <2>4 DEF Witnessed, CalmOf, Calm
<1>4. CASE FindLexicalCandidates(r)
  <2>1. q.at = "vectors"
      BY <1>4 DEF FindLexicalCandidates
  <2>2. PICK hits \in Found :
            \/ /\ hits # {} \/ q.similar
               /\ new = [q EXCEPT !.at = "ranked", !.candidates = q.candidates \cup hits]
            \/ new = [q EXCEPT !.at = "defaults", !.candidates = {}]
      BY <1>4 DEF FindLexicalCandidates, Becomes, ReadersInv
  <2>3. new.server = q.server /\ q.server \in Checkouts /\ new.at \in {"ranked", "defaults"}
      BY <1>1, <2>1, <2>2 DEF Request, CalmOf
  <2>6. Witnessed(q, w, new, v)
      BY <2>1, <2>3, StatementWitnessed
  <2>4. CASE new.at = "defaults"
      BY <2>1, <2>3, <2>4, <2>6 DEF Witnessed, CalmOf, Calm
  <2>5. CASE new.at = "ranked"
    <3>1. (hits # {} \/ q.similar) /\ new.candidates = q.candidates \cup hits
        BY <1>1, <2>2, <2>5 DEF Request
    <3>2. Calm(q, w) => Current(new.candidates) /\ new.candidates # {}
        BY <1>2, <2>1, <3>1 DEF Calm, Current
    <3> QED BY <2>1, <2>3, <2>5, <2>6, <3>2 DEF Witnessed, CalmOf, Calm
  <2> QED BY <2>3, <2>4, <2>5
<1> QED BY <1>3, <1>4

\* Every active version that is asked for is read.
LEMMA ActiveAreFound ==
    ASSUME CatalogInv, NEW ids, NEW docs, docs = ActiveAmong(ids)
    PROVE  ids \cap Active \subseteq Loaded(docs) /\ AsStored(docs)
<1>1. \A k \in Active : k \in Keys /\ rows[k] # NoRow
    BY DEF Active, Stored
<1>2. ids \cap Active \subseteq Loaded(docs)
    BY <1>1 DEF ActiveAmong, Loaded
<1> QED BY <1>2, ActiveAreRead DEF AsStored

LEMMA CandidatesKeepCalm ==
    ASSUME CatalogInv, ReadersInv, UNCHANGED vars, Witness, NEW r \in Readers,
           LoadCandidateDocuments(r),
           NEW q, q = request[r], NEW w, w = witnessed[r], CalmOf(q, w),
           NEW new, new = request'[r], NEW v, v = witnessed'[r]
    PROVE  CalmOf(new, v)
<1> DEFINE ids == UNION {{c.key, c.extends} : c \in q.candidates}
<1>1. PICK loaded : loaded = ActiveAmong(ids)
    OBVIOUS
<1>2. q.at = "ranked" /\ new = [q EXCEPT !.at = "parents", !.docs = loaded] /\ q \in Request
    BY <1>1 DEF LoadCandidateDocuments, Becomes, ReadersInv, RequestInv
<1>3. /\ new.at = "parents" /\ new.server = q.server /\ q.server \in Checkouts
      /\ new.docs = loaded /\ new.candidates = q.candidates
    BY <1>2 DEF Request, CalmOf
<1>4. Witnessed(q, w, new, v)
    BY <1>2, <1>3, StatementWitnessed
<1>5. \A c \in q.candidates : c.key \in ids
    OBVIOUS
<1> HIDE DEF ids
<1>6. AsStored(loaded) /\ ids \cap Active \subseteq Loaded(loaded)
    BY <1>1, ActiveAreFound
<1>7. Current(q.candidates) => \A c \in q.candidates : c.key \in Loaded(loaded)
    BY <1>5, <1>6 DEF Current
<1> QED BY <1>2, <1>3, <1>4, <1>6, <1>7 DEF Witnessed, CalmOf, Calm

\* The defaults of the server are active where its catalog is.
LEMMA DefaultsKeepCalm ==
    ASSUME CatalogInv, ReadersInv, UNCHANGED vars, Witness, NEW r \in Readers, LoadDefaults(r),
           NEW q, q = request[r], NEW w, w = witnessed[r], CalmOf(q, w),
           NEW new, new = request'[r], NEW v, v = witnessed'[r]
    PROVE  CalmOf(new, v)
<1> DEFINE ids == {k \in Active : k[1] \in Defaults[q.server]}
<1>1. PICK loaded, defaults : /\ loaded = ActiveAmong(ids)
                             /\ defaults = {[key |-> k, extends |-> rows[k].extends] : k \in ids}
    OBVIOUS
<1>2. /\ q.at = "defaults" /\ q \in Request /\ w.open
      /\ IF Defaults[q.server] \subseteq ActiveTemplates
         THEN new = [q EXCEPT !.at = "parents", !.reason = "default", !.docs = loaded,
                              !.candidates = defaults]
         ELSE new = [Idle EXCEPT !.at = "refused", !.server = q.server]
    BY <1>1, LetThrough DEF LoadDefaults, Becomes, ReadersInv
<1>3. q.server \in Checkouts
    BY <1>2 DEF CalmOf
<1>4. ActiveEntries = Snapshot(q.server) =>
          Defaults[q.server] \subseteq ActiveTemplates /\ ids # {}
  <2> SUFFICES ASSUME ActiveEntries = Snapshot(q.server)
               PROVE  Defaults[q.server] \subseteq ActiveTemplates /\ ids # {}
      OBVIOUS
  <2>1. \A t \in Defaults[q.server] : \E k \in Active : k[1] = t
    <3> TAKE t \in Defaults[q.server]
    <3>1. <<t, Registry[q.server][t]>> \in ActiveEntries
        BY <1>3, RegistryAssumption DEF Snapshot
    <3> QED BY <3>1 DEF ActiveEntries
  <2>2. Defaults[q.server] # {}
      BY <1>3, RegistryAssumption
  <2> QED BY <2>1, <2>2 DEF ActiveTemplates
<1>5. Calm(q, w) => ActiveEntries = Snapshot(q.server)
    BY <1>2 DEF Calm
<1>6. CASE ~(Defaults[q.server] \subseteq ActiveTemplates)
  <2>1. new.at = "refused" /\ new.server = q.server
    <3>1. new = [Idle EXCEPT !.at = "refused", !.server = q.server]
        BY <1>2, <1>6
    <3> QED BY <3>1 DEF Idle
  <2>2. Witnessed(q, w, new, v)
      BY <1>2, <1>3, <2>1, StatementWitnessed
  <2> QED BY <1>2, <1>3, <1>4, <1>5, <1>6, <2>1, <2>2 DEF Witnessed, CalmOf
<1>7. CASE Defaults[q.server] \subseteq ActiveTemplates
  <2>1. /\ new.at = "parents" /\ new.server = q.server
        /\ new.docs = loaded /\ new.candidates = defaults
      BY <1>2, <1>7 DEF Request
  <2>2. Witnessed(q, w, new, v)
      BY <1>2, <1>3, <2>1, StatementWitnessed
  <2>3. Current(defaults) /\ (\A c \in defaults : c.key \in ids) /\ (ids # {} => defaults # {})
    <3>1. \A k \in ids : k \in Active
        OBVIOUS
    <3> HIDE DEF ids
    <3>2. \A c \in defaults : c.key \in ids /\ c.extends = rows[c.key].extends
        BY <1>1
    <3>3. ids # {} => defaults # {}
        BY <1>1
    <3> QED BY <3>1, <3>2, <3>3 DEF Current
  <2>4. ids \subseteq Active
      OBVIOUS
  <2> HIDE DEF ids
  <2>5. AsStored(loaded) /\ ids \cap Active \subseteq Loaded(loaded)
      BY <1>1, ActiveAreFound
  <2>6. \A c \in defaults : c.key \in Loaded(loaded)
      BY <2>3, <2>4, <2>5
  <2> QED BY <1>2, <1>3, <1>4, <1>5, <2>1, <2>2, <2>3, <2>5, <2>6 DEF Witnessed, CalmOf, Calm
<1> QED BY <1>6, <1>7

\* Where nothing is replaced, the loop finds every parent that it asks for.
LEMMA ParentsKeepCalm ==
    ASSUME CatalogInv, ReadersInv, UNCHANGED vars, Witness, NEW r \in Readers, LoadParents(r),
           NEW q, q = request[r], NEW w, w = witnessed[r], CalmOf(q, w),
           NEW new, new = request'[r], NEW v, v = witnessed'[r]
    PROVE  CalmOf(new, v)
<1>1. PICK more : more = ActiveAmong(PendingParents(q.docs))
    OBVIOUS
<1>2. PICK all : all = [k \in Keys |-> IF more[k] # NoRow THEN more[k] ELSE q.docs[k]]
    OBVIOUS
<1>3. /\ q.at = "parents" /\ q \in Request
      /\ IF ParentsSettled(q.docs, more) THEN new = [q EXCEPT !.at = "documents"]
         ELSE new = [q EXCEPT !.docs = all]
    BY <1>1, <1>2 DEF LoadParents, Becomes, ReadersInv, RequestInv
<1>4. /\ new.at \in {"parents", "documents"} /\ new.server = q.server /\ q.server \in Checkouts
      /\ new.candidates = q.candidates
      /\ new.docs = IF ParentsSettled(q.docs, more) THEN q.docs ELSE all
      /\ new.at = "documents" => ParentsSettled(q.docs, more)
    BY <1>3 DEF Request, CalmOf
<1>5. Witnessed(q, w, new, v)
    BY <1>3, <1>4, StatementWitnessed
<1>6. AsStored(more) /\ PendingParents(q.docs) \cap Active \subseteq Loaded(more)
    BY <1>1, ActiveAreFound
<1>7. ASSUME AsStored(q.docs)
      PROVE  /\ AsStored(all) /\ Loaded(q.docs) \subseteq Loaded(all)
             /\ ParentsSettled(q.docs, more) =>
                    \A k \in Loaded(q.docs) : rows[k].extends \in Loaded(q.docs) \cup {NoTemplate}
  <2>1. AsStored(all) /\ Loaded(q.docs) \subseteq Loaded(all)
    <3>1. \A k \in Loaded(all) : \/ k \in Loaded(more) /\ all[k] = more[k]
                                 \/ k \in Loaded(q.docs) /\ all[k] = q.docs[k]
        BY <1>2 DEF Loaded
    <3>2. Loaded(q.docs) \subseteq Loaded(all)
        BY <1>2 DEF Loaded
    <3> QED BY <1>6, <1>7, <3>1, <3>2 DEF AsStored
  <2>2. PendingParents(q.docs) \subseteq Active
    <3>1. \A k \in Active : rows[k].extends \in Active \cup {NoTemplate}
        BY DEF CatalogInv, ActiveParentsAreActive
    <3> QED BY <1>7, <3>1 DEF AsStored, PendingParents
  <2>3. ParentsSettled(q.docs, more) => PendingParents(q.docs) = {}
      BY <1>6, <2>2 DEF ParentsSettled
  <2>4. PendingParents(q.docs) = {} =>
            \A k \in Loaded(q.docs) : rows[k].extends \in Loaded(q.docs) \cup {NoTemplate}
      BY <1>7 DEF AsStored, PendingParents
  <2> QED BY <2>1, <2>3, <2>4
<1>8. Calm(q, w) => /\ AsStored(q.docs) /\ Current(q.candidates) /\ q.candidates # {}
                    /\ \A c \in q.candidates : c.key \in Loaded(q.docs)
    BY <1>3 DEF Calm
<1>9. Calm(q, w) => /\ AsStored(new.docs)
                    /\ \A c \in q.candidates : c.key \in Loaded(new.docs)
                    /\ new.at = "documents" =>
                        \A k \in Loaded(new.docs) : rows[k].extends \in Loaded(new.docs) \cup {NoTemplate}
    BY <1>4, <1>7, <1>8
<1> QED BY <1>3, <1>4, <1>5, <1>8, <1>9 DEF Witnessed, CalmOf, Calm

\* The first of the ranked candidates is a candidate.
LEMMA RankedBegin ==
    ASSUME NEW S \in SUBSET Keys, S # {}, NEW ranked \in SetToSeqs(S)
    PROVE  ranked # <<>> /\ ranked[1] \in S
<1>1. IsFiniteSet(S)
    BY ReaderAssumption, FS_Subset
<1>2. Cardinality(S) \in Nat /\ Cardinality(S) # 0
    BY <1>1, FS_CardinalityType, FS_EmptySet
<1>3. ranked \in [1..Cardinality(S) -> S]
    BY DEF SetToSeqs
<1>4. Len(ranked) = Cardinality(S) /\ ranked[1] \in S
    BY <1>2, <1>3
<1> QED BY <1>2, <1>4

\* Every text fits with the text that it extends.
ChainsFit ==
    \A c \in Checkouts : \A t \in TemplatesOf(c) :
        LET content == Registry[c][t].content
            parent == ParentOf[content]
        IN  SizeOf[content]
                + (IF parent = NoTemplate THEN 0 ELSE SizeOf[Registry[c][parent].content])
            <= Budget

\* A loaded version has a short chain, and one that fits.
LEMMA LoadedFit ==
    ASSUME CatalogInv, CoreExtendsNothing, ChainsFit,
           NEW server \in Checkouts, ActiveEntries = Snapshot(server),
           NEW docs \in [Keys -> Row \cup {NoRow}], AsStored(docs),
           \A k \in Loaded(docs) : rows[k].extends \in Loaded(docs) \cup {NoTemplate},
           NEW k \in Loaded(docs)
    PROVE  \E c : Selection!IsShort(Sized(docs), k, c) /\ Context!Tokens(Sized(docs), c) <= Budget
<1> DEFINE sized == Sized(docs)
           parent == ParentOf[rows[k].content]
           p == rows[k].extends
\* What Sized makes of a loaded version.
<1>1. ASSUME NEW j \in Loaded(docs)
      PROVE  /\ j \in Keys /\ j \in Active /\ sized[j] # NoRow
             /\ sized[j].extends = rows[j].extends
             /\ sized[j].core = (j[1] \in CoreTemplates)
             /\ sized[j].size = SizeOf[rows[j].content]
             /\ SizeOf[rows[j].content] \in Nat
             /\ j[1] \in TemplatesOf(server) /\ rows[j].content = Registry[server][j[1]].content
             /\ rows[j].content \in Contents
  <2>1. j \in Keys /\ docs[j] \in Row /\ j \in Active /\ docs[j] # NoRow
        /\ docs[j].content = rows[j].content /\ docs[j].extends = rows[j].extends
      BY DEF Loaded, AsStored
  <2>2. sized[j] = [extends |-> docs[j].extends, core |-> j[1] \in CoreTemplates,
                    size |-> SizeOf[docs[j].content]]
      BY <2>1 DEF Sized
  <2>3. NoRow # sized[j] /\ SizeOf[rows[j].content] \in Nat /\ rows[j].content \in Contents
    <3>1. docs[j].extends \in Keys \cup {NoTemplate} /\ docs[j].content \in Contents
        BY <2>1 DEF Row
    <3>2. SizeOf[docs[j].content] \in Nat
        BY <3>1, ReaderAssumption
    <3>3. (j[1] \in CoreTemplates) \in BOOLEAN
        OBVIOUS
    <3>4. sized[j] \in [extends: Keys \cup {NoTemplate}, core: BOOLEAN, size: Nat]
        BY <2>2, <3>1, <3>2, <3>3
    <3> QED BY <2>1, <3>1, <3>2, <3>4, ReaderAssumption
  <2>4. <<j[1], EntryOf(j)>> \in Snapshot(server)
      BY <2>1 DEF ActiveEntries
  <2>5. j[1] \in TemplatesOf(server) /\ EntryOf(j) = Registry[server][j[1]]
      BY <2>4 DEF Snapshot
  <2>6. rows[j].content = Registry[server][j[1]].content
      BY <2>5 DEF EntryOf
  <2> HIDE DEF sized
  <2> QED BY <2>1, <2>2, <2>3, <2>5, <2>6
<1>2. sized \in Selection!Documents
    BY SizedAreDocuments
<1>3. IF parent = NoTemplate THEN p = NoTemplate ELSE p \in Active /\ p[1] = parent
    BY <1>1 DEF CatalogInv, ActiveParentsAreActive
<1>4. SizeOf[rows[k].content]
          + (IF parent = NoTemplate THEN 0 ELSE SizeOf[Registry[server][parent].content]) <= Budget
    BY <1>1 DEF ChainsFit
<1> HIDE DEF sized
<1>5. CASE parent = NoTemplate
  <2>1. Selection!IsShort(sized, k, <<k>>) /\ sized[k].extends = NoTemplate
      BY <1>1, <1>3, <1>5 DEF Selection!IsShort
  <2>2. Context!Tokens(sized, <<k>>) = sized[k].size + 0
      BY <1>1, <1>2, <2>1, Selection!ShortTokens, SelectionIsContext
  <2>3. sized[k].size + 0 <= Budget
      BY <1>1, <1>4, <1>5
  <2> QED BY <2>1, <2>2, <2>3 DEF sized
<1>6. CASE parent # NoTemplate
  <2>1. p \in Keys /\ p # NoTemplate /\ p \in Loaded(docs) /\ p[1] = parent
      BY <1>1, <1>3, <1>6, NamesAssumption DEF Active, Stored
  <2>2. rows[p].extends = NoTemplate /\ p[1] \in CoreTemplates
    <3>1. p \in Active /\ rows[k].content \in Contents
        BY <1>1, <2>1
    <3>2. p[1] \in CoreTemplates
        BY <1>6, <2>1, <3>1, ReaderAssumption
    <3> QED BY <1>6, <2>1, <3>1, <3>2, ParentsExtendNothing
  <2>3. Selection!IsShort(sized, k, <<p, k>>) /\ sized[k].extends = p
      BY <1>1, <2>1, <2>2 DEF Selection!IsShort
  <2>4. Context!Tokens(sized, <<p, k>>) = sized[k].size + sized[p].size
      BY <1>1, <1>2, <2>1, <2>3, Selection!ShortTokens, SelectionIsContext
  <2>5. sized[k].size + sized[p].size <= Budget
      BY <1>1, <1>4, <1>6, <2>1
  <2> QED BY <2>3, <2>4, <2>5 DEF sized
<1> QED BY <1>5, <1>6

\* Where nothing is replaced there is a context, of active versions.
LEMMA BuildKeepsCalm ==
    ASSUME CoreExtendsNothing, ChainsFit,
           CatalogInv, ReadersInv, UNCHANGED vars, Witness, NEW r \in Readers, BuildContext(r),
           NEW q, q = request[r], NEW w, w = witnessed[r], CalmOf(q, w),
           NEW new, new = request'[r], NEW v, v = witnessed'[r]
    PROVE  CalmOf(new, v)
<1> DEFINE ids == {c.key : c \in q.candidates}
<1>1. q.at = "documents" /\ w.open /\ q \in Request
    BY LetThrough DEF BuildContext, ReadersInv
<1>2. PICK ranked \in SetToSeqs(ids) :
        new = IF Context!Build(Sized(q.docs), ranked) # <<>>
              THEN [Idle EXCEPT !.at = "answered", !.server = q.server, !.reason = q.reason,
                                !.docs = q.docs, !.context = Context!Build(Sized(q.docs), ranked)]
              ELSE IF q.reason = "semantic"
              THEN [Idle EXCEPT !.at = "defaults", !.server = q.server]
              ELSE [Idle EXCEPT !.at = "refused", !.server = q.server]
    BY DEF BuildContext, Becomes, ReadersInv
<1>3. PICK context : context = Context!Build(Sized(q.docs), ranked)
    OBVIOUS
<1>4. /\ new.at # "idle" /\ new.server = q.server /\ q.server \in Checkouts
      /\ context # <<>> => new.at = "answered" /\ new.context = context
  <2>1. q.server \in Checkouts
      BY <1>1 DEF CalmOf
  <2>2. CASE context # <<>>
    <3>1. new = [Idle EXCEPT !.at = "answered", !.server = q.server, !.reason = q.reason,
                             !.docs = q.docs, !.context = context]
        BY <1>2, <1>3, <2>2
    <3> QED BY <2>1, <3>1 DEF Idle
  <2>3. CASE context = <<>>
    <3>1. \/ new = [Idle EXCEPT !.at = "defaults", !.server = q.server]
          \/ new = [Idle EXCEPT !.at = "refused", !.server = q.server]
        BY <1>2, <1>3, <2>3
    <3> QED BY <2>1, <2>3, <3>1 DEF Idle
  <2> QED BY <2>2, <2>3
<1>5. Witnessed(q, w, new, v)
    BY <1>1, <1>4, StatementWitnessed
<1>6. ASSUME Calm(q, w) PROVE context # <<>> /\ ToSet(context) \subseteq Active
  <2>1. /\ ActiveEntries = Snapshot(q.server) /\ q.candidates # {} /\ AsStored(q.docs)
        /\ \A c \in q.candidates : c.key \in Loaded(q.docs)
        /\ \A k \in Loaded(q.docs) : rows[k].extends \in Loaded(q.docs) \cup {NoTemplate}
      BY <1>1, <1>6 DEF Calm
  <2>2. ids \subseteq Loaded(q.docs) /\ ids # {} /\ Loaded(q.docs) \subseteq Keys
      BY <2>1 DEF Loaded
  <2> HIDE DEF ids
  <2>3. ranked # <<>> /\ ranked[1] \in ids /\ ranked \in Seq(Keys)
      BY <2>2, RankedBegin, RankedAreKeys
  <2>4. q.docs \in [Keys -> Row \cup {NoRow}]
      BY <1>1 DEF Request
  <2>5. Sized(q.docs) \in Selection!Documents
      BY <2>4, SizedAreDocuments
  <2>6. PICK c : Selection!IsShort(Sized(q.docs), ranked[1], c) /\ Context!Tokens(Sized(q.docs), c) <= Budget
      BY <1>4, <2>1, <2>2, <2>3, <2>4, LoadedFit
  <2>7. context # <<>>
      BY <1>3, <2>3, <2>5, <2>6, Selection!FittingIsSelected, SelectionIsContext
  <2>8. context \in Selection!Complete(Sized(q.docs))
      BY <1>3, <2>3, <2>5, Selection!ContextIsComplete, SelectionIsContext
  <2>9. \A i \in DOMAIN context : context[i] \in Keys /\ Sized(q.docs)[context[i]] # NoRow
      BY <2>8 DEF Selection!Complete
  <2>10. \A i \in DOMAIN context : context[i] \in Active
      BY <2>1, <2>4, <2>9, SizedAreDocuments DEF Loaded, AsStored
  <2> QED BY <2>7, <2>10 DEF ToSet
<1> QED BY <1>1, <1>4, <1>5, <1>6 DEF Witnessed, CalmOf, Calm

\* A step of the sync, or of another request.
LEMMA OtherStepsKeepCalm ==
    ASSUME CatalogInv, CatalogInv', [Next]_vars, Witness, NEW r \in Readers,
           NEW q, q = request[r], NEW w, w = witnessed[r], CalmOf(q, w),
           request'[r] = q, NEW v, v = witnessed'[r]
    PROVE  CalmOf(q, v)'
<1>1. CASE q.at = "idle"
  <2>1. v = Unwitnessed
      BY <1>1 DEF Witness
  <2> QED BY <1>1, <2>1 DEF CalmOf, Unwitnessed
<1>2. CASE q.at # "idle"
  <2>1. /\ q.server \in Checkouts /\ Active \in w.actives
        /\ w.actives = {Active} => Calm(q, w)
      BY <1>2 DEF CalmOf
  <2> DEFINE opened == \E c \in Checkouts : c = q.server /\ Queryable(c)'
  <2>2. v = [open |-> w.open \/ opened, actives |-> w.actives \cup {Active'}]
      BY <1>2 DEF Witness
  <2>3. opened => ActiveEntries' = Snapshot(q.server)
      BY DEF Queryable, CatalogInv, LatestIsActive, Snapshot
  <2> HIDE DEF opened
  <2>4. Active' \in v.actives /\ v.open = (w.open \/ opened) /\ v.actives = w.actives \cup {Active'}
      BY <2>2
  <2>5. ASSUME v.actives = {Active'} PROVE Calm(q, v)'
    <3>1. Active' = Active /\ w.actives = {Active}
        BY <2>1, <2>4, <2>5
    <3>2. SameCatalog
        BY <3>1, SameActiveSameCatalog
    <3>3. Calm(q, w)'
        BY <2>1, <3>1, <3>2, SameCatalogKeepsCalm
    <3>4. v.open => ActiveEntries' = Snapshot(q.server)
        BY <2>3, <2>4, <3>3 DEF Calm, Snapshot
    <3> QED BY <3>3, <3>4 DEF Calm, Snapshot
  <2> QED BY <1>2, <2>1, <2>4, <2>5 DEF CalmOf
<1> QED BY <1>1, <1>2

\* A statement leaves the catalog to which a request is compared.
LEMMA StatementKeepsCalm ==
    ASSUME UNCHANGED vars, NEW q, NEW w, CalmOf(q, w)
    PROVE  CalmOf(q, w)'
<1>1. SameCatalog
    BY DEF SameCatalog, ActiveEntries, EntryOf, Active, Stored, vars
<1>2. Calm(q, w) => Calm(q, w)'
    BY <1>1, SameCatalogKeepsCalm
<1> QED BY <1>1, <1>2 DEF CalmOf, SameCatalog

\* What holds of what a request has become holds of the request.
LEMMA CalmAfter ==
    ASSUME NEW r \in Readers, NEW new, new = request'[r], NEW v, v = witnessed'[r], CalmOf(new, v)'
    PROVE  CalmOf(request[r], witnessed[r])'
BY DEF CalmOf, Calm, Current, AsStored, Loaded

LEMMA NextCalm ==
    ASSUME CoreExtendsNothing, ChainsFit
    PROVE  CatalogInv /\ CatalogInv' /\ ReadersInv /\ CalmInv /\ [RetrievalNext]_readingVars
                => CalmInv'
<1> SUFFICES ASSUME CatalogInv, CatalogInv', ReadersInv, CalmInv, [RetrievalNext]_readingVars,
                    NEW r \in Readers
             PROVE  CalmOf(request[r], witnessed[r])'
    BY DEF CalmInv
<1>1. PICK q, w, new, v :
        q = request[r] /\ w = witnessed[r] /\ new = request'[r] /\ v = witnessed'[r]
    OBVIOUS
<1>2. CalmOf(q, w)
    BY <1>1 DEF CalmInv
<1>3. CASE UNCHANGED readingVars
  <2>1. CalmOf(q, w)'
      BY <1>2, <1>3, StatementKeepsCalm DEF readingVars
  <2>2. new = q /\ v = w
      BY <1>1, <1>3 DEF readingVars
  <2> QED BY <1>1, <2>1, <2>2, CalmAfter
<1>4. ASSUME Witness, new = q PROVE CalmOf(request[r], witnessed[r])'
  <2>1. CalmOf(q, v)'
      BY <1>1, <1>2, <1>4, RetrievalIsSync, OtherStepsKeepCalm
  <2> QED BY <1>1, <1>4, <2>1, CalmAfter
<1>5. ASSUME UNCHANGED vars, Witness, ReadLatestRun(r) \/ Serve(r) \/ GiveUp(r)
      PROVE  CalmOf(request[r], witnessed[r])'
  <2>1. CalmOf(new, v)
      BY <1>1, <1>2, <1>5, StatusKeepsCalm, SearchKeepsCalm, CandidatesKeepCalm,
         DefaultsKeepCalm, ParentsKeepCalm, BuildKeepsCalm DEF Serve
  <2>2. CalmOf(new, v)'
      BY <1>5, <2>1, StatementKeepsCalm
  <2> QED BY <1>1, <2>2, CalmAfter
<1>6. ASSUME NEW x \in Readers \ {r}, ReadLatestRun(x) \/ Serve(x) \/ GiveUp(x)
      PROVE  new = q
  <2>1. \E some : Becomes(x, some)
      BY <1>6 DEF Serve, ReadLatestRun, ReadActiveIds, CountChunks, FindVectorCandidates,
                  FindLexicalCandidates, LoadCandidateDocuments, LoadParents, BuildContext,
                  LoadDefaults, Leave, GiveUp
  <2> QED BY <1>1, <2>1 DEF Becomes, ReadersInv
<1>7. CASE RetrievalNext
    BY <1>1, <1>4, <1>5, <1>6, <1>7 DEF RetrievalNext
<1> QED BY <1>3, <1>7

\* As long as syncs do not overlap, a request during which nothing is published
\* gets a context, of its server's own sources: if core templates extend
\* nothing and every text fits with its parent's.
THEOREM UndisturbedIsAlwaysAnswered ==
    ASSUME \A p, q \in Syncers : p = q, CoreExtendsNothing, ChainsFit
    PROVE  RetrievalSpec => []UndisturbedIsAnswered
<1>1. RetrievalSpec => []CatalogInv /\ []ReadersInv
    BY CatalogAlways, ReadersAlways
<1>2. RetrievalInit => CalmInv
    BY DEF RetrievalInit, CalmInv, CalmOf, Idle
<1>3. CatalogInv /\ ReadersInv /\ CalmInv => UndisturbedIsAnswered
  <2> SUFFICES ASSUME CatalogInv, ReadersInv, CalmInv, NEW r \in Readers,
                      request[r].at \in {"answered", "refused"},
                      Cardinality(witnessed[r].actives) = 1
               PROVE  /\ request[r].at = "answered"
                      /\ \A k \in ToSet(request[r].context) :
                            Registry[request[r].server][k[1]]
                                = [version |-> k[2], content |-> rows[k].content]
      BY DEF UndisturbedIsAnswered
  <2> DEFINE q == request[r]
             w == witnessed[r]
  <2>1. /\ q.server \in Checkouts /\ Active \in w.actives
        /\ w.actives = {Active} => Calm(q, w)
      BY DEF CalmInv, CalmOf
  <2>2. w.actives = {Active}
    <3>1. w.actives \in SUBSET SUBSET Keys
        BY DEF ReadersInv, RequestInv, Witnesses
    <3>2. IsFiniteSet(SUBSET Keys)
        BY ReaderAssumption, FS_SUBSET
    <3>3. IsFiniteSet(w.actives)
        BY <3>1, <3>2, FS_Subset
    <3>4. \E A : w.actives = {A}
        BY <3>3, FS_Singleton
    <3> QED BY <2>1, <3>4
  <2>3. w.open
      BY LetThrough DEF ReadersInv
  <2>4. ActiveEntries = Snapshot(q.server) /\ q.at = "answered" /\ ToSet(q.context) \subseteq Active
      BY <2>1, <2>2, <2>3 DEF Calm
  <2>5. ASSUME NEW k \in Active
        PROVE  Registry[q.server][k[1]] = [version |-> k[2], content |-> rows[k].content]
    <3>1. <<k[1], EntryOf(k)>> \in Snapshot(q.server)
        BY <2>4 DEF ActiveEntries
    <3> QED BY <3>1 DEF Snapshot, EntryOf
  <2> QED BY <2>4, <2>5
<1> QED BY <1>1, <1>2, <1>3, NextCalm, PTL DEF RetrievalSpec
================================================================================
