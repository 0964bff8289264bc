--------------------------- MODULE KnowledgeProofs ---------------------------
(***************************************************************************)
(* Proofs about the knowledge sync, for any catalogs, sources, versions    *)
(* and contents; for any number of syncers unless a theorem says one.      *)
(* First what the tables hold; then that the sync implements               *)
(* DocumentLifecycle: each of its steps is a snapshot, a confirmation or   *)
(* nothing to the phases of the sources, where the mapping reads the row   *)
(* of a source under whichever key it has, so that the proof rests on      *)
(* OneRowPerIdentity and on identities being migrated before presence is   *)
(* counted.  Last the course of a run: what its end tells of the index,    *)
(* and what must have happened before an absence is counted.               *)
(***************************************************************************)
EXTENDS SyncFreshness, TLAPS

USE DEF Keys, Tags

-----------------------------------------------------------------------------
(* Type correctness.  It is inductive with what a stage says of the task.  *)

TaskOK ==
    \A p \in Syncers :
        /\ stage[p] = "identified" => task[p].on \in Catalogs
        /\ stage[p] \in {"fetching", "storing"} => task[p].on \in Sources
        /\ stage[p] = "storing" => task[p].got \in Answer

TypeInv == TypeOK /\ TaskOK

\* KeyOf picks a key under which the source is stored.
LEMMA KeyOfStored ==
    ASSUME NEW found
    PROVE  \A s \in ToRename(found) :
              KeyOf(s) \in Keys /\ HasRow(KeyOf(s)) /\ docs[KeyOf(s)].url = s
BY DEF ToRename, StoredAs, KeyOf

\* Renaming keeps the type of a table.
LEMMA RenamedTyped ==
    ASSUME NEW found, NEW T, NEW table \in [Keys -> T], NEW blank \in T
    PROVE  Renamed(table, found, blank) \in [Keys -> T]
BY KeyOfStored DEF Renamed

LEMMA InitTypeInv == Init => TypeInv
<1> SUFFICES ASSUME Init PROVE TypeInv
    OBVIOUS
<1> USE DEF Init
<1>1. docs \in [Keys -> Row \cup {NoRow}]
    BY ContentAssumption DEF IndexInit, LegacyRows, Row
<1>2. chunks \in [Keys -> SUBSET (Bodies \X Nat)]
  <2>1. \A b \in Bodies : ChunksOf(b) \subseteq Bodies \X Nat
      BY ContentAssumption DEF ChunksOf
  <2> QED BY <1>1, <2>1 DEF IndexInit, Row
<1>3. lastRun \in [owner: Syncers \cup {Nobody},
                   status: {"none", "running", "succeeded", "partial", "failed"}]
    BY DEF IndexInit
<1>4. NoRun \in Run
    BY DEF NoRun, Run
<1>5. NoTask \in Task
    BY DEF NoTask, Task
<1> QED BY <1>1, <1>2, <1>3, <1>4, <1>5 DEF TypeInv, TypeOK, TaskOK, IndexTypeOK, Stages

\* The operations on a row yield a row.
LEMMA ObservedIsRow == ASSUME NEW row \in Row PROVE Observed(row) \in Row
BY DEF Observed, Row

LEMMA UnobservedIsRow == ASSUME NEW row \in Row PROVE Unobserved(row) \in Row
<1> DEFINE twice == [row EXCEPT !.missing = 2]
<1>1. [row EXCEPT !.missing = 1] \in Row
    BY DEF Row
<1>2. twice \in Row
    BY DEF Row
<1>3. [row EXCEPT !.missing = 2, !.status = "disabled"] = [twice EXCEPT !.status = "disabled"]
    OBVIOUS
<1> HIDE DEF twice
<1>4. [row EXCEPT !.missing = 2, !.status = "disabled"] \in Row
    BY <1>2, <1>3 DEF Row
<1> QED BY <1>1, <1>4 DEF Unobserved

LEMMA CheckedIsRow == ASSUME NEW row \in Row, NEW e \in Tags PROVE Checked(row, e) \in Row
<1> DEFINE tag == IF e = NoTag THEN row.etag ELSE e
           active == [row EXCEPT !.status = "active"]
           present == [active EXCEPT !.missing = 0]
<1>1. tag \in Tags
    BY DEF Row
<1>2. active \in Row
    BY DEF Row
<1>3. Checked(row, e) = [present EXCEPT !.etag = tag]
    BY DEF Checked
<1> HIDE DEF active
<1>4. present \in Row
    BY <1>2 DEF Row
<1> HIDE DEF present, tag
<1> QED BY <1>1, <1>3, <1>4 DEF Row

\* The operations on the tables keep their types.
LEMMA IndexOperationsTyped ==
    ASSUME IndexTypeOK
    PROVE  /\ \A p \in Syncers : StartRun(p) /\ UNCHANGED <<docs, chunks>> => IndexTypeOK'
           /\ \A p \in Syncers : \A failed, done :
                 FinishRun(p, RunStatus(failed, done)) /\ UNCHANGED <<docs, chunks>>
                     => IndexTypeOK'
           /\ \A p \in Syncers : AbandonRun(p) /\ UNCHANGED <<docs, chunks>> => IndexTypeOK'
           /\ \A found \in SUBSET Sources : ReconcileSourceIdentities(found) => IndexTypeOK'
           /\ \A c \in Catalogs : \A keys : ReconcileCatalogPresence(c, keys) => IndexTypeOK'
           /\ \A s \in Sources, b \in Bodies, e \in Tags : PublishDocument(s, b, e) => IndexTypeOK'
           /\ \A s \in Sources, e \in Tags : MarkDocumentChecked(s, e) => IndexTypeOK'
<1> USE DEF IndexTypeOK
<1>1. ASSUME NEW p \in Syncers, StartRun(p), UNCHANGED <<docs, chunks>>
      PROVE  IndexTypeOK'
    BY <1>1 DEF StartRun
<1>2. ASSUME NEW p \in Syncers, NEW failed, NEW done,
             FinishRun(p, RunStatus(failed, done)), UNCHANGED <<docs, chunks>>
      PROVE  IndexTypeOK'
    BY <1>2 DEF FinishRun, RunStatus
<1>3. ASSUME NEW p \in Syncers, AbandonRun(p), UNCHANGED <<docs, chunks>>
      PROVE  IndexTypeOK'
    BY <1>3 DEF AbandonRun
<1>4. ASSUME NEW found \in SUBSET Sources, ReconcileSourceIdentities(found)
      PROVE  IndexTypeOK'
  <2>1. Renamed(docs, found, NoRow) \in [Keys -> Row \cup {NoRow}]
      BY RenamedTyped
  <2>2. Renamed(chunks, found, {}) \in [Keys -> SUBSET (Bodies \X Nat)]
      BY RenamedTyped
  <2> QED BY <1>4, <2>1, <2>2 DEF ReconcileSourceIdentities
<1>5. ASSUME NEW c \in Catalogs, NEW keys, ReconcileCatalogPresence(c, keys)
      PROVE  IndexTypeOK'
  <2>1. \A row \in Row : Observed(row) \in Row /\ Unobserved(row) \in Row
      BY ObservedIsRow, UnobservedIsRow
  <2>2. \A k \in RowsOf(c) : docs[k] \in Row
      BY DEF RowsOf, HasRow
  <2> QED BY <1>5, <2>1, <2>2 DEF ReconcileCatalogPresence
<1>6. ASSUME NEW s \in Sources, NEW b \in Bodies, NEW e \in Tags, PublishDocument(s, b, e)
      PROVE  IndexTypeOK'
  <2>1. ChunksOf(b) \in SUBSET (Bodies \X Nat)
      BY ContentAssumption DEF ChunksOf
  <2>2. [url |-> s, body |-> b, etag |-> e, status |-> "active", missing |-> 0] \in Row
      BY DEF Row
  <2> QED BY <1>6, <2>1, <2>2 DEF PublishDocument
<1>7. ASSUME NEW s \in Sources, NEW e \in Tags, MarkDocumentChecked(s, e)
      PROVE  IndexTypeOK'
  <2>1. \A row \in Row : Checked(row, e) \in Row
      BY CheckedIsRow
  <2>2. HasRow(s) => docs[s] \in Row
      BY DEF HasRow
  <2> QED BY <1>7, <2>1, <2>2 DEF MarkDocumentChecked
<1> QED BY <1>1, <1>2, <1>3, <1>4, <1>5, <1>6, <1>7

LEMMA NextTypeInv == TypeInv /\ [Next]_vars => TypeInv'
<1> SUFFICES ASSUME TypeInv, [Next]_vars PROVE TypeInv'
    OBVIOUS
<1> USE DEF TypeInv, TypeOK, TaskOK
<1> NoTask \in Task /\ NoRun \in Run
    BY DEF NoTask, Task, NoRun, Run
<1>1. ASSUME NEW p \in Syncers, Start(p) PROVE TypeInv'
  <2>1. \A force \in BOOLEAN : [NoRun EXCEPT !.force = force, !.toDiscover = Catalogs] \in Run
      BY DEF Run
  <2> QED BY <1>1, <2>1, IndexOperationsTyped DEF Start, Stages, world
<1>2. ASSUME NEW p \in Syncers, NEW c \in Catalogs, DiscoverCatalog(p, c) PROVE TypeInv'
  <2>1. run' \in [Syncers -> Run]
    <3> DEFINE sources == {t \in listed : CatalogOf[t] = c}
               entry == [l \in Links |-> IF l \in sources THEN site[l] ELSE run[p].entry[l]]
    <3>1. entry \in [Links -> Tags]
        BY LinksAssumption DEF Run
    <3>2. sources \subseteq Sources
        OBVIOUS
    <3> HIDE DEF sources, entry
    <3>3. run' = [run EXCEPT ![p].toDiscover = @ \ {c}, ![p].toReconcile = @ \cup {c},
                             ![p].found = @ \cup sources, ![p].entry = entry]
        BY <1>2 DEF DiscoverCatalog, sources, entry
    <3>4. \A r \in Run : [r EXCEPT !.toDiscover = @ \ {c}] \in Run
        BY DEF Run
    <3>5. \A r \in Run : [r EXCEPT !.toReconcile = @ \cup {c}] \in Run
        BY DEF Run
    <3>6. \A r \in Run : [r EXCEPT !.found = @ \cup sources] \in Run
        BY <3>2 DEF Run
    <3>7. \A r \in Run : [r EXCEPT !.entry = entry] \in Run
        BY <3>1 DEF Run
    <3> DEFINE r1 == [run[p] EXCEPT !.toDiscover = @ \ {c}]
               r2 == [r1 EXCEPT !.toReconcile = @ \cup {c}]
               r3 == [r2 EXCEPT !.found = @ \cup sources]
               r4 == [r3 EXCEPT !.entry = entry]
    <3>8. run' = [run EXCEPT ![p] = r4]
        BY <3>3 DEF Run
    <3>9. r1 \in Run
        BY <3>4
    <3> HIDE DEF r1
    <3>10. r2 \in Run
        BY <3>9, <3>5
    <3> HIDE DEF r2
    <3>11. r3 \in Run
        BY <3>10, <3>6
    <3> HIDE DEF r3
    <3>12. r4 \in Run
        BY <3>11, <3>7
    <3> QED BY <3>8, <3>12
  <2> QED BY <1>2, <2>1 DEF DiscoverCatalog, index, world, IndexTypeOK
<1>3. ASSUME NEW p \in Syncers, NEW c \in Catalogs, DiscoverCatalogFails(p, c) PROVE TypeInv'
  <2>1. run' \in [Syncers -> Run]
      BY <1>3 DEF DiscoverCatalogFails, Run
  <2> QED BY <1>3, <2>1 DEF DiscoverCatalogFails, index, world, IndexTypeOK
<1>4. ASSUME NEW p \in Syncers, NEW c \in Catalogs, ReconcileIdentities(p, c) PROVE TypeInv'
  <2>1. IndexTypeOK'
      BY <1>4, IndexOperationsTyped DEF ReconcileIdentities, FoundIn, Run
  <2>2. task' \in [Syncers -> Task]
      BY <1>4 DEF ReconcileIdentities, Task
  <2> QED BY <1>4, <2>1, <2>2 DEF ReconcileIdentities, world, Stages, Task
<1>5. ASSUME NEW p \in Syncers, ReconcilePresence(p) PROVE TypeInv'
  <2>1. IndexTypeOK'
      BY <1>5, IndexOperationsTyped DEF ReconcilePresence
  <2>2. run' \in [Syncers -> Run]
      BY <1>5 DEF ReconcilePresence, FoundIn, Run
  <2> QED BY <1>5, <2>1, <2>2 DEF ReconcilePresence, world, Stages
<1>6. ASSUME NEW p \in Syncers, NEW c \in Catalogs, ReconcileFails(p, c) PROVE TypeInv'
  <2>1. run' \in [Syncers -> Run]
      BY <1>6 DEF ReconcileFails, Run
  <2> QED BY <1>6, <2>1 DEF ReconcileFails, index, world, Stages, IndexTypeOK
<1>7. ASSUME NEW p \in Syncers, NEW s \in Sources, ReadState(p, s) PROVE TypeInv'
  <2>1. run' \in [Syncers -> Run]
      BY <1>7 DEF ReadState, Run
  <2>2. docs[s] \in Row \cup {NoRow}
      BY DEF IndexTypeOK
  <2>3. \A v \in Versions : [modified |-> TRUE, body |-> BodyOf[v], etag |-> NoTag] \in Answer
      BY ContentAssumption DEF Answer
  <2>4. task' \in [Syncers -> Task]
      BY <1>7, <2>2, <2>3 DEF ReadState, Task
  <2>5. TaskOK'
      BY <1>7, <2>3 DEF ReadState
  <2> QED BY <1>7, <2>1, <2>4, <2>5 DEF ReadState, index, world, Stages, IndexTypeOK
<1>8. ASSUME NEW p \in Syncers, FetchNotModified(p) \/ FetchPage(p) PROVE TypeInv'
  <2>1. PICK got \in Answer : task' = [task EXCEPT ![p].got = got]
    <3>1. CASE FetchNotModified(p)
      <4>1. Condition(p) \in Tags
          BY <3>1 DEF FetchNotModified, Condition, Task, Row
      <4> QED BY <3>1, <4>1 DEF FetchNotModified, Answer
    <3>2. CASE FetchPage(p)
      <4>1. site[task[p].on] \in Versions
          BY <3>2 DEF FetchPage
      <4> QED BY <3>2, <4>1, ContentAssumption DEF FetchPage, Answer
    <3> QED BY <1>8, <3>1, <3>2
  <2>2. /\ stage[p] = "fetching"
        /\ stage' = [stage EXCEPT ![p] = "storing"]
        /\ UNCHANGED <<index, world, run>>
      BY <1>8 DEF FetchNotModified, FetchPage
  <2>3. task' \in [Syncers -> Task]
      BY <2>1 DEF Task
  <2>4. TaskOK'
      BY <2>1, <2>2 DEF Task
  <2> QED BY <2>2, <2>3, <2>4 DEF index, world, Stages, IndexTypeOK
<1>9. ASSUME NEW p \in Syncers, MarkChecked(p) \/ Publish(p) PROVE TypeInv'
  <2>1. task[p].got.etag \in Tags
      BY <1>9 DEF MarkChecked, Publish, Answer
  <2>2. IndexTypeOK'
    <3>1. CASE MarkChecked(p)
        BY <3>1, <2>1, IndexOperationsTyped DEF MarkChecked
    <3>2. CASE Publish(p)
      <4>1. task[p].got.body \in Bodies
          BY <3>2 DEF Publish, Unmodified, Answer
      <4> QED BY <3>2, <4>1, <2>1, IndexOperationsTyped DEF Publish
    <3> QED BY <1>9, <3>1, <3>2
  <2>3. SourceDone(p) /\ task[p].on \in Sources
      BY <1>9 DEF MarkChecked, Publish
  <2>4. run' \in [Syncers -> Run]
      BY <2>3 DEF SourceDone, Run
  <2> QED BY <2>2, <2>3, <2>4 DEF SourceDone, world, Stages
<1>10. ASSUME NEW p \in Syncers, SourceFails(p) PROVE TypeInv'
  <2>1. task[p].on \in Sources
      BY <1>10 DEF SourceFails
  <2>2. run' \in [Syncers -> Run]
      BY <1>10, <2>1 DEF SourceFails, Run
  <2> QED BY <1>10, <2>2 DEF SourceFails, index, world, Stages, IndexTypeOK
<1>11. ASSUME NEW p \in Syncers, Finish(p) PROVE TypeInv'
    BY <1>11, IndexOperationsTyped DEF Finish, Finished, world, Stages
<1>12. ASSUME NEW p \in Syncers, Crash(p) PROVE TypeInv'
    BY <1>12, IndexOperationsTyped DEF Crash, world, Stages
<1>13. ASSUME NEW s \in Sources, ChangePage(s) \/ ChangeListing(s) PROVE TypeInv'
    BY <1>13 DEF ChangePage, ChangeListing, index, syncers, IndexTypeOK
<1>14. CASE UNCHANGED vars
    BY <1>14 DEF vars, IndexTypeOK
<1> QED BY <1>1, <1>2, <1>3, <1>4, <1>5, <1>6, <1>7, <1>8, <1>9, <1>10, <1>11, <1>12,
           <1>13, <1>14 DEF Next, Proceed, Fail

\* The tables, the syncers and the web sites keep their types.
THEOREM TypeCorrect == Spec => []TypeOK
<1>1. Spec => []TypeInv
    BY InitTypeInv, NextTypeInv, PTL DEF Spec
<1> QED BY <1>1, PTL DEF TypeInv

-----------------------------------------------------------------------------
(* Rows and chunks.                                                        *)

\* Only four actions write documents or chunks.
LEMMA TableSteps ==
    ASSUME [Next]_vars
    PROVE  \/ UNCHANGED <<docs, chunks>>
           \/ \E p \in Syncers :
                 \/ \E c \in Catalogs : ReconcileIdentities(p, c)
                 \/ ReconcilePresence(p) \/ MarkChecked(p) \/ Publish(p)
<1>1. ASSUME NEW p \in Syncers, Start(p) \/ Finish(p) \/ Crash(p) PROVE UNCHANGED <<docs, chunks>>
    BY <1>1 DEF Start, Finish, Crash
<1>2. ASSUME NEW p \in Syncers, Fail(p) PROVE UNCHANGED <<docs, chunks>>
    BY <1>2 DEF Fail, DiscoverCatalogFails, ReconcileFails, SourceFails, index
<1>3. ASSUME NEW p \in Syncers, NEW c \in Catalogs, DiscoverCatalog(p, c)
      PROVE  UNCHANGED <<docs, chunks>>
    BY <1>3 DEF DiscoverCatalog, index
<1>4. ASSUME NEW p \in Syncers, NEW s \in Sources, ReadState(p, s) PROVE UNCHANGED <<docs, chunks>>
    BY <1>4 DEF ReadState, index
<1>5. ASSUME NEW p \in Syncers, FetchNotModified(p) \/ FetchPage(p) PROVE UNCHANGED <<docs, chunks>>
    BY <1>5 DEF FetchNotModified, FetchPage, index
<1>6. ASSUME NEW s \in Sources, ChangePage(s) \/ ChangeListing(s) PROVE UNCHANGED <<docs, chunks>>
    BY <1>6 DEF ChangePage, ChangeListing, index
<1>7. CASE UNCHANGED vars
    BY <1>7 DEF vars
<1> QED BY <1>1, <1>2, <1>3, <1>4, <1>5, <1>6, <1>7 DEF Next, Proceed

LEMMA InitChunks == Init => ChunksDescribeBody
BY DEF Init, IndexInit, ChunksDescribeBody, HasRow

LEMMA NextChunks == TypeInv /\ ChunksDescribeBody /\ [Next]_vars => ChunksDescribeBody'
<1> SUFFICES ASSUME TypeInv, ChunksDescribeBody, [Next]_vars PROVE ChunksDescribeBody'
    OBVIOUS
<1> USE DEF TypeInv, TypeOK, IndexTypeOK
<1>1. ASSUME UNCHANGED <<docs, chunks>> PROVE ChunksDescribeBody'
    BY <1>1 DEF ChunksDescribeBody, HasRow
<1>2. ASSUME NEW p \in Syncers, NEW c \in Catalogs, ReconcileIdentities(p, c)
      PROVE  ChunksDescribeBody'
  <2> DEFINE found == FoundIn(p, c)
  <2>1. found \in SUBSET Sources
      BY DEF FoundIn, Run
  <2>2. docs' = Renamed(docs, found, NoRow) /\ chunks' = Renamed(chunks, found, {})
      BY <1>2 DEF ReconcileIdentities, ReconcileSourceIdentities
  <2>3. \A s \in ToRename(found) : KeyOf(s) \in Keys /\ HasRow(KeyOf(s))
      BY KeyOfStored
  <2> HIDE DEF found
  <2> SUFFICES ASSUME NEW k \in Keys
               PROVE  chunks'[k] = IF docs'[k] # NoRow THEN ChunksOf(docs'[k].body) ELSE {}
      BY DEF ChunksDescribeBody, HasRow
  <2>4. CASE k \in ToRename(found)
    <3>1. docs'[k] = docs[KeyOf(k)] /\ chunks'[k] = chunks[KeyOf(k)]
        BY <2>2, <2>4 DEF Renamed
    <3> QED BY <2>3, <2>4, <3>1 DEF ChunksDescribeBody, HasRow
  <2>5. CASE k \notin ToRename(found) /\ HasRow(k) /\ docs[k].url \in ToRename(found)
      BY <2>2, <2>5 DEF Renamed
  <2>6. CASE k \notin ToRename(found) /\ ~(HasRow(k) /\ docs[k].url \in ToRename(found))
    <3>1. docs'[k] = docs[k] /\ chunks'[k] = chunks[k]
        BY <2>2, <2>6 DEF Renamed
    <3> QED BY <3>1 DEF ChunksDescribeBody, HasRow
  <2> QED BY <2>4, <2>5, <2>6
<1>3. ASSUME NEW p \in Syncers, ReconcilePresence(p) PROVE ChunksDescribeBody'
  <2>1. \A row \in Row : /\ Observed(row).body = row.body /\ Observed(row) # NoRow
                         /\ Unobserved(row).body = row.body /\ Unobserved(row) # NoRow
    <3>1. \A row \in Row : Observed(row) # NoRow /\ Unobserved(row) # NoRow
        BY ObservedIsRow, UnobservedIsRow, NoRowAssumption
    <3>2. \A row \in Row : Observed(row).body = row.body /\ Unobserved(row).body = row.body
        BY DEF Observed, Unobserved, Row
    <3> QED BY <3>1, <3>2
  <2>2. \A k \in Keys : /\ HasRow(k) <=> docs'[k] # NoRow
                        /\ HasRow(k) => docs'[k].body = docs[k].body
      BY <1>3, <2>1 DEF ReconcilePresence, ReconcileCatalogPresence, RowsOf, HasRow
  <2>3. chunks' = chunks
      BY <1>3 DEF ReconcilePresence, ReconcileCatalogPresence
  <2> QED BY <2>2, <2>3 DEF ChunksDescribeBody, HasRow
<1>4. ASSUME NEW p \in Syncers, MarkChecked(p) PROVE ChunksDescribeBody'
  <2> DEFINE s == task[p].on
             e == task[p].got.etag
  <2>1. s \in Sources /\ e \in Tags
      BY <1>4 DEF MarkChecked, TaskOK, Answer
  <2>2. \A row \in Row : Checked(row, e) # NoRow /\ Checked(row, e).body = row.body
    <3>1. \A row \in Row : Checked(row, e) # NoRow
        BY <2>1, CheckedIsRow, NoRowAssumption
    <3>2. \A row \in Row : Checked(row, e).body = row.body
        BY DEF Checked, Row
    <3> QED BY <3>1, <3>2
  <2>3. MarkDocumentChecked(s, e)
      BY <1>4 DEF MarkChecked
  <2> HIDE DEF s, e
  <2>4. \A k \in Keys : /\ HasRow(k) <=> docs'[k] # NoRow
                        /\ HasRow(k) => docs'[k].body = docs[k].body
      BY <2>1, <2>2, <2>3 DEF MarkDocumentChecked, HasRow
  <2>5. chunks' = chunks
      BY <2>3 DEF MarkDocumentChecked
  <2> QED BY <2>4, <2>5 DEF ChunksDescribeBody, HasRow
<1>5. ASSUME NEW p \in Syncers, Publish(p) PROVE ChunksDescribeBody'
  <2> DEFINE row == [url |-> task[p].on, body |-> task[p].got.body, etag |-> task[p].got.etag,
                     status |-> "active", missing |-> 0]
  <2>1. task[p].on \in Sources /\ task[p].got.body \in Bodies /\ task[p].got.etag \in Tags
      BY <1>5 DEF Publish, Unmodified, TaskOK, Answer
  <2>2. row \in Row /\ row # NoRow
      BY <2>1, NoRowAssumption DEF Row
  <2> QED BY <1>5, <2>1, <2>2 DEF Publish, PublishDocument, ChunksDescribeBody, HasRow
<1> QED BY <1>1, <1>2, <1>3, <1>4, <1>5, TableSteps

\* No interleaving of syncs and crashes leaves a row with the chunks of another
\* content, a row without chunks, or chunks without a row.
THEOREM ChunksAlwaysDescribeBody == Spec => []ChunksDescribeBody
<1>1. Spec => []TypeInv
    BY InitTypeInv, NextTypeInv, PTL DEF Spec
<1> QED BY <1>1, InitChunks, NextChunks, PTL DEF Spec

-----------------------------------------------------------------------------
(* One row per identity.  Publishing a source could add a second row only  *)
(* while a legacy row still has its URL; the invariant says that the       *)
(* identities of a catalog are migrated before any of its sources is       *)
(* published, and that nothing brings a legacy row back.                   *)

Migrated(s) == \A k \in LegacyKeys : HasRow(k) => docs[k].url # s

DerivedKeys == \A s \in Sources : HasRow(s) => docs[s].url = s

MigratedBeforePublished ==
    \A p \in Syncers :
        /\ \A s \in run[p].ready : Migrated(s)
        /\ stage[p] = "identified" => \A s \in FoundIn(p, task[p].on) : Migrated(s)
        /\ stage[p] \in {"fetching", "storing"} => Migrated(task[p].on)

IdentityInv == OneRowPerIdentity /\ DerivedKeys /\ MigratedBeforePublished

LEMMA InitIdentities == Init => IdentityInv
<1> SUFFICES ASSUME Init PROVE IdentityInv
    OBVIOUS
<1> USE DEF Init
<1>1. \A s \in Sources : ~HasRow(s)
    BY DEF IndexInit, HasRow
<1>2. OneRowPerIdentity
  <2>1. \A j, k \in LegacyKeys : HasRow(j) /\ HasRow(k) /\ docs[j].url = docs[k].url => j = k
      BY DEF IndexInit, HasRow
  <2> QED BY <1>1, <2>1 DEF OneRowPerIdentity
<1>3. MigratedBeforePublished
    BY DEF MigratedBeforePublished, NoRun
<1> QED BY <1>1, <1>2, <1>3 DEF IdentityInv, DerivedKeys

\* A step that keeps the URL of every row disturbs no identity.
KeepsUrls ==
    \A k \in Keys : /\ HasRow(k) <=> docs'[k] # NoRow
                    /\ HasRow(k) => docs'[k].url = docs[k].url

LEMMA UrlsKept ==
    ASSUME KeepsUrls
    PROVE  /\ OneRowPerIdentity => OneRowPerIdentity'
           /\ DerivedKeys => DerivedKeys'
           /\ \A s \in Sources : Migrated(s) => Migrated(s)'
BY DEF KeepsUrls, OneRowPerIdentity, DerivedKeys, Migrated, HasRow

\* Renaming the rows of unambiguous sources migrates each of them.
LEMMA RenameMigrates ==
    ASSUME IndexTypeOK, DerivedKeys, OneRowPerIdentity,
           NEW found \in SUBSET Sources, ReconcileSourceIdentities(found)
    PROVE  /\ OneRowPerIdentity'
           /\ DerivedKeys'
           /\ \A s \in Sources : Migrated(s) => Migrated(s)'
           /\ \A s \in found : Migrated(s)'
<1>1. \A s \in ToRename(found) : KeyOf(s) \in Keys /\ HasRow(KeyOf(s)) /\ docs[KeyOf(s)].url = s
    BY KeyOfStored
<1>2. ToRename(found) \subseteq Sources
    BY DEF ToRename
<1>3. \A k \in Keys :
         \/ k \in ToRename(found) /\ docs'[k] # NoRow /\ docs'[k].url = k
         \/ k \notin ToRename(found) /\ docs'[k] = NoRow
         \/ /\ k \notin ToRename(found)
            /\ docs'[k] = docs[k]
            /\ HasRow(k) => docs[k].url \notin ToRename(found)
    BY <1>1 DEF ReconcileSourceIdentities, Renamed, HasRow
<1>4. OneRowPerIdentity'
    BY <1>3 DEF OneRowPerIdentity, HasRow
<1>5. DerivedKeys'
    BY <1>3 DEF DerivedKeys, HasRow
<1>6. \A k \in LegacyKeys : docs'[k] # NoRow =>
          docs'[k] = docs[k] /\ HasRow(k) /\ docs[k].url \notin ToRename(found)
    BY <1>2, <1>3, KeyAssumption DEF HasRow
<1>7. \A s \in Sources : Migrated(s) => Migrated(s)'
    BY <1>6 DEF Migrated, HasRow
<1>8. ASSUME NEW s \in found PROVE Migrated(s)'
  <2> SUFFICES ASSUME NEW k \in LegacyKeys, docs'[k] # NoRow, docs'[k].url = s PROVE FALSE
      BY DEF Migrated, HasRow
  <2>1. k \in StoredAs(s) /\ s \notin ToRename(found)
      BY <1>6 DEF StoredAs
  <2>2. HasRow(s)
      BY <2>1 DEF ToRename
  <2>3. StoredAs(s) \subseteq {s}
      BY <2>2 DEF ReconcileSourceIdentities, Ambiguous
  <2> QED BY <2>1, <2>3, KeyAssumption
<1> QED BY <1>4, <1>5, <1>7, <1>8

\* Publishing a migrated source adds no second row.
LEMMA PublishKeepsIdentities ==
    ASSUME IndexTypeOK, DerivedKeys, OneRowPerIdentity,
           NEW s \in Sources, NEW b \in Bodies, NEW e \in Tags,
           Migrated(s), PublishDocument(s, b, e)
    PROVE  /\ OneRowPerIdentity'
           /\ DerivedKeys'
           /\ \A t \in Sources : Migrated(t) => Migrated(t)'
<1> DEFINE row == [url |-> s, body |-> b, etag |-> e, status |-> "active", missing |-> 0]
<1>1. row \in Row /\ row # NoRow /\ row.url = s
    BY NoRowAssumption DEF Row
<1>2. docs' = [docs EXCEPT ![s] = row]
    BY DEF PublishDocument
<1> HIDE DEF row
<1>3. docs'[s] = row /\ \A k \in Keys \ {s} : docs'[k] = docs[k]
    BY <1>2 DEF IndexTypeOK
<1>4. \A k \in Keys \ {s} : HasRow(k) => docs[k].url # s
    BY DEF DerivedKeys, Migrated
<1>5. OneRowPerIdentity'
    BY <1>1, <1>3, <1>4 DEF OneRowPerIdentity, HasRow
<1>6. DerivedKeys'
    BY <1>1, <1>3 DEF DerivedKeys, HasRow
<1>7. \A t \in Sources : Migrated(t) => Migrated(t)'
    BY <1>3, KeyAssumption DEF Migrated, HasRow
<1> QED BY <1>5, <1>6, <1>7

LEMMA NextIdentities == TypeInv /\ IdentityInv /\ [Next]_vars => IdentityInv'
<1> SUFFICES ASSUME TypeInv, IdentityInv, [Next]_vars PROVE IdentityInv'
    OBVIOUS
<1> USE DEF TypeInv, TypeOK, IdentityInv
\* What every step does to the tables.
<1> DEFINE TablesKept == /\ OneRowPerIdentity' /\ DerivedKeys'
                         /\ \A s \in Sources : Migrated(s) => Migrated(s)'
<1>1. ASSUME UNCHANGED docs PROVE TablesKept
  <2>1. KeepsUrls
      BY <1>1 DEF KeepsUrls, HasRow
  <2> QED BY <2>1, UrlsKept
\* Steps that give the syncer no source to publish but those it had.
<1>2. ASSUME NEW p \in Syncers, TablesKept,
             \A q \in Syncers \ {p} :
                stage'[q] = stage[q] /\ run'[q] = run[q] /\ task'[q] = task[q],
             run'[p].ready \subseteq run[p].ready,
             \/ stage'[p] \in {"idle", "running"}
             \/ /\ stage'[p] \in {"fetching", "storing"}
                /\ task'[p].on \in Sources
                /\ Migrated(task'[p].on)
      PROVE  IdentityInv'
  <2>1. \A q \in Syncers : \A s \in run'[q].ready : s \in Sources /\ Migrated(s)
      BY <1>2 DEF MigratedBeforePublished, Run
  <2>2. \A q \in Syncers \ {p} : stage'[q] = "identified" =>
            \A s \in FoundIn(q, task[q].on) : s \in Sources /\ Migrated(s)
      BY <1>2 DEF MigratedBeforePublished, FoundIn, Run
  <2>3. \A q \in Syncers \ {p} : FoundIn(q, task[q].on)' = FoundIn(q, task[q].on)
      BY <1>2 DEF FoundIn
  <2>4. \A q \in Syncers \ {p} : stage'[q] \in {"fetching", "storing"} =>
            task[q].on \in Sources /\ Migrated(task[q].on)
      BY <1>2 DEF MigratedBeforePublished, TaskOK
  <2>5. MigratedBeforePublished'
      BY <1>2, <2>1, <2>2, <2>3, <2>4 DEF MigratedBeforePublished
  <2> QED BY <1>2, <2>5
<1>3. ASSUME NEW p \in Syncers, Start(p) PROVE IdentityInv'
  <2>1. run'[p].ready = {}
      BY <1>3 DEF Start, NoRun
  <2> QED BY <1>1, <1>2, <1>3, <2>1 DEF Start, world
<1>4. ASSUME NEW p \in Syncers, NEW c \in Catalogs,
             DiscoverCatalog(p, c) \/ DiscoverCatalogFails(p, c) \/ ReconcileFails(p, c)
      PROVE  IdentityInv'
  <2>1. run'[p].ready = run[p].ready
    <3>1. CASE DiscoverCatalog(p, c)
      <4>1. PICK a, b, f, e :
                run' = [run EXCEPT ![p].toDiscover = a, ![p].toReconcile = b,
                                   ![p].found = f, ![p].entry = e]
          BY <3>1 DEF DiscoverCatalog
      <4> QED BY <4>1 DEF Run
    <3>2. CASE DiscoverCatalogFails(p, c)
        BY <3>2 DEF DiscoverCatalogFails, Run
    <3>3. CASE ReconcileFails(p, c)
        BY <3>3 DEF ReconcileFails, Run
    <3> QED BY <1>4, <3>1, <3>2, <3>3
  <2> QED BY <1>1, <1>2, <1>4, <2>1
          DEF DiscoverCatalog, DiscoverCatalogFails, ReconcileFails, index, world
<1>5. ASSUME NEW p \in Syncers, NEW c \in Catalogs, ReconcileIdentities(p, c) PROVE IdentityInv'
  <2> DEFINE found == FoundIn(p, c)
  <2>1. found \in SUBSET Sources
      BY DEF FoundIn, Run
  <2>2. ReconcileSourceIdentities(found)
      BY <1>5 DEF ReconcileIdentities
  <2> HIDE DEF found
  <2>3. TablesKept /\ \A s \in found : Migrated(s)'
      BY <2>1, <2>2, RenameMigrates
  <2>4. /\ run' = run /\ stage' = [stage EXCEPT ![p] = "identified"]
        /\ task' = [task EXCEPT ![p].on = c]
      BY <1>5 DEF ReconcileIdentities
  <2>5. FoundIn(p, task[p].on)' = found
      BY <2>4 DEF FoundIn, found, Task
  <2>6. \A q \in Syncers \ {p} : /\ stage'[q] = stage[q]
                                 /\ task'[q] = task[q]
                                 /\ FoundIn(q, task[q].on)' = FoundIn(q, task[q].on)
      BY <2>4 DEF FoundIn
  <2>7. \A q \in Syncers : \A s \in run[q].ready : s \in Sources /\ Migrated(s)
      BY DEF MigratedBeforePublished, Run
  <2>8. \A q \in Syncers : stage[q] = "identified" =>
            \A s \in FoundIn(q, task[q].on) : s \in Sources /\ Migrated(s)
      BY DEF MigratedBeforePublished, FoundIn, Run
  <2>9. \A q \in Syncers : stage[q] \in {"fetching", "storing"} =>
            task[q].on \in Sources /\ Migrated(task[q].on)
      BY DEF MigratedBeforePublished, TaskOK
  <2>10. MigratedBeforePublished'
      BY <2>3, <2>4, <2>5, <2>6, <2>7, <2>8, <2>9 DEF MigratedBeforePublished
  <2> QED BY <2>3, <2>10
<1>6. ASSUME NEW p \in Syncers, ReconcilePresence(p) PROVE IdentityInv'
  <2> DEFINE c == task[p].on
  <2>1. KeepsUrls
    <3>1. \A row \in Row : /\ Observed(row).url = row.url /\ Observed(row) # NoRow
                           /\ Unobserved(row).url = row.url /\ Unobserved(row) # NoRow
      <4>1. \A row \in Row : Observed(row) # NoRow /\ Unobserved(row) # NoRow
          BY ObservedIsRow, UnobservedIsRow, NoRowAssumption
      <4>2. \A row \in Row : Observed(row).url = row.url /\ Unobserved(row).url = row.url
          BY DEF Observed, Unobserved, Row
      <4> QED BY <4>1, <4>2
    <3> QED BY <1>6, <3>1 DEF ReconcilePresence, ReconcileCatalogPresence, RowsOf, HasRow,
                              KeepsUrls, IndexTypeOK
  <2>2. TablesKept
      BY <2>1, UrlsKept
  <2>3. /\ stage' = [stage EXCEPT ![p] = "running"]
        /\ run' = [run EXCEPT ![p].toReconcile = @ \ {c}, ![p].ready = @ \cup FoundIn(p, c)]
        /\ task' = [task EXCEPT ![p] = NoTask]
        /\ stage[p] = "identified"
      BY <1>6 DEF ReconcilePresence
  <2>4. run'[p].ready = run[p].ready \cup FoundIn(p, c)
      BY <2>3 DEF Run
  <2>5. \A q \in Syncers : \A s \in run'[q].ready : s \in Sources /\ Migrated(s)
      BY <2>3, <2>4 DEF MigratedBeforePublished, FoundIn, Run
  <2>6. \A q \in Syncers \ {p} : /\ stage'[q] = stage[q]
                                 /\ task'[q] = task[q]
                                 /\ FoundIn(q, task[q].on)' = FoundIn(q, task[q].on)
      BY <2>3 DEF FoundIn
  <2>7. \A q \in Syncers : stage[q] = "identified" =>
            \A s \in FoundIn(q, task[q].on) : s \in Sources /\ Migrated(s)
      BY DEF MigratedBeforePublished, FoundIn, Run
  <2>8. \A q \in Syncers : stage[q] \in {"fetching", "storing"} =>
            task[q].on \in Sources /\ Migrated(task[q].on)
      BY DEF MigratedBeforePublished, TaskOK
  <2>9. stage'[p] = "running"
      BY <2>3
  <2>10. MigratedBeforePublished'
      BY <2>2, <2>5, <2>6, <2>7, <2>8, <2>9 DEF MigratedBeforePublished
  <2> QED BY <2>2, <2>10
<1>7. ASSUME NEW p \in Syncers, NEW s \in Sources, ReadState(p, s) PROVE IdentityInv'
  <2>1. run'[p].ready \subseteq run[p].ready
      BY <1>7 DEF ReadState, Run
  <2>2. task'[p].on = s /\ stage'[p] \in {"fetching", "storing"}
      BY <1>7 DEF ReadState
  <2>3. Migrated(s)
      BY <1>7 DEF ReadState, MigratedBeforePublished
  <2> QED BY <1>1, <1>2, <1>7, <2>1, <2>2, <2>3 DEF ReadState, index, world
<1>8. ASSUME NEW p \in Syncers, FetchNotModified(p) \/ FetchPage(p) PROVE IdentityInv'
  <2>1. task'[p].on = task[p].on /\ stage'[p] = "storing" /\ stage[p] = "fetching"
      BY <1>8 DEF FetchNotModified, FetchPage, Task
  <2>2. task[p].on \in Sources /\ Migrated(task[p].on)
      BY <2>1 DEF MigratedBeforePublished, TaskOK
  <2> QED BY <1>1, <1>2, <1>8, <2>1, <2>2 DEF FetchNotModified, FetchPage, index, world
<1>9. ASSUME NEW p \in Syncers, MarkChecked(p) PROVE IdentityInv'
  <2> DEFINE s == task[p].on
             e == task[p].got.etag
  <2>1. s \in Sources /\ e \in Tags
      BY <1>9 DEF MarkChecked, TaskOK, Answer
  <2>2. \A row \in Row : Checked(row, e) # NoRow /\ Checked(row, e).url = row.url
    <3>1. \A row \in Row : Checked(row, e) # NoRow
        BY <2>1, CheckedIsRow, NoRowAssumption
    <3>2. \A row \in Row : Checked(row, e).url = row.url
        BY DEF Checked, Row
    <3> QED BY <3>1, <3>2
  <2>3. MarkDocumentChecked(s, e)
      BY <1>9 DEF MarkChecked
  <2> HIDE DEF s, e
  <2>4. KeepsUrls
      BY <2>1, <2>2, <2>3 DEF MarkDocumentChecked, KeepsUrls, HasRow, IndexTypeOK
  <2>5. TablesKept
      BY <2>4, UrlsKept
  <2>6. run'[p].ready = run[p].ready
      BY <1>9 DEF MarkChecked, SourceDone, Run
  <2> QED BY <1>2, <1>9, <2>5, <2>6 DEF MarkChecked, SourceDone
<1>10. ASSUME NEW p \in Syncers, Publish(p) PROVE IdentityInv'
  <2>1. /\ task[p].on \in Sources /\ task[p].got.body \in Bodies /\ task[p].got.etag \in Tags
        /\ Migrated(task[p].on)
      BY <1>10 DEF Publish, Unmodified, TaskOK, Answer, MigratedBeforePublished
  <2>2. TablesKept
      BY <1>10, <2>1, PublishKeepsIdentities DEF Publish
  <2>3. run'[p].ready = run[p].ready
      BY <1>10 DEF Publish, SourceDone, Run
  <2> QED BY <1>2, <1>10, <2>2, <2>3 DEF Publish, SourceDone
<1>11. ASSUME NEW p \in Syncers, SourceFails(p) PROVE IdentityInv'
  <2>1. run'[p].ready = run[p].ready
      BY <1>11 DEF SourceFails, Run
  <2> QED BY <1>1, <1>2, <1>11, <2>1 DEF SourceFails, index, world
<1>12. ASSUME NEW p \in Syncers, Finish(p) \/ Crash(p) PROVE IdentityInv'
  <2>1. run'[p].ready = {}
      BY <1>12 DEF Finish, Crash, NoRun
  <2> QED BY <1>1, <1>2, <1>12, <2>1 DEF Finish, Crash, world
<1>13. CASE UNCHANGED <<index, syncers>>
  <2>1. TablesKept
      BY <1>1, <1>13 DEF index
  <2>2. \A q \in Syncers : FoundIn(q, task[q].on)' = FoundIn(q, task[q].on)
      BY <1>13 DEF syncers, FoundIn
  <2> QED BY <2>1, <2>2, <1>13 DEF syncers, MigratedBeforePublished, FoundIn, TaskOK, Run
<1> QED BY <1>3, <1>4, <1>5, <1>6, <1>7, <1>8, <1>9, <1>10, <1>11, <1>12, <1>13
        DEF Next, Proceed, Fail, ChangePage, ChangeListing, vars, index, syncers

\* However many syncs run and whatever legacy rows they start from, a catalog
\* entry is stored under one key.
THEOREM OneRowPerIdentityAlways == Spec => []OneRowPerIdentity
<1>1. Spec => []TypeInv
    BY InitTypeInv, NextTypeInv, PTL DEF Spec
<1>2. Spec => []IdentityInv
    BY <1>1, InitIdentities, NextIdentities, PTL DEF Spec
<1> QED BY <1>2, PTL DEF IdentityInv

-----------------------------------------------------------------------------
(* Validators.  What a sync stores for a source combines the answer it got *)
(* with the row it read before asking, so the argument needs that row to   *)
(* be still there: it holds for syncs that do not overlap.                 *)

GotSound(p) ==
    IF task[p].got.modified
    THEN task[p].got.etag # NoTag => BodyOf[task[p].got.etag] = task[p].got.body
    ELSE task[p].seen # NoRow /\ task[p].got.etag = task[p].seen.etag

SeenIsCurrent ==
    \A p \in Syncers :
        /\ stage[p] \in {"fetching", "storing"} => task[p].seen = docs[task[p].on]
        /\ stage[p] = "storing" => GotSound(p)

EtagInv == EtagDescribesBody /\ SeenIsCurrent

LEMMA InitEtag == Init => EtagInv
<1> SUFFICES ASSUME Init PROVE EtagInv
    OBVIOUS
<1>1. \A k \in Keys : HasRow(k) => \E v \in Versions : docs[k].etag = v /\ docs[k].body = BodyOf[v]
    BY DEF Init, IndexInit, LegacyRows, HasRow
<1> QED BY <1>1 DEF Init, EtagInv, EtagDescribesBody, SeenIsCurrent

LEMMA NextEtag ==
    ASSUME \A p, q \in Syncers : p = q
    PROVE  TypeInv /\ EtagInv /\ [Next]_vars => EtagInv'
<1> SUFFICES ASSUME TypeInv, EtagInv, [Next]_vars PROVE EtagInv'
    OBVIOUS
<1> USE DEF TypeInv, TypeOK, EtagInv
\* Steps that leave the syncer with no source in hand.
<1>1. ASSUME NEW p \in Syncers, EtagDescribesBody',
             stage'[p] \in {"idle", "running", "identified"}
      PROVE  EtagInv'
    BY <1>1 DEF SeenIsCurrent
<1>2. ASSUME UNCHANGED docs PROVE EtagDescribesBody'
    BY <1>2 DEF EtagDescribesBody, HasRow
<1>3. ASSUME NEW p \in Syncers, Start(p) \/ SourceFails(p) \/ Finish(p) \/ Crash(p) PROVE EtagInv'
    BY <1>1, <1>2, <1>3 DEF Start, SourceFails, Finish, Crash, index
<1>4. ASSUME NEW p \in Syncers, NEW c \in Catalogs,
             DiscoverCatalog(p, c) \/ DiscoverCatalogFails(p, c) \/ ReconcileFails(p, c)
      PROVE  EtagInv'
    BY <1>1, <1>2, <1>4 DEF DiscoverCatalog, DiscoverCatalogFails, ReconcileFails, index
<1>5. ASSUME NEW p \in Syncers, NEW c \in Catalogs, ReconcileIdentities(p, c) PROVE EtagInv'
  <2> DEFINE found == FoundIn(p, c)
  <2>1. found \in SUBSET Sources
      BY DEF FoundIn, Run
  <2>2. docs' = Renamed(docs, found, NoRow)
      BY <1>5 DEF ReconcileIdentities, ReconcileSourceIdentities
  <2>3. \A s \in ToRename(found) : KeyOf(s) \in Keys /\ HasRow(KeyOf(s))
      BY KeyOfStored
  <2> HIDE DEF found
  <2>4. \A k \in Keys : docs'[k] # NoRow => \E j \in Keys : HasRow(j) /\ docs'[k] = docs[j]
      BY <2>2, <2>3 DEF Renamed, HasRow
  <2>5. EtagDescribesBody'
      BY <2>4 DEF EtagDescribesBody, HasRow
  <2>6. stage'[p] = "identified"
      BY <1>5 DEF ReconcileIdentities
  <2> QED BY <1>1, <2>5, <2>6
<1>6. ASSUME NEW p \in Syncers, ReconcilePresence(p) PROVE EtagInv'
  <2>1. \A row \in Row :
           /\ Observed(row).etag = row.etag /\ Observed(row).body = row.body
           /\ Unobserved(row).etag = row.etag /\ Unobserved(row).body = row.body
      BY DEF Observed, Unobserved, Row
  <2>2. \A k \in Keys : docs'[k] # NoRow =>
            HasRow(k) /\ docs'[k].etag = docs[k].etag /\ docs'[k].body = docs[k].body
      BY <1>6, <2>1 DEF ReconcilePresence, ReconcileCatalogPresence, RowsOf, HasRow, IndexTypeOK
  <2>3. EtagDescribesBody'
      BY <2>2 DEF EtagDescribesBody, HasRow
  <2>4. stage'[p] = "running"
      BY <1>6 DEF ReconcilePresence
  <2> QED BY <1>1, <2>3, <2>4
<1>7. ASSUME NEW p \in Syncers, NEW s \in Sources, ReadState(p, s) PROVE EtagInv'
  <2>1. task'[p].on = s /\ task'[p].seen = docs[s] /\ docs' = docs
      BY <1>7 DEF ReadState, index
  <2>2. stage'[p] = "storing" => task'[p].got.modified /\ task'[p].got.etag = NoTag
      BY <1>7 DEF ReadState
  <2>3. SeenIsCurrent'
      BY <2>1, <2>2 DEF SeenIsCurrent, GotSound
  <2> QED BY <1>2, <2>1, <2>3
<1>8. ASSUME NEW p \in Syncers, FetchNotModified(p) \/ FetchPage(p) PROVE EtagInv'
  <2>1. /\ task'[p].on = task[p].on /\ task'[p].seen = task[p].seen
        /\ docs' = docs /\ stage[p] = "fetching"
      BY <1>8 DEF FetchNotModified, FetchPage, index, Task
  <2>2. GotSound(p)'
    <3>1. CASE FetchNotModified(p)
      <4>1. task'[p].got = [modified |-> FALSE, etag |-> Condition(p)]
          BY <3>1 DEF FetchNotModified, Task
      <4>2. task[p].seen # NoRow /\ Condition(p) = task[p].seen.etag
          BY <3>1 DEF FetchNotModified, Condition
      <4> QED BY <2>1, <4>1, <4>2 DEF GotSound
    <3>2. CASE FetchPage(p)
      <4>1. PICK e \in {site[task[p].on], NoTag} :
                task'[p].got = [modified |-> TRUE, body |-> BodyOf[site[task[p].on]], etag |-> e]
          BY <3>2 DEF FetchPage, Task
      <4> QED BY <4>1 DEF GotSound
    <3> QED BY <1>8, <3>1, <3>2
  <2>3. SeenIsCurrent'
      BY <2>1, <2>2 DEF SeenIsCurrent
  <2> QED BY <1>2, <2>1, <2>3
<1>9. ASSUME NEW p \in Syncers, MarkChecked(p) PROVE EtagInv'
  <2> DEFINE s == task[p].on
             e == task[p].got.etag
  <2>1. /\ s \in Sources /\ e \in Tags /\ MarkDocumentChecked(s, e)
        /\ task[p].seen = docs[s] /\ GotSound(p)
      BY <1>9 DEF MarkChecked, TaskOK, Answer, SeenIsCurrent
  <2>2. HasRow(s) /\ e # NoTag => e = docs[s].etag \/ BodyOf[e] = docs[s].body
      BY <1>9, <2>1 DEF MarkChecked, Unmodified, GotSound, HasRow
  <2> HIDE DEF s, e
  <2>3. \A row \in Row : /\ Checked(row, e).body = row.body
                         /\ Checked(row, e).etag = IF e = NoTag THEN row.etag ELSE e
      BY DEF Checked, Row
  <2>4. \A k \in Keys : docs'[k] # NoRow =>
           /\ HasRow(k)
           /\ docs'[k].body = docs[k].body
           /\ docs'[k].etag = docs[k].etag \/ (k = s /\ e # NoTag /\ docs'[k].etag = e)
      BY <2>1, <2>3 DEF MarkDocumentChecked, HasRow, IndexTypeOK
  <2>5. EtagDescribesBody'
      BY <2>2, <2>4 DEF EtagDescribesBody, HasRow
  <2>6. stage'[p] = "running"
      BY <1>9 DEF MarkChecked, SourceDone
  <2> QED BY <1>1, <2>5, <2>6
<1>10. ASSUME NEW p \in Syncers, Publish(p) PROVE EtagInv'
  <2>1. /\ task[p].on \in Sources
        /\ PublishDocument(task[p].on, task[p].got.body, task[p].got.etag)
        /\ task[p].got.etag # NoTag => BodyOf[task[p].got.etag] = task[p].got.body
      BY <1>10 DEF Publish, Unmodified, TaskOK, SeenIsCurrent, GotSound
  <2>2. EtagDescribesBody'
      BY <2>1 DEF PublishDocument, EtagDescribesBody, HasRow, IndexTypeOK
  <2>3. stage'[p] = "running"
      BY <1>10 DEF Publish, SourceDone
  <2> QED BY <1>1, <2>2, <2>3
<1>11. CASE UNCHANGED <<index, syncers>>
    BY <1>2, <1>11 DEF index, syncers, SeenIsCurrent, GotSound
<1> QED BY <1>3, <1>4, <1>5, <1>6, <1>7, <1>8, <1>9, <1>10, <1>11
        DEF Next, Proceed, Fail, ChangePage, ChangeListing, vars, index, syncers

\* As long as syncs do not overlap, a 304 answer proves the stored content
\* current: the validator sent is always one of a version with that content.
THEOREM EtagAlwaysDescribesBody ==
    ASSUME \A p, q \in Syncers : p = q
    PROVE  Spec => []EtagDescribesBody
<1>1. Spec => []TypeInv
    BY InitTypeInv, NextTypeInv, PTL DEF Spec
<1>2. TypeInv /\ EtagInv /\ [Next]_vars => EtagInv'
    BY NextEtag
<1>3. Spec => []EtagInv
    BY <1>1, <1>2, InitEtag, PTL DEF Spec
<1> QED BY <1>3, PTL DEF EtagInv

-----------------------------------------------------------------------------
(* The lifecycle of a document.                                            *)

RowPhase(row) ==
    IF row.status = "disabled" THEN "disabled"
    ELSE IF row.missing = 0 THEN "active" ELSE "pending"

\* The phase of a stored source is that of its row; without one it is unknown.
PhaseIsRowPhase ==
    /\ \A k \in Keys : HasRow(k) => phase[docs[k].url] = RowPhase(docs[k])
    /\ \A s \in Sources : (\A k \in Keys : HasRow(k) => docs[k].url # s) => phase[s] = "unknown"

LEMMA PhaseOfRow == IndexTypeOK /\ OneRowPerIdentity => PhaseIsRowPhase
<1> SUFFICES ASSUME IndexTypeOK, OneRowPerIdentity PROVE PhaseIsRowPhase
    OBVIOUS
<1>1. ASSUME NEW k \in Keys, HasRow(k) PROVE phase[docs[k].url] = RowPhase(docs[k])
  <2> DEFINE s == docs[k].url
  <2>1. s \in Sources
      BY <1>1 DEF IndexTypeOK, HasRow, Row
  <2>2. k \in StoredAs(s)
      BY <1>1 DEF StoredAs
  <2>3. KeyOf(s) \in Keys /\ HasRow(KeyOf(s)) /\ docs[KeyOf(s)].url = s
      BY <1>1 DEF KeyOf
  <2>4. KeyOf(s) = k
      BY <1>1, <2>3 DEF OneRowPerIdentity
  <2> QED BY <2>1, <2>2, <2>4 DEF phase, RowPhase
<1>2. ASSUME NEW s \in Sources, \A k \in Keys : HasRow(k) => docs[k].url # s
      PROVE  phase[s] = "unknown"
  <2>1. StoredAs(s) = {}
      BY <1>2 DEF StoredAs
  <2> QED BY <2>1 DEF phase
<1> QED BY <1>1, <1>2 DEF PhaseIsRowPhase

LEMMA PhaseOfRowNext == IndexTypeOK' /\ OneRowPerIdentity' => PhaseIsRowPhase'
BY PhaseOfRow, PTL

\* Two states with the same rows up to their keys have the same phases.
LEMMA SameRowsSamePhase ==
    ASSUME IndexTypeOK, IndexTypeOK', PhaseIsRowPhase, PhaseIsRowPhase',
           \A k \in Keys : HasRow(k) => \E j \in Keys : docs'[j] = docs[k],
           \A j \in Keys : docs'[j] # NoRow => \E k \in Keys : docs[k] = docs'[j]
    PROVE  phase' = phase
<1> SUFFICES ASSUME NEW s \in Sources PROVE phase'[s] = phase[s]
    BY DEF phase
<1>1. CASE \E k \in Keys : HasRow(k) /\ docs[k].url = s
    BY <1>1 DEF PhaseIsRowPhase, HasRow
<1>2. CASE \A k \in Keys : HasRow(k) => docs[k].url # s
    BY <1>2 DEF PhaseIsRowPhase, HasRow
<1> QED BY <1>1, <1>2

\* Storing an active row with no absence for s, all other rows left alone, is
\* a confirmation of s.
LEMMA ActiveRowConfirms ==
    ASSUME IndexTypeOK, IndexTypeOK', PhaseIsRowPhase, PhaseIsRowPhase',
           OneRowPerIdentity, NEW s \in Sources, HasRow(s) => docs[s].url = s,
           docs'[s] # NoRow, docs'[s].url = s,
           docs'[s].status = "active", docs'[s].missing = 0,
           \A k \in Keys \ {s} : docs'[k] = docs[k] /\ (HasRow(k) => docs[k].url # s)
    PROVE  Lifecycle!Confirm(s)
<1>1. phase'[s] = "active"
    BY DEF PhaseIsRowPhase, RowPhase, HasRow
<1>2. ASSUME NEW t \in Sources \ {s} PROVE phase'[t] = phase[t]
  <2>1. CASE \E k \in Keys : HasRow(k) /\ docs[k].url = t
      BY <1>2, <2>1 DEF PhaseIsRowPhase, HasRow
  <2>2. CASE \A k \in Keys : HasRow(k) => docs[k].url # t
      BY <1>2, <2>2 DEF PhaseIsRowPhase, HasRow
  <2> QED BY <2>1, <2>2
<1>3. phase = [t \in Sources |-> phase[t]] /\ phase' = [t \in Sources |-> phase'[t]]
    BY DEF phase
<1>4. phase' = [phase EXCEPT ![s] = "active"]
    BY <1>1, <1>2, <1>3
<1> QED BY <1>4 DEF Lifecycle!Confirm

LEMMA InitPhase == Init => Lifecycle!Init
<1> SUFFICES ASSUME Init PROVE phase \in [Sources -> {"unknown", "active"}]
    BY DEF Lifecycle!Init
<1>1. \A k \in Keys : HasRow(k) => docs[k].status = "active" /\ docs[k].missing = 0
    BY DEF Init, IndexInit, LegacyRows, HasRow
<1>2. PhaseIsRowPhase
    BY InitTypeInv, InitIdentities, PhaseOfRow DEF TypeInv, TypeOK, IdentityInv
<1>3. \A s \in Sources : phase[s] \in {"unknown", "active"}
    BY <1>1, <1>2 DEF PhaseIsRowPhase, RowPhase
<1> QED BY <1>3 DEF phase

\* What a step may do to the phases: nothing, a confirmation, or a snapshot of
\* the catalog whose presence a syncer reconciles.
LEMMA PhaseSteps ==
    ASSUME TypeInv, TypeInv', IdentityInv, IdentityInv', [Next]_vars
    PROVE  \/ UNCHANGED phase
           \/ \E s \in Sources : Lifecycle!Confirm(s)
           \/ \E p \in Syncers :
                /\ stage[p] = "identified" /\ task[p].on \in Catalogs
                /\ Lifecycle!Snapshot(task[p].on, FoundIn(p, task[p].on))
<1> USE DEF TypeInv, TypeOK, IdentityInv
<1> PhaseIsRowPhase /\ PhaseIsRowPhase'
    BY PhaseOfRow, PhaseOfRowNext
<1>1. ASSUME UNCHANGED docs PROVE UNCHANGED phase
    BY <1>1, SameRowsSamePhase DEF HasRow
<1>2. ASSUME NEW p \in Syncers, NEW c \in Catalogs, ReconcileIdentities(p, c)
      PROVE  UNCHANGED phase
  <2> DEFINE found == FoundIn(p, c)
  <2>1. found \in SUBSET Sources
      BY DEF FoundIn, Run
  <2>2. docs' = Renamed(docs, found, NoRow)
      BY <1>2 DEF ReconcileIdentities, ReconcileSourceIdentities
  <2>3. \A s \in ToRename(found) :
            s \in Keys /\ KeyOf(s) \in Keys /\ HasRow(KeyOf(s)) /\ docs[KeyOf(s)].url = s
    <3>1. \A s \in ToRename(found) :
              KeyOf(s) \in Keys /\ HasRow(KeyOf(s)) /\ docs[KeyOf(s)].url = s
        BY KeyOfStored
    <3>2. ToRename(found) \subseteq Keys
        BY <2>1 DEF ToRename
    <3> QED BY <3>1, <3>2
  <2> HIDE DEF found
  <2>4. ASSUME NEW k \in Keys, HasRow(k) PROVE \E j \in Keys : docs'[j] = docs[k]
    <3>1. CASE docs[k].url \in ToRename(found)
      <4>1. KeyOf(docs[k].url) = k
          BY <2>3, <2>4, <3>1 DEF OneRowPerIdentity
      <4>2. docs'[docs[k].url] = docs[k]
          BY <2>2, <2>3, <3>1, <4>1 DEF Renamed
      <4> QED BY <2>3, <3>1, <4>2
    <3>2. CASE docs[k].url \notin ToRename(found)
      <4>1. k \notin ToRename(found)
          BY <2>4 DEF ToRename
      <4> QED BY <2>2, <2>4, <3>2, <4>1 DEF Renamed
    <3> QED BY <3>1, <3>2
  <2>5. \A j \in Keys : docs'[j] # NoRow => \E k \in Keys : docs[k] = docs'[j]
      BY <2>2, <2>3 DEF Renamed
  <2> QED BY <2>4, <2>5, SameRowsSamePhase
<1>3. ASSUME NEW p \in Syncers, ReconcilePresence(p)
      PROVE  /\ stage[p] = "identified" /\ task[p].on \in Catalogs
             /\ Lifecycle!Snapshot(task[p].on, FoundIn(p, task[p].on))
  <2> DEFINE c == task[p].on
             found == FoundIn(p, c)
  <2>1. c \in Catalogs /\ found \in SUBSET Sources
      BY <1>3 DEF ReconcilePresence, TaskOK, FoundIn, Run
  <2>2. \A s \in found : Migrated(s)
      BY <1>3 DEF ReconcilePresence, MigratedBeforePublished
  <2>3. ReconcileCatalogPresence(c, found)
      BY <1>3 DEF ReconcilePresence
  <2> HIDE DEF c, found
  <2>4. \A k \in Keys : HasRow(k) => (k \in found <=> docs[k].url \in found)
      BY <2>1, <2>2, KeyAssumption DEF DerivedKeys, Migrated
  <2>5. \A row \in Row :
           /\ Observed(row) \in Row /\ Unobserved(row) \in Row
           /\ Observed(row).url = row.url /\ Unobserved(row).url = row.url
           /\ RowPhase(Observed(row)) = Lifecycle!AfterSnapshot(RowPhase(row), TRUE)
           /\ RowPhase(Unobserved(row)) = Lifecycle!AfterSnapshot(RowPhase(row), FALSE)
    <3>1. \A row \in Row : Observed(row) \in Row /\ Unobserved(row) \in Row
        BY ObservedIsRow, UnobservedIsRow
    <3>2. \A row \in Row : Observed(row).url = row.url /\ Unobserved(row).url = row.url
        BY DEF Observed, Unobserved, Row
    <3>3. \A row \in Row : RowPhase(Observed(row)) = Lifecycle!AfterSnapshot(RowPhase(row), TRUE)
        BY DEF Observed, Row, RowPhase, Lifecycle!AfterSnapshot
    <3>4. \A row \in Row : RowPhase(Unobserved(row)) = Lifecycle!AfterSnapshot(RowPhase(row), FALSE)
        BY DEF Unobserved, Row, RowPhase, Lifecycle!AfterSnapshot
    <3> QED BY <3>1, <3>2, <3>3, <3>4
  <2>6. \A k \in Keys : HasRow(k) => docs[k] \in Row
      BY DEF IndexTypeOK, HasRow
  <2>7. \A k \in Keys : docs'[k] # NoRow => HasRow(k)
      BY <2>3 DEF ReconcileCatalogPresence, RowsOf, HasRow
  <2>8. ASSUME NEW k \in Keys, HasRow(k)
        PROVE  /\ docs'[k] # NoRow
               /\ docs'[k].url = docs[k].url
               /\ RowPhase(docs'[k]) =
                     IF CatalogOf[docs[k].url] = c
                     THEN Lifecycle!AfterSnapshot(RowPhase(docs[k]), docs[k].url \in found)
                     ELSE RowPhase(docs[k])
    <3>1. CASE k \notin RowsOf(c)
        BY <2>3, <2>8, <3>1 DEF ReconcileCatalogPresence, RowsOf, HasRow
    <3>2. CASE k \in RowsOf(c) /\ k \in found
      <4>1. docs'[k] = Observed(docs[k]) /\ CatalogOf[docs[k].url] = c
          BY <2>3, <3>2 DEF ReconcileCatalogPresence, RowsOf
      <4>2. (docs[k].url \in found) = TRUE
          BY <2>4, <2>8, <3>2
      <4>3. RowPhase(docs'[k]) = Lifecycle!AfterSnapshot(RowPhase(docs[k]), TRUE)
          BY <2>5, <2>6, <2>8, <4>1
      <4>4. docs'[k] # NoRow /\ docs'[k].url = docs[k].url
          BY <2>5, <2>6, <2>8, <4>1, NoRowAssumption
      <4> QED BY <4>1, <4>2, <4>3, <4>4
    <3>3. CASE k \in RowsOf(c) /\ k \notin found
      <4>1. docs'[k] = Unobserved(docs[k]) /\ CatalogOf[docs[k].url] = c
          BY <2>3, <3>3 DEF ReconcileCatalogPresence, RowsOf
      <4>2. (docs[k].url \in found) = FALSE
          BY <2>4, <2>8, <3>3
      <4>3. RowPhase(docs'[k]) = Lifecycle!AfterSnapshot(RowPhase(docs[k]), FALSE)
          BY <2>5, <2>6, <2>8, <4>1
      <4>4. docs'[k] # NoRow /\ docs'[k].url = docs[k].url
          BY <2>5, <2>6, <2>8, <4>1, NoRowAssumption
      <4> QED BY <4>1, <4>2, <4>3, <4>4
    <3> QED BY <3>1, <3>2, <3>3
  <2>9. ASSUME NEW s \in Sources
        PROVE  phase'[s] = IF CatalogOf[s] = c
                           THEN Lifecycle!AfterSnapshot(phase[s], s \in found) ELSE phase[s]
    <3>1. CASE \E k \in Keys : HasRow(k) /\ docs[k].url = s
      <4>1. PICK k \in Keys : HasRow(k) /\ docs[k].url = s
          BY <3>1
      <4>2. phase[s] = RowPhase(docs[k]) /\ phase'[s] = RowPhase(docs'[k])
          BY <2>8, <4>1 DEF PhaseIsRowPhase, HasRow
      <4> QED BY <2>8, <4>1, <4>2
    <3>2. CASE \A k \in Keys : HasRow(k) => docs[k].url # s
      <4>1. phase[s] = "unknown"
          BY <2>9, <3>2 DEF PhaseIsRowPhase
      <4>2. phase'[s] = "unknown"
          BY <2>7, <2>8, <2>9, <3>2 DEF PhaseIsRowPhase, HasRow
      <4> QED BY <4>1, <4>2 DEF Lifecycle!AfterSnapshot
    <3> QED BY <3>1, <3>2
  <2>10. Lifecycle!Snapshot(c, found)
      BY <2>9 DEF Lifecycle!Snapshot, phase
  <2> QED BY <1>3, <2>1, <2>10 DEF ReconcilePresence, c, found
<1>4. ASSUME NEW p \in Syncers, MarkChecked(p)
      PROVE  UNCHANGED phase \/ \E s \in Sources : Lifecycle!Confirm(s)
  <2> DEFINE s == task[p].on
             e == task[p].got.etag
  <2>1. /\ s \in Sources /\ e \in Tags
        /\ MarkDocumentChecked(s, e)
        /\ Migrated(s)
      BY <1>4 DEF MarkChecked, TaskOK, Answer, MigratedBeforePublished
  <2> HIDE DEF s, e
  <2>2. CASE ~HasRow(s)
    <3>1. UNCHANGED docs
        BY <2>1, <2>2 DEF MarkDocumentChecked
    <3> QED BY <1>1, <3>1
  <2>3. CASE HasRow(s)
    <3>1. \A row \in Row : /\ Checked(row, e) \in Row /\ Checked(row, e).url = row.url
                           /\ Checked(row, e).status = "active" /\ Checked(row, e).missing = 0
      <4>1. \A row \in Row : Checked(row, e) \in Row
          BY <2>1, CheckedIsRow
      <4>2. \A row \in Row : /\ Checked(row, e).url = row.url
                             /\ Checked(row, e).status = "active" /\ Checked(row, e).missing = 0
          BY DEF Checked, Row
      <4> QED BY <4>1, <4>2
    <3>2. docs[s] \in Row /\ docs' = [docs EXCEPT ![s] = Checked(docs[s], e)]
        BY <2>1, <2>3 DEF MarkDocumentChecked, HasRow, IndexTypeOK
    <3>3. docs'[s] = Checked(docs[s], e) /\ \A k \in Keys \ {s} : docs'[k] = docs[k]
        BY <2>1, <3>2 DEF IndexTypeOK
    <3>4. docs[s].url = s /\ \A k \in Keys \ {s} : HasRow(k) => docs[k].url # s
        BY <2>1, <2>3 DEF DerivedKeys, Migrated
    <3>5. docs'[s] # NoRow
        BY <3>1, <3>2, <3>3, NoRowAssumption
    <3>6. Lifecycle!Confirm(s)
        BY <2>1, <3>1, <3>2, <3>3, <3>4, <3>5, ActiveRowConfirms
    <3> QED BY <2>1, <3>6
  <2> QED BY <2>2, <2>3
<1>5. ASSUME NEW p \in Syncers, Publish(p) PROVE \E s \in Sources : Lifecycle!Confirm(s)
  <2> DEFINE s == task[p].on
             row == [url |-> s, body |-> task[p].got.body, etag |-> task[p].got.etag,
                     status |-> "active", missing |-> 0]
  <2>1. s \in Sources /\ task[p].got.body \in Bodies /\ task[p].got.etag \in Tags /\ Migrated(s)
      BY <1>5 DEF Publish, Unmodified, TaskOK, Answer, MigratedBeforePublished
  <2>2. row \in Row /\ row # NoRow /\ row.url = s /\ row.status = "active" /\ row.missing = 0
      BY <2>1, NoRowAssumption DEF Row
  <2>3. docs' = [docs EXCEPT ![s] = row]
      BY <1>5 DEF Publish, PublishDocument
  <2> HIDE DEF s, row
  <2>4. docs'[s] = row /\ \A k \in Keys \ {s} : docs'[k] = docs[k]
      BY <2>1, <2>3 DEF IndexTypeOK
  <2>5. /\ HasRow(s) => docs[s].url = s
        /\ \A k \in Keys \ {s} : HasRow(k) => docs[k].url # s
      BY <2>1 DEF DerivedKeys, Migrated
  <2>6. Lifecycle!Confirm(s)
      BY <2>1, <2>2, <2>4, <2>5, ActiveRowConfirms
  <2> QED BY <2>1, <2>6
<1> QED BY <1>1, <1>2, <1>3, <1>4, <1>5, TableSteps

LEMMA NextPhase ==
    TypeInv /\ TypeInv' /\ IdentityInv /\ IdentityInv' /\ [Next]_vars => [Lifecycle!Next]_phase
<1> SUFFICES ASSUME TypeInv, TypeInv', IdentityInv, IdentityInv', [Next]_vars
             PROVE  [Lifecycle!Next]_phase
    OBVIOUS
<1>1. \A p \in Syncers : FoundIn(p, task[p].on) \in SUBSET Sources
    BY DEF FoundIn, TypeInv, TypeOK, Run
<1> QED BY <1>1, PhaseSteps DEF Lifecycle!Next

\* The sync implements the lifecycle it promises for its sources, for any number
\* of overlapping syncs.
THEOREM SyncImplementsLifecycle == Spec => ImplementsLifecycle
<1>1. Spec => []TypeInv
    BY InitTypeInv, NextTypeInv, PTL DEF Spec
<1>2. Spec => []IdentityInv
    BY <1>1, InitIdentities, NextIdentities, PTL DEF Spec
<1> QED BY <1>1, <1>2, InitPhase, NextPhase, PTL DEF Spec, ImplementsLifecycle, Lifecycle!Spec

-----------------------------------------------------------------------------
(* The course of a run.  A run discovers, then reconciles, then syncs; and *)
(* whatever it has found is at each time waiting, in hand, reported as     *)
(* failed, or done.                                                        *)

InOrder(p) ==
    /\ stage[p] = "idle" => run[p] = NoRun
    /\ stage[p] = "identified" => task[p].on \in run[p].toReconcile
    /\ stage[p] \in {"identified", "fetching", "storing"} => run[p].toDiscover = {}
    /\ stage[p] \in {"fetching", "storing"} =>
          run[p].toReconcile = {} /\ task[p].on \in run[p].found
    /\ run[p].done # {} => run[p].toDiscover = {} /\ run[p].toReconcile = {}
    /\ run[p].ready \subseteq run[p].found

Accounted(p) ==
    \A s \in run[p].found :
        \/ CatalogOf[s] \in run[p].toReconcile \/ CatalogOf[s] \in run[p].failed
        \/ s \in run[p].ready \/ s \in run[p].failed \/ s \in run[p].done
        \/ stage[p] \in {"fetching", "storing"} /\ task[p].on = s

RunInv == \A p \in Syncers : InOrder(p) /\ Accounted(p)

\* What each step of a syncer makes of its run.
RunKept(p) ==
    /\ run'[p].force = run[p].force
    /\ run'[p].found = run[p].found
    /\ run'[p].entry = run[p].entry

StartStep(p) ==
    /\ Start(p)
    /\ run'[p].toReconcile = {} /\ run'[p].found = {}
    /\ run'[p].ready = {} /\ run'[p].failed = {} /\ run'[p].done = {}
    /\ stage'[p] = "running"

DiscoverStep(p, c) ==
    /\ DiscoverCatalog(p, c)
    /\ c \in run[p].toDiscover
    /\ run'[p].toDiscover = run[p].toDiscover \ {c}
    /\ run'[p].toReconcile = run[p].toReconcile \cup {c}
    /\ run'[p].found = run[p].found \cup {s \in listed : CatalogOf[s] = c}
    /\ run'[p].entry = [l \in Links |-> IF l \in {s \in listed : CatalogOf[s] = c} THEN site[l]
                                        ELSE run[p].entry[l]]
    /\ run'[p].ready = run[p].ready /\ run'[p].failed = run[p].failed
    /\ run'[p].done = run[p].done
    /\ stage[p] = "running" /\ stage'[p] = "running"

CatalogFailsStep(p, c) ==
    /\ DiscoverCatalogFails(p, c) \/ ReconcileFails(p, c)
    /\ RunKept(p)
    /\ run'[p].toDiscover \subseteq run[p].toDiscover
    /\ run'[p].toReconcile \in {run[p].toReconcile, run[p].toReconcile \ {c}}
    /\ run'[p].ready = run[p].ready /\ run'[p].failed = run[p].failed \cup {c}
    /\ run'[p].done = run[p].done
    /\ stage'[p] = "running"

IdentitiesStep(p, c) ==
    /\ ReconcileIdentities(p, c)
    /\ c \in run[p].toReconcile /\ run[p].toDiscover = {}
    /\ run'[p] = run[p]
    /\ stage[p] = "running" /\ stage'[p] = "identified" /\ task'[p].on = c

PresenceStep(p) ==
    /\ ReconcilePresence(p) /\ RunKept(p)
    /\ run'[p].toDiscover = run[p].toDiscover
    /\ run'[p].toReconcile = run[p].toReconcile \ {task[p].on}
    /\ run'[p].ready = run[p].ready \cup FoundIn(p, task[p].on)
    /\ run'[p].failed = run[p].failed /\ run'[p].done = run[p].done
    /\ stage[p] = "identified" /\ stage'[p] = "running"

ReadStep(p, s) ==
    /\ ReadState(p, s) /\ RunKept(p)
    /\ s \in run[p].ready /\ run[p].toDiscover = {} /\ run[p].toReconcile = {}
    /\ run'[p].toDiscover = {} /\ run'[p].toReconcile = {}
    /\ run'[p].ready = run[p].ready \ {s} /\ run'[p].failed = run[p].failed
    /\ run'[p].done = run[p].done
    /\ stage[p] = "running" /\ stage'[p] \in {"fetching", "storing"} /\ task'[p].on = s

FetchStep(p) ==
    /\ FetchNotModified(p) \/ FetchPage(p)
    /\ run'[p] = run[p]
    /\ stage[p] = "fetching" /\ stage'[p] = "storing" /\ task'[p].on = task[p].on

StoreStep(p) ==
    /\ MarkChecked(p) \/ Publish(p)
    /\ RunKept(p)
    /\ run'[p].toDiscover = run[p].toDiscover /\ run'[p].toReconcile = run[p].toReconcile
    /\ run'[p].ready = run[p].ready /\ run'[p].failed = run[p].failed
    /\ run'[p].done = run[p].done \cup {task[p].on}
    /\ stage[p] = "storing" /\ stage'[p] = "running"

SourceFailsStep(p) ==
    /\ SourceFails(p) /\ RunKept(p)
    /\ run'[p].toDiscover = run[p].toDiscover /\ run'[p].toReconcile = run[p].toReconcile
    /\ run'[p].ready = run[p].ready /\ run'[p].failed = run[p].failed \cup {task[p].on}
    /\ run'[p].done = run[p].done
    /\ stage[p] \in {"fetching", "storing"} /\ stage'[p] = "running"

EndStep(p) ==
    /\ Finish(p) \/ Crash(p)
    /\ run'[p] = NoRun /\ stage'[p] = "idle"

RunStep(p) ==
    \/ StartStep(p)
    \/ \E c \in Catalogs : DiscoverStep(p, c) \/ CatalogFailsStep(p, c) \/ IdentitiesStep(p, c)
    \/ PresenceStep(p)
    \/ \E s \in Sources : ReadStep(p, s)
    \/ FetchStep(p) \/ StoreStep(p) \/ SourceFailsStep(p)
    \/ EndStep(p)

SyncerKept(p) == stage'[p] = stage[p] /\ run'[p] = run[p] /\ task'[p] = task[p]

LEMMA RunSteps ==
    ASSUME TypeInv, [Next]_vars, NEW p \in Syncers
    PROVE  \/ RunStep(p)
           \/ SyncerKept(p) /\ (UNCHANGED <<index, syncers>> \/ \E q \in Syncers : q # p)
<1> USE DEF TypeInv, TypeOK
<1>1. ASSUME Start(p) PROVE RunStep(p)
  <2>1. PICK force \in BOOLEAN :
            run' = [run EXCEPT ![p] = [NoRun EXCEPT !.force = force, !.toDiscover = Catalogs]]
      BY <1>1 DEF Start
  <2>2. stage'[p] = "running" /\ task'[p] = task[p]
      BY <1>1 DEF Start
  <2>3. run'[p] = [NoRun EXCEPT !.force = force, !.toDiscover = Catalogs]
      BY <2>1
  <2> QED BY <1>1, <2>2, <2>3 DEF RunStep, NoRun, StartStep
<1>2. ASSUME NEW c \in Catalogs, DiscoverCatalog(p, c) PROVE RunStep(p)
  <2> DEFINE entry == [l \in Links |-> IF l \in {s \in listed : CatalogOf[s] = c} THEN site[l]
                                       ELSE run[p].entry[l]]
  <2>1. run' = [run EXCEPT ![p].toDiscover = @ \ {c},
                           ![p].toReconcile = @ \cup {c},
                           ![p].found = @ \cup {s \in listed : CatalogOf[s] = c},
                           ![p].entry = entry]
      BY <1>2 DEF DiscoverCatalog
  <2> HIDE DEF entry
  <2>2. /\ run'[p].toDiscover = run[p].toDiscover \ {c}
        /\ run'[p].toReconcile = run[p].toReconcile \cup {c}
      BY <2>1 DEF Run
  <2>3. run'[p].found = run[p].found \cup {s \in listed : CatalogOf[s] = c}
      BY <2>1 DEF Run
  <2>4. run'[p].ready = run[p].ready /\ run'[p].failed = run[p].failed /\ run'[p].done = run[p].done
      BY <2>1 DEF Run
  <2>5. c \in run[p].toDiscover /\ stage[p] = "running" /\ stage'[p] = "running"
      BY <1>2 DEF DiscoverCatalog
  <2>6. run'[p].entry = entry
      BY <2>1 DEF Run
  <2> QED BY <1>2, <2>2, <2>3, <2>4, <2>5, <2>6 DEF RunStep, DiscoverStep, entry
<1>3. ASSUME NEW c \in Catalogs, DiscoverCatalogFails(p, c) PROVE RunStep(p)
  <2>1. run' = [run EXCEPT ![p].toDiscover = @ \ {c}, ![p].failed = @ \cup {c}]
      BY <1>3 DEF DiscoverCatalogFails
  <2>2. /\ run'[p].toDiscover = run[p].toDiscover \ {c} /\ run'[p].failed = run[p].failed \cup {c}
        /\ run'[p].toReconcile = run[p].toReconcile /\ run'[p].ready = run[p].ready
        /\ run'[p].done = run[p].done
      BY <2>1 DEF Run
  <2>3. RunKept(p)
      BY <2>1 DEF Run, RunKept
  <2> QED BY <1>3, <2>2, <2>3 DEF RunStep, DiscoverCatalogFails, CatalogFailsStep
<1>4. ASSUME NEW c \in Catalogs, ReconcileIdentities(p, c) PROVE RunStep(p)
    BY <1>4 DEF ReconcileIdentities, RunStep, Task, IdentitiesStep
<1>5. ASSUME ReconcilePresence(p) PROVE RunStep(p)
  <2>1. run' = [run EXCEPT ![p].toReconcile = @ \ {task[p].on},
                           ![p].ready = @ \cup FoundIn(p, task[p].on)]
      BY <1>5 DEF ReconcilePresence
  <2>2. /\ run'[p].toDiscover = run[p].toDiscover /\ run'[p].failed = run[p].failed
        /\ run'[p].toReconcile = run[p].toReconcile \ {task[p].on} /\ run'[p].done = run[p].done
        /\ run'[p].ready = run[p].ready \cup FoundIn(p, task[p].on)
      BY <2>1 DEF Run
  <2>3. RunKept(p)
      BY <2>1 DEF Run, RunKept
  <2> QED BY <1>5, <2>2, <2>3 DEF RunStep, ReconcilePresence, PresenceStep
<1>6. ASSUME NEW c \in Catalogs, ReconcileFails(p, c) PROVE RunStep(p)
  <2>1. run' = [run EXCEPT ![p].toReconcile = @ \ {c}, ![p].failed = @ \cup {c}]
      BY <1>6 DEF ReconcileFails
  <2>2. /\ run'[p].toDiscover = run[p].toDiscover /\ run'[p].failed = run[p].failed \cup {c}
        /\ run'[p].toReconcile = run[p].toReconcile \ {c} /\ run'[p].done = run[p].done
        /\ run'[p].ready = run[p].ready
      BY <2>1 DEF Run
  <2>3. RunKept(p)
      BY <2>1 DEF Run, RunKept
  <2>4. stage'[p] = "running"
      BY <1>6 DEF ReconcileFails
  <2> QED BY <1>6, <2>2, <2>3, <2>4 DEF RunStep, CatalogFailsStep
<1>7. ASSUME NEW s \in Sources, ReadState(p, s) PROVE RunStep(p)
  <2>1. run' = [run EXCEPT ![p].ready = @ \ {s}]
      BY <1>7 DEF ReadState
  <2>2. /\ run'[p].toDiscover = run[p].toDiscover /\ run'[p].failed = run[p].failed
        /\ run'[p].toReconcile = run[p].toReconcile /\ run'[p].done = run[p].done
        /\ run'[p].ready = run[p].ready \ {s}
      BY <2>1 DEF Run
  <2>3. RunKept(p)
      BY <2>1 DEF Run, RunKept
  <2>4. /\ s \in run[p].ready /\ run[p].toDiscover = {} /\ run[p].toReconcile = {}
        /\ stage[p] = "running" /\ stage'[p] \in {"fetching", "storing"} /\ task'[p].on = s
      BY <1>7 DEF ReadState
  <2> QED BY <1>7, <2>2, <2>3, <2>4 DEF RunStep, ReadStep
<1>8. ASSUME FetchNotModified(p) \/ FetchPage(p) PROVE RunStep(p)
    BY <1>8 DEF FetchNotModified, FetchPage, RunStep, Task, FetchStep
<1>9. ASSUME MarkChecked(p) \/ Publish(p) PROVE RunStep(p)
  <2>1. run' = [run EXCEPT ![p].done = @ \cup {task[p].on}]
      BY <1>9 DEF MarkChecked, Publish, SourceDone
  <2>2. /\ run'[p].toDiscover = run[p].toDiscover /\ run'[p].failed = run[p].failed
        /\ run'[p].toReconcile = run[p].toReconcile /\ run'[p].ready = run[p].ready
        /\ run'[p].done = run[p].done \cup {task[p].on}
      BY <2>1 DEF Run
  <2>3. RunKept(p)
      BY <2>1 DEF Run, RunKept
  <2>4. stage[p] = "storing" /\ stage'[p] = "running"
      BY <1>9 DEF MarkChecked, Publish, SourceDone
  <2> QED BY <1>9, <2>2, <2>3, <2>4 DEF RunStep, StoreStep
<1>10. ASSUME SourceFails(p) PROVE RunStep(p)
  <2>1. run' = [run EXCEPT ![p].failed = @ \cup {task[p].on}]
      BY <1>10 DEF SourceFails
  <2>2. /\ run'[p].toDiscover = run[p].toDiscover /\ run'[p].done = run[p].done
        /\ run'[p].toReconcile = run[p].toReconcile /\ run'[p].ready = run[p].ready
        /\ run'[p].failed = run[p].failed \cup {task[p].on}
      BY <2>1 DEF Run
  <2>3. RunKept(p)
      BY <2>1 DEF Run, RunKept
  <2> QED BY <1>10, <2>2, <2>3 DEF RunStep, SourceFails, SourceFailsStep
<1>11. ASSUME Finish(p) \/ Crash(p) PROVE RunStep(p)
    BY <1>11 DEF Finish, Crash, RunStep, EndStep
<1>12. ASSUME NEW q \in Syncers \ {p}, Start(q) \/ Proceed(q) \/ Fail(q) \/ Crash(q)
       PROVE  SyncerKept(p)
  <2> USE DEF SyncerKept
  <2>1. ASSUME Start(q) \/ Crash(q) \/ Fail(q) PROVE SyncerKept(p)
      BY <1>12, <2>1 DEF Start, Crash, Fail, DiscoverCatalogFails, ReconcileFails, SourceFails
  <2>2. ASSUME NEW c \in Catalogs, DiscoverCatalog(q, c) \/ ReconcileIdentities(q, c)
        PROVE  SyncerKept(p)
      BY <1>12, <2>2 DEF DiscoverCatalog, ReconcileIdentities
  <2>3. ASSUME ReconcilePresence(q) \/ FetchNotModified(q) \/ FetchPage(q) \/ Finish(q)
        PROVE  SyncerKept(p)
      BY <1>12, <2>3 DEF ReconcilePresence, FetchNotModified, FetchPage, Finish
  <2>4. ASSUME MarkChecked(q) \/ Publish(q) PROVE SyncerKept(p)
      BY <1>12, <2>4 DEF MarkChecked, Publish, SourceDone
  <2>5. ASSUME NEW s \in Sources, ReadState(q, s) PROVE SyncerKept(p)
      BY <1>12, <2>5 DEF ReadState
  <2> QED BY <1>12, <2>1, <2>2, <2>3, <2>4, <2>5 DEF Proceed
<1>13. ASSUME NEW s \in Sources, ChangePage(s) \/ ChangeListing(s)
       PROVE  SyncerKept(p) /\ UNCHANGED <<index, syncers>>
    BY <1>13 DEF ChangePage, ChangeListing, syncers, SyncerKept
<1>14. ASSUME UNCHANGED vars PROVE SyncerKept(p) /\ UNCHANGED <<index, syncers>>
    BY <1>14 DEF vars, syncers, index, SyncerKept
<1> QED BY <1>1, <1>2, <1>3, <1>4, <1>5, <1>6, <1>7, <1>8, <1>9, <1>10, <1>11, <1>12,
           <1>13, <1>14 DEF Next, Proceed, Fail

LEMMA NextRun == TypeInv /\ RunInv /\ [Next]_vars => RunInv'
<1> SUFFICES ASSUME TypeInv, RunInv, [Next]_vars, NEW p \in Syncers
             PROVE  InOrder(p)' /\ Accounted(p)'
    BY DEF RunInv
<1> InOrder(p) /\ Accounted(p)
    BY DEF RunInv
<1> run[p].found \in SUBSET Sources /\ run[p].ready \in SUBSET Sources
    BY DEF TypeInv, TypeOK, Run
<1>1. CASE StartStep(p)
    BY <1>1 DEF StartStep, InOrder, Accounted
<1>2. ASSUME NEW c \in Catalogs, DiscoverStep(p, c) PROVE InOrder(p)' /\ Accounted(p)'
    BY <1>2 DEF DiscoverStep, InOrder, Accounted
<1>3. ASSUME NEW c \in Catalogs, CatalogFailsStep(p, c) PROVE InOrder(p)' /\ Accounted(p)'
  <2>1. InOrder(p)'
      BY <1>3 DEF CatalogFailsStep, RunKept, InOrder
  <2>2. stage[p] \notin {"fetching", "storing"}
      BY <1>3 DEF CatalogFailsStep, DiscoverCatalogFails, ReconcileFails
  <2>3. Accounted(p)'
      BY <1>3, <2>2 DEF CatalogFailsStep, RunKept, Accounted
  <2> QED BY <2>1, <2>3
<1>4. ASSUME NEW c \in Catalogs, IdentitiesStep(p, c) PROVE InOrder(p)' /\ Accounted(p)'
    BY <1>4 DEF IdentitiesStep, InOrder, Accounted
<1>5. CASE PresenceStep(p)
  <2>1. InOrder(p)'
      BY <1>5 DEF PresenceStep, RunKept, InOrder, FoundIn
  <2>2. Accounted(p)'
      BY <1>5 DEF PresenceStep, RunKept, Accounted, FoundIn
  <2> QED BY <2>1, <2>2
<1>6. ASSUME NEW s \in Sources, ReadStep(p, s) PROVE InOrder(p)' /\ Accounted(p)'
    BY <1>6 DEF ReadStep, RunKept, InOrder, Accounted
<1>7. CASE FetchStep(p)
    BY <1>7 DEF FetchStep, InOrder, Accounted
<1>8. CASE StoreStep(p)
    BY <1>8 DEF StoreStep, RunKept, InOrder, Accounted
<1>9. CASE SourceFailsStep(p)
    BY <1>9 DEF SourceFailsStep, RunKept, InOrder, Accounted
<1>10. CASE EndStep(p)
    BY <1>10 DEF EndStep, NoRun, InOrder, Accounted
<1>11. CASE SyncerKept(p)
    BY <1>11 DEF SyncerKept, InOrder, Accounted
<1> QED BY <1>1, <1>2, <1>3, <1>4, <1>5, <1>6, <1>7, <1>8, <1>9, <1>10, <1>11, RunSteps DEF RunStep

LEMMA InitRun == Init => RunInv
BY DEF Init, RunInv, InOrder, Accounted, NoRun

-----------------------------------------------------------------------------
(* What a run has done is there when it ends, as long as syncs do not      *)
(* overlap: presence is reconciled before the first source is stored.      *)

IsCurrent(row) == row # NoRow /\ row.status = "active" /\ row.missing = 0

DoneInv ==
    \A p \in Syncers :
        /\ \A s \in run[p].done : s \in Sources /\ IsCurrent(docs[s])
        /\ stage[p] # "idle" => lastRun.owner = p

\* A source that is stored has a row that may be retrieved, and no other row
\* is touched.  Without a row there is nothing that could be left unmodified.
LEMMA StoreMakesCurrent ==
    ASSUME TypeInv, EtagInv, NEW p \in Syncers, MarkChecked(p) \/ Publish(p)
    PROVE  /\ task[p].on \in Sources
           /\ IsCurrent(docs'[task[p].on])
           /\ docs'[task[p].on].body = IF Unmodified(p) THEN task[p].seen.body ELSE task[p].got.body
           /\ \A k \in Keys \ {task[p].on} : docs'[k] = docs[k]
           /\ lastRun' = lastRun
<1> USE DEF TypeInv, TypeOK, IndexTypeOK
<1> DEFINE s == task[p].on
           e == task[p].got.etag
<1>1. s \in Sources /\ e \in Tags /\ task[p].seen = docs[s] /\ GotSound(p)
    BY DEF MarkChecked, Publish, TaskOK, Answer, EtagInv, SeenIsCurrent
<1>2. CASE MarkChecked(p)
  <2>1. docs[s] \in Row
      BY <1>1, <1>2 DEF MarkChecked, Unmodified, GotSound
  <2>2. HasRow(s) /\ MarkDocumentChecked(s, e)
      BY <1>2, <2>1, NoRowAssumption DEF MarkChecked, HasRow
  <2> HIDE DEF s, e
  <2>3. docs' = [docs EXCEPT ![s] = Checked(docs[s], e)] /\ lastRun' = lastRun
      BY <2>2 DEF MarkDocumentChecked
  <2>4. Checked(docs[s], e) # NoRow
      BY <1>1, <2>1, CheckedIsRow, NoRowAssumption
  <2>5. /\ Checked(docs[s], e).status = "active" /\ Checked(docs[s], e).missing = 0
        /\ Checked(docs[s], e).body = docs[s].body
      BY <2>1 DEF Checked, Row
  <2>6. docs'[s] = Checked(docs[s], e) /\ \A k \in Keys \ {s} : docs'[k] = docs[k]
      BY <1>1, <2>3
  <2>7. Unmodified(p)
      BY <1>2 DEF MarkChecked
  <2> QED BY <1>1, <2>3, <2>4, <2>5, <2>6, <2>7 DEF IsCurrent, s
<1>3. CASE Publish(p)
  <2>1. task[p].got.body \in Bodies /\ PublishDocument(s, task[p].got.body, e)
      BY <1>3 DEF Publish, Unmodified, TaskOK, Answer
  <2> HIDE DEF s, e
  <2> DEFINE row == [url |-> s, body |-> task[p].got.body, etag |-> e,
                     status |-> "active", missing |-> 0]
  <2>2. docs' = [docs EXCEPT ![s] = row] /\ lastRun' = lastRun
      BY <2>1 DEF PublishDocument
  <2>3. row \in Row /\ IsCurrent(row)
      BY <1>1, <2>1, NoRowAssumption DEF Row, IsCurrent
  <2> HIDE DEF row
  <2>4. docs'[s] = row /\ \A k \in Keys \ {s} : docs'[k] = docs[k]
      BY <1>1, <2>2
  <2>5. ~Unmodified(p) /\ docs'[s].body = task[p].got.body
      BY <1>3, <2>4 DEF Publish, row
  <2> QED BY <1>1, <2>2, <2>3, <2>4, <2>5 DEF s
<1> QED BY <1>2, <1>3

LEMMA InitDone == Init => DoneInv
BY DEF Init, DoneInv, NoRun

LEMMA NextDone ==
    ASSUME \A p, q \in Syncers : p = q
    PROVE  TypeInv /\ EtagInv /\ RunInv /\ DoneInv /\ [Next]_vars => DoneInv'
<1> SUFFICES ASSUME TypeInv, EtagInv, RunInv, DoneInv, [Next]_vars, NEW p \in Syncers
             PROVE  /\ \A s \in run'[p].done : s \in Sources /\ IsCurrent(docs'[s])
                    /\ stage'[p] # "idle" => lastRun'.owner = p
    BY DEF DoneInv
<1> DEFINE Goal == /\ \A s \in run'[p].done : s \in Sources /\ IsCurrent(docs'[s])
                   /\ stage'[p] # "idle" => lastRun'.owner = p
<1>1. /\ \A s \in run[p].done : s \in Sources /\ IsCurrent(docs[s])
      /\ stage[p] # "idle" => lastRun.owner = p
    BY DEF DoneInv
<1>2. InOrder(p)
    BY DEF RunInv
<1>3. CASE StartStep(p)
    BY <1>3 DEF StartStep, Start, StartRun
<1>4. ASSUME NEW c \in Catalogs, DiscoverStep(p, c) \/ CatalogFailsStep(p, c) PROVE Goal
    BY <1>1, <1>4 DEF DiscoverStep, CatalogFailsStep, DiscoverCatalog, DiscoverCatalogFails,
                      ReconcileFails, index
<1>5. ASSUME NEW c \in Catalogs, IdentitiesStep(p, c) PROVE Goal
  <2>1. run'[p].done = {}
      BY <1>2, <1>5 DEF IdentitiesStep, InOrder
  <2>2. lastRun' = lastRun
      BY <1>5 DEF IdentitiesStep, ReconcileIdentities, ReconcileSourceIdentities
  <2> QED BY <1>1, <1>5, <2>1, <2>2 DEF IdentitiesStep
<1>6. CASE PresenceStep(p)
  <2>1. run'[p].done = {}
      BY <1>2, <1>6 DEF PresenceStep, InOrder
  <2>2. lastRun' = lastRun
      BY <1>6 DEF PresenceStep, ReconcilePresence, ReconcileCatalogPresence
  <2> QED BY <1>1, <1>6, <2>1, <2>2 DEF PresenceStep
<1>7. ASSUME NEW s \in Sources, ReadStep(p, s) PROVE Goal
    BY <1>1, <1>7 DEF ReadStep, ReadState, index
<1>8. CASE FetchStep(p)
    BY <1>1, <1>8 DEF FetchStep, FetchNotModified, FetchPage, index
<1>9. CASE StoreStep(p)
  <2>1. /\ run'[p].done = run[p].done \cup {task[p].on} /\ stage[p] = "storing"
        /\ MarkChecked(p) \/ Publish(p)
      BY <1>9 DEF StoreStep
  <2>2. /\ task[p].on \in Sources
        /\ IsCurrent(docs'[task[p].on])
        /\ \A k \in Keys \ {task[p].on} : docs'[k] = docs[k]
        /\ lastRun' = lastRun
      BY <2>1, StoreMakesCurrent
  <2> QED BY <1>1, <2>1, <2>2
<1>10. CASE SourceFailsStep(p)
    BY <1>1, <1>10 DEF SourceFailsStep, SourceFails, index
<1>11. CASE EndStep(p)
    BY <1>11 DEF EndStep, NoRun
<1>12. CASE UNCHANGED <<index, syncers>>
    BY <1>1, <1>12 DEF index, syncers
<1> QED BY <1>3, <1>4, <1>5, <1>6, <1>7, <1>8, <1>9, <1>10, <1>11, <1>12, RunSteps DEF RunStep

\* A content that is stored has a chunk.
LEMMA ContentHasChunk == \A b \in Bodies : ChunksOf(b) # {}
<1> SUFFICES ASSUME NEW b \in Bodies PROVE <<b, 0>> \in ChunksOf(b)
    OBVIOUS
<1>1. ChunkCount[b] \in Nat \ {0}
    BY ContentAssumption
<1>2. 0 \in 0..(ChunkCount[b] - 1)
    BY <1>1
<1> QED BY <1>2 DEF ChunksOf

\* The run that ends with something done is the latest one, its status is one
\* that may be retrieved with, and what it has done is active and has chunks.
LEMMA UsefulFinish ==
    ASSUME TypeInv, ChunksDescribeBody, DoneInv, NEW p \in Syncers, Finish(p), run[p].done # {}
    PROVE  Queryable'
<1> USE DEF TypeInv, TypeOK, IndexTypeOK
<1>1. PICK s \in run[p].done : s \in Sources /\ IsCurrent(docs[s])
    BY DEF DoneInv
<1>2. docs' = docs /\ chunks' = chunks
    BY DEF Finish
<1>3. HasRow(s) /\ docs[s] \in Row /\ docs[s].status = "active"
    BY <1>1 DEF IsCurrent, HasRow
<1>4. chunks[s] # {}
    BY <1>1, <1>3, ContentHasChunk DEF ChunksDescribeBody, Row
<1>5. lastRun.owner = p
    BY DEF DoneInv, Finish, Finished
<1>6. lastRun'.status \in {"succeeded", "partial"}
    BY <1>5 DEF Finish, FinishRun, RunStatus
<1>7. s \in ActiveKeys' /\ chunks'[s] # {}
    BY <1>1, <1>2, <1>3, <1>4 DEF ActiveKeys, HasRow
<1> QED BY <1>6, <1>7 DEF Queryable

\* With one sync at a time, a run that published or checked a source leaves an
\* index that can be retrieved from.
THEOREM UsefulRunAlwaysLeavesIndexQueryable ==
    ASSUME \A p, q \in Syncers : p = q
    PROVE  Spec => UsefulRunLeavesIndexQueryable
<1>1. Spec => []TypeInv
    BY InitTypeInv, NextTypeInv, PTL DEF Spec
<1>2. TypeInv /\ EtagInv /\ [Next]_vars => EtagInv'
    BY NextEtag
<1>3. TypeInv /\ EtagInv /\ RunInv /\ DoneInv /\ [Next]_vars => DoneInv'
    BY NextDone
<1>4. Spec => [](EtagInv /\ RunInv /\ DoneInv)
    BY <1>1, <1>2, <1>3, InitEtag, InitRun, NextRun, InitDone, PTL DEF Spec
<1>5. Spec => []ChunksDescribeBody
    BY <1>1, InitChunks, NextChunks, PTL DEF Spec
<1>6. TypeInv /\ ChunksDescribeBody /\ DoneInv /\ [Next]_vars =>
          [\A p \in Syncers : Finish(p) /\ run[p].done # {} => Queryable']_vars
    BY UsefulFinish
<1> QED BY <1>1, <1>4, <1>5, <1>6, PTL DEF Spec, UsefulRunLeavesIndexQueryable

-----------------------------------------------------------------------------
(* What the web sites did during a run.                                    *)

FreshAnswer(p) ==
    LET kept == IF task[p].got.modified THEN task[p].got.body ELSE task[p].seen.body
    IN  kept = BodyOf[site[task[p].on]]

\* What a syncer holds and has stored of a source is what its page has, unless
\* the page has changed since the run began.
Fresh(p) ==
    /\ \A l \in run[p].found \cap Links : l \notin moved[p] => run[p].entry[l] = site[l]
    /\ stage[p] = "storing" /\ task[p].on \notin moved[p] => FreshAnswer(p)
    /\ \A s \in run[p].done : s \notin moved[p] => docs[s].body = BodyOf[site[s]]

FreshInv == \A p \in Syncers : Fresh(p)

LEMMA HistorySteps ==
    ASSUME HistoryNext, NEW p \in Syncers, stage'[p] # "idle"
    PROVE  /\ moved[p] \subseteq moved'[p]
           /\ \A s \in Sources : s \notin moved'[p] => site'[s] = site[s]
           /\ gone[p] \subseteq gone'[p]
           /\ \A s \in Sources : s \notin listed' => s \in gone'[p]
BY DEF HistoryNext

LEMMA InitFresh == Init => FreshInv
BY DEF Init, FreshInv, Fresh, NoRun

LEMMA NextFresh ==
    ASSUME \A p, q \in Syncers : p = q
    PROVE  TypeInv /\ EtagInv /\ RunInv /\ DoneInv /\ FreshInv /\ [HistoryNext]_historyVars
               => FreshInv'
<1> SUFFICES ASSUME TypeInv, EtagInv, RunInv, DoneInv, FreshInv, [HistoryNext]_historyVars,
                    NEW p \in Syncers
             PROVE  Fresh(p)'
    BY DEF FreshInv
<1> InOrder(p) /\ Fresh(p)
    BY DEF RunInv, FreshInv
<1>1. CASE UNCHANGED historyVars
    BY <1>1 DEF historyVars, Fresh, FreshAnswer
<1> SUFFICES ASSUME HistoryNext PROVE Fresh(p)'
    BY <1>1
<1>2. [Next]_vars
    BY DEF HistoryNext
<1>3. CASE stage'[p] = "idle"
  <2>1. run'[p] = NoRun
      BY <1>2, <1>3, NextRun DEF RunInv, InOrder
  <2> QED BY <1>3, <2>1 DEF Fresh, NoRun
<1> SUFFICES ASSUME stage'[p] # "idle" PROVE Fresh(p)'
    BY <1>3
<1>4. \A s \in Sources : s \notin moved'[p] => s \notin moved[p] /\ site'[s] = site[s]
    BY HistorySteps
<1> DEFINE Links1 == \A l \in run'[p].found \cap Links : l \notin moved'[p] => run'[p].entry[l] = site'[l]
           Done1 == \A s \in run'[p].done : s \notin moved'[p] => docs'[s].body = BodyOf[site'[s]]
\* Most steps find nothing, touch no row and have nothing to store.
<1>5. ASSUME RunKept(p) \/ run'[p] = run[p] PROVE Links1
    BY <1>4, <1>5, LinksAssumption DEF RunKept, Fresh
<1>6. ASSUME UNCHANGED docs, run'[p].done = run[p].done PROVE Done1
    BY <1>4, <1>6 DEF DoneInv, Fresh
<1>7. ASSUME run'[p].done = {} PROVE Done1
    BY <1>7
<1>8. CASE StartStep(p)
    BY <1>8 DEF StartStep, Fresh
<1>9. ASSUME NEW c \in Catalogs, DiscoverStep(p, c) PROVE Fresh(p)'
  <2>1. /\ UNCHANGED <<docs, site>> /\ run'[p].done = run[p].done /\ stage'[p] = "running"
        /\ run'[p].found = run[p].found \cup {s \in listed : CatalogOf[s] = c}
      BY <1>9 DEF DiscoverStep, DiscoverCatalog, index, world
  <2>2. \A l \in Links : run'[p].entry[l] = IF l \in {s \in listed : CatalogOf[s] = c} THEN site[l]
                                            ELSE run[p].entry[l]
      BY <1>9 DEF DiscoverStep
  <2>3. Links1
      BY <1>4, <2>1, <2>2, LinksAssumption DEF Fresh
  <2> QED BY <1>6, <2>1, <2>3 DEF Fresh
<1>10. ASSUME NEW c \in Catalogs, CatalogFailsStep(p, c) PROVE Fresh(p)'
  <2>1. /\ UNCHANGED docs /\ run'[p].done = run[p].done /\ stage'[p] = "running" /\ RunKept(p)
      BY <1>10 DEF CatalogFailsStep, DiscoverCatalogFails, ReconcileFails, index
  <2> QED BY <1>5, <1>6, <2>1 DEF Fresh
<1>11. ASSUME NEW c \in Catalogs, IdentitiesStep(p, c) PROVE Fresh(p)'
  <2>1. run'[p].done = {} /\ stage'[p] = "identified" /\ run'[p] = run[p]
      BY <1>11 DEF IdentitiesStep, InOrder
  <2> QED BY <1>5, <1>7, <2>1 DEF Fresh
<1>12. CASE PresenceStep(p)
  <2>1. run'[p].done = {} /\ stage'[p] = "running" /\ RunKept(p)
      BY <1>12 DEF PresenceStep, InOrder
  <2> QED BY <1>5, <1>7, <2>1 DEF Fresh
<1>13. ASSUME NEW s \in Sources, ReadStep(p, s) PROVE Fresh(p)'
  <2>1. /\ UNCHANGED docs /\ run'[p].done = run[p].done /\ RunKept(p)
        /\ s \in run[p].found /\ ReadState(p, s)
      BY <1>13 DEF ReadStep, InOrder, ReadState, index
  <2>2. ASSUME stage'[p] = "storing", task'[p].on \notin moved'[p] PROVE FreshAnswer(p)'
    <3>1. s \in Links /\ \E v \in Versions :
              /\ v = run[p].entry[s]
              /\ task' = [task EXCEPT ![p] =
                    [on |-> s, seen |-> docs[s],
                     got |-> [modified |-> TRUE, body |-> BodyOf[v], etag |-> NoTag]]]
        BY <2>1, <2>2 DEF ReadState, TypeInv, TypeOK
    <3>2. task'[p] = [on |-> s, seen |-> docs[s],
                      got |-> [modified |-> TRUE, body |-> BodyOf[run[p].entry[s]], etag |-> NoTag]]
        BY <3>1 DEF TypeInv, TypeOK
    <3>3. run[p].entry[s] = site'[s]
        BY <1>4, <2>1, <2>2, <3>1, <3>2 DEF Fresh
    <3> QED BY <3>2, <3>3 DEF FreshAnswer
  <2> QED BY <1>5, <1>6, <2>1, <2>2 DEF Fresh
<1>14. CASE FetchStep(p)
  <2>1. /\ UNCHANGED <<docs, site>> /\ run'[p] = run[p] /\ stage[p] = "fetching"
        /\ FetchNotModified(p) \/ FetchPage(p)
      BY <1>14 DEF FetchStep, FetchNotModified, FetchPage, index, world
  <2>2. /\ task[p].on \in Sources /\ task[p].seen = docs[task[p].on]
        /\ task[p] \in Task /\ site[task[p].on] \in Versions
      BY <2>1 DEF TypeInv, TypeOK, TaskOK, EtagInv, SeenIsCurrent
  <2>3. CASE FetchNotModified(p)
    <3>1. task'[p] = [task[p] EXCEPT !.got = [modified |-> FALSE, etag |-> Condition(p)]]
        BY <2>3 DEF FetchNotModified, TypeInv, TypeOK
    <3>2. Condition(p) = site[task[p].on] /\ task[p].seen # NoRow /\ Condition(p) = task[p].seen.etag
        BY <2>3 DEF FetchNotModified, Condition
    <3>3. task[p].seen.body = BodyOf[site[task[p].on]]
        BY <2>2, <3>2, NoTagAssumption DEF EtagInv, EtagDescribesBody, HasRow
    <3>4. FreshAnswer(p)'
        BY <2>1, <2>2, <3>1, <3>3 DEF FreshAnswer, Task
    <3> QED BY <1>5, <1>6, <2>1, <3>4 DEF Fresh
  <2>4. CASE FetchPage(p)
    <3>1. PICK e : task'[p] = [task[p] EXCEPT !.got =
                                  [modified |-> TRUE, body |-> BodyOf[site[task[p].on]], etag |-> e]]
        BY <2>4 DEF FetchPage, TypeInv, TypeOK
    <3>2. FreshAnswer(p)'
        BY <2>1, <2>2, <3>1 DEF FreshAnswer, Task
    <3> QED BY <1>5, <1>6, <2>1, <3>2 DEF Fresh
  <2> QED BY <2>1, <2>3, <2>4
<1>15. CASE StoreStep(p)
  <2>1. /\ MarkChecked(p) \/ Publish(p)
        /\ RunKept(p) /\ run'[p].done = run[p].done \cup {task[p].on}
        /\ stage[p] = "storing" /\ stage'[p] = "running"
      BY <1>15 DEF StoreStep
  <2>2. /\ task[p].on \in Sources
        /\ docs'[task[p].on].body = IF Unmodified(p) THEN task[p].seen.body ELSE task[p].got.body
        /\ \A k \in Keys \ {task[p].on} : docs'[k] = docs[k]
      BY <2>1, StoreMakesCurrent
  <2>3. ASSUME task[p].on \notin moved'[p] PROVE docs'[task[p].on].body = BodyOf[site'[task[p].on]]
    <3>1. FreshAnswer(p)
        BY <1>4, <2>1, <2>2, <2>3 DEF Fresh
    <3>2. docs'[task[p].on].body = BodyOf[site[task[p].on]]
        BY <2>2, <3>1 DEF FreshAnswer, Unmodified
    <3> QED BY <1>4, <2>2, <2>3, <3>2
  <2>4. \A s \in run[p].done : s \in Sources
      BY DEF DoneInv
  <2>5. Done1
      BY <1>4, <2>1, <2>2, <2>3, <2>4 DEF Fresh
  <2> QED BY <1>5, <2>1, <2>5 DEF Fresh
<1>16. CASE SourceFailsStep(p)
  <2>1. /\ UNCHANGED docs /\ run'[p].done = run[p].done /\ RunKept(p) /\ stage'[p] = "running"
      BY <1>16 DEF SourceFailsStep, SourceFails, index
  <2> QED BY <1>5, <1>6, <2>1 DEF Fresh
<1>17. CASE UNCHANGED <<index, syncers>>
  <2>1. UNCHANGED docs /\ run'[p] = run[p] /\ task'[p] = task[p] /\ stage'[p] = stage[p]
      BY <1>17 DEF index, syncers
  <2>2. stage[p] = "storing" /\ task[p].on \notin moved'[p] => FreshAnswer(p)'
      BY <1>4, <2>1 DEF Fresh, FreshAnswer, TypeInv, TaskOK
  <2> QED BY <1>5, <1>6, <2>1, <2>2 DEF Fresh
<1>18. CASE EndStep(p)
    BY <1>18 DEF EndStep
<1> QED BY <1>2, <1>8, <1>9, <1>10, <1>11, <1>12, <1>13, <1>14, <1>15, <1>16, <1>17, <1>18, RunSteps
        DEF RunStep

HistoryInv == TypeInv /\ EtagInv /\ RunInv /\ DoneInv /\ FreshInv /\ ChunksDescribeBody

LEMMA HistoryInvReports == HistoryInv => ReportedSourcesAreUpToDate
<1> SUFFICES ASSUME HistoryInv, NEW p \in Syncers, Finished(p), NEW s \in run[p].found
             PROVE  \/ s \in run[p].failed \/ CatalogOf[s] \in run[p].failed
                    \/ s \in moved[p] \/ UpToDate(s)
    BY DEF ReportedSourcesAreUpToDate
<1>1. s \in run[p].failed \/ CatalogOf[s] \in run[p].failed \/ s \in run[p].done
    BY DEF HistoryInv, RunInv, Accounted, Finished
<1>2. CASE s \in run[p].done /\ s \notin moved[p]
  <2>1. s \in Sources /\ IsCurrent(docs[s]) /\ docs[s].body = BodyOf[site[s]]
      BY <1>2 DEF HistoryInv, DoneInv, FreshInv, Fresh
  <2> QED BY <2>1 DEF HistoryInv, UpToDate, IsCurrent, HasRow, ChunksDescribeBody
<1> QED BY <1>1, <1>2

\* With one sync at a time, what a run lists and does not report as failed has,
\* when it ends, the content of its page, unless the page changed meanwhile.
THEOREM ReportedSourcesAreAlwaysUpToDate ==
    ASSUME \A p, q \in Syncers : p = q
    PROVE  HistorySpec => []ReportedSourcesAreUpToDate
<1>1. HistoryInit => HistoryInv
    BY InitTypeInv, InitEtag, InitRun, InitDone, InitFresh, InitChunks DEF HistoryInit, HistoryInv
<1>2. [HistoryNext]_historyVars => [Next]_vars
    BY DEF HistoryNext, historyVars, vars
<1>3. HistoryInv /\ [HistoryNext]_historyVars => HistoryInv'
    BY <1>2, NextTypeInv, NextEtag, NextRun, NextDone, NextFresh, NextChunks DEF HistoryInv
<1> QED BY <1>1, <1>3, HistoryInvReports, PTL DEF HistorySpec

-----------------------------------------------------------------------------
(* Absences.  What a syncer does not find in a catalog that it is going to *)
(* reconcile was unlisted when it read the catalog.                        *)

AbsentInv ==
    \A p \in Syncers, s \in Sources :
        CatalogOf[s] \in run[p].toReconcile => s \in run[p].found \/ s \in gone[p]

LEMMA InitAbsent == Init => AbsentInv
BY DEF Init, AbsentInv, NoRun

LEMMA NextAbsent ==
    TypeInv /\ RunInv /\ AbsentInv /\ [HistoryNext]_historyVars => AbsentInv'
<1> SUFFICES ASSUME TypeInv, RunInv, AbsentInv, [HistoryNext]_historyVars,
                    NEW p \in Syncers, NEW s \in Sources, CatalogOf[s] \in run'[p].toReconcile
             PROVE  s \in run'[p].found \/ s \in gone'[p]
    BY DEF AbsentInv
<1> CatalogOf[s] \in run[p].toReconcile => s \in run[p].found \/ s \in gone[p]
    BY DEF AbsentInv
<1>1. CASE UNCHANGED historyVars
    BY <1>1 DEF historyVars
<1> SUFFICES ASSUME HistoryNext PROVE s \in run'[p].found \/ s \in gone'[p]
    BY <1>1
<1>2. [Next]_vars
    BY DEF HistoryNext
<1>3. stage'[p] # "idle"
  <2>1. stage'[p] = "idle" => run'[p] = NoRun
      BY <1>2, NextRun DEF RunInv, InOrder
  <2> QED BY <2>1 DEF NoRun
<1>4. gone[p] \subseteq gone'[p] /\ (s \notin listed' => s \in gone'[p])
    BY <1>3, HistorySteps
<1>5. CASE StartStep(p)
    BY <1>5 DEF StartStep
<1>6. ASSUME NEW c \in Catalogs, DiscoverStep(p, c) PROVE s \in run'[p].found \/ s \in gone'[p]
    BY <1>4, <1>6 DEF DiscoverStep, DiscoverCatalog, world
<1>7. ASSUME NEW c \in Catalogs, CatalogFailsStep(p, c) PROVE s \in run'[p].found \/ s \in gone'[p]
    BY <1>4, <1>7 DEF CatalogFailsStep, RunKept
<1>8. ASSUME NEW c \in Catalogs, IdentitiesStep(p, c) PROVE s \in run'[p].found \/ s \in gone'[p]
    BY <1>4, <1>8 DEF IdentitiesStep
<1>9. CASE PresenceStep(p) \/ StoreStep(p) \/ SourceFailsStep(p)
    BY <1>4, <1>9 DEF PresenceStep, StoreStep, SourceFailsStep, RunKept
<1>10. ASSUME NEW t \in Sources, ReadStep(p, t) PROVE s \in run'[p].found \/ s \in gone'[p]
    BY <1>10 DEF ReadStep
<1>11. CASE FetchStep(p) \/ SyncerKept(p)
    BY <1>4, <1>11 DEF FetchStep, SyncerKept
<1>12. CASE EndStep(p)
    BY <1>12 DEF EndStep, NoRun
<1> QED BY <1>2, <1>5, <1>6, <1>7, <1>8, <1>9, <1>10, <1>11, <1>12, RunSteps DEF RunStep

AbsenceStep ==
    \A s \in Sources :
        \/ phase[s] = "active" /\ phase'[s] = "pending"
        \/ phase[s] # "disabled" /\ phase'[s] = "disabled"
        => \E p \in Syncers : stage[p] = "identified" /\ s \in gone[p]

LEMMA AbsenceSteps ==
    ASSUME TypeInv, TypeInv', IdentityInv, IdentityInv', RunInv, AbsentInv, [Next]_vars
    PROVE  AbsenceStep
<1> SUFFICES ASSUME NEW s \in Sources,
                    \/ phase[s] = "active" /\ phase'[s] = "pending"
                    \/ phase[s] # "disabled" /\ phase'[s] = "disabled"
             PROVE  \E p \in Syncers : stage[p] = "identified" /\ s \in gone[p]
    BY DEF AbsenceStep
<1>1. ~UNCHANGED phase
    OBVIOUS
<1>2. ~ \E t \in Sources : Lifecycle!Confirm(t)
    BY DEF Lifecycle!Confirm, phase
<1>3. PICK p \in Syncers : /\ stage[p] = "identified" /\ task[p].on \in Catalogs
                           /\ Lifecycle!Snapshot(task[p].on, FoundIn(p, task[p].on))
    BY <1>1, <1>2, PhaseSteps
<1>4. phase'[s] = IF CatalogOf[s] = task[p].on
                  THEN Lifecycle!AfterSnapshot(phase[s], s \in FoundIn(p, task[p].on)) ELSE phase[s]
    BY <1>3 DEF Lifecycle!Snapshot
<1>5. CatalogOf[s] = task[p].on /\ s \notin FoundIn(p, task[p].on)
  <2>1. \A x : Lifecycle!AfterSnapshot(x, TRUE) # "pending"
               \/ Lifecycle!AfterSnapshot(x, TRUE) = x
      BY DEF Lifecycle!AfterSnapshot
  <2>2. \A x : x # "disabled" => Lifecycle!AfterSnapshot(x, TRUE) # "disabled"
      BY DEF Lifecycle!AfterSnapshot
  <2>3. CASE s \in FoundIn(p, task[p].on)
    <3>1. (s \in FoundIn(p, task[p].on)) = TRUE
        BY <2>3
    <3> QED BY <1>4, <2>1, <2>2, <3>1
  <2> QED BY <1>4, <2>3
<1>6. s \in gone[p]
    BY <1>3, <1>5 DEF RunInv, InOrder, AbsentInv, FoundIn
<1> QED BY <1>3, <1>6

\* However many syncs overlap, an absence is counted only by a run during which
\* the catalog did not list the source.
THEOREM AbsenceWasAlwaysObserved == HistorySpec => AbsenceWasObserved
<1>1. [HistoryNext]_historyVars => [Next]_vars
    BY DEF HistoryNext, historyVars, vars
<1>2. HistoryInit => TypeInv /\ IdentityInv /\ RunInv /\ AbsentInv
    BY InitTypeInv, InitIdentities, InitRun, InitAbsent DEF HistoryInit
<1>3. HistorySpec => [](TypeInv /\ IdentityInv /\ RunInv /\ AbsentInv)
    BY <1>1, <1>2, NextTypeInv, NextIdentities, NextRun, NextAbsent, PTL DEF HistorySpec
<1>4. [][AbsenceStep]_historyVars => AbsenceWasObserved
    BY PTL DEF AbsenceStep, AbsenceWasObserved
<1>5. ASSUME TypeInv, TypeInv', IdentityInv, IdentityInv', RunInv, AbsentInv,
             [HistoryNext]_historyVars
      PROVE  [AbsenceStep]_historyVars
    BY <1>1, <1>5, AbsenceSteps
<1> QED BY <1>3, <1>4, <1>5, PTL DEF HistorySpec
=============================================================================
