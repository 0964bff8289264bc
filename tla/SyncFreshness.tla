---------------------------- MODULE SyncFreshness ----------------------------
(***************************************************************************)
(* The syncs of KnowledgeIngestion beside two history variables that say   *)
(* what the web sites did while a run was going on.  With them one can say *)
(* what the end of a run tells of the index, and why an absence was        *)
(* counted.                                                                *)
(***************************************************************************)
EXTENDS KnowledgeIngestion

VARIABLES
    moved,          \* for each syncer, the sources that changed during its run
    gone            \* for each syncer, the sources unlisted at some time of its run

historyVars == <<docs, chunks, lastRun, site, listed, stage, run, task, moved, gone>>

HistoryInit ==
    /\ Init
    /\ moved = [p \in Syncers |-> {}]
    /\ gone = [p \in Syncers |-> {}]

HistoryNext ==
    /\ Next
    /\ moved' = [p \in Syncers |->
                    IF stage'[p] = "idle" THEN {}
                    ELSE moved[p] \cup {s \in Sources : site'[s] # site[s]}]
    /\ gone' = [p \in Syncers |->
                    IF stage'[p] = "idle" THEN {} ELSE gone[p] \cup (Sources \ listed')]

HistorySpec == HistoryInit /\ [][HistoryNext]_historyVars

FairHistorySpec == HistorySpec /\ Fairness

UpToDate(s) ==
    /\ HasRow(s)
    /\ docs[s].status = "active"
    /\ docs[s].missing = 0
    /\ docs[s].body = BodyOf[site[s]]
    /\ chunks[s] = ChunksOf(docs[s].body)

\* When a run reaches its end, every source it listed and did not report as
\* failed is retrievable with the content its page has, unless the page changed
\* during the run: neither a 304, nor an equal hash, nor a page that came back
\* from "disabled" leaves old content behind (_sync_source, _publish_if_changed).
ReportedSourcesAreUpToDate ==
    \A p \in Syncers : Finished(p) =>
        \A s \in run[p].found :
            s \in run[p].failed \/ CatalogOf[s] \in run[p].failed \/ s \in moved[p] \/ UpToDate(s)

\* An absence is counted, or a source disabled, only by a run during which its
\* catalog really did not list it: a catalog that cannot be fetched or parsed
\* counts nothing, and one catalog's listing never counts against another's
\* sources (sync, reconcile_catalog_presence).
AbsenceWasObserved ==
    [][\A s \in Sources :
        \/ phase[s] = "active" /\ phase'[s] = "pending"
        \/ phase[s] # "disabled" /\ phase'[s] = "disabled"
        => \E p \in Syncers : stage[p] = "identified" /\ s \in gone[p]]_historyVars
=============================================================================
