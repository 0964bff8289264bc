-------------------------- MODULE DocumentLifecycle --------------------------
(***************************************************************************)
(* What the knowledge index promises of the lifecycle of a source, without *)
(* rows, runs, answers or failures: a source that was once confirmed stays *)
(* retrievable until two snapshots of its catalog in a row do not list it, *)
(* and returns only when its content is confirmed again.                   *)
(***************************************************************************)
CONSTANTS
    Catalogs,       \* catalogs of the source manifest
    Sources,        \* sources the catalogs may list
    CatalogOf       \* the catalog of each source

VARIABLE
    phase           \* what is known of each source

Phases == {"unknown", "active", "pending", "disabled"}

LifecycleTypeOK == phase \in [Sources -> Phases]

Init == phase \in [Sources -> {"unknown", "active"}]

\* The content of s was fetched, or found unchanged.
Confirm(s) == phase' = [phase EXCEPT ![s] = "active"]

AfterSnapshot(p, isListed) ==
    CASE p = "active"   -> IF isListed THEN "active" ELSE "pending"
      [] p = "pending"  -> IF isListed THEN "active" ELSE "disabled"
      [] OTHER          -> p

\* A successful listing of catalog c.
Snapshot(c, listing) ==
    phase' = [s \in Sources |-> IF CatalogOf[s] = c THEN AfterSnapshot(phase[s], s \in listing)
                                ELSE phase[s]]

Next ==
    \/ \E s \in Sources : Confirm(s)
    \/ \E c \in Catalogs, listing \in SUBSET Sources : Snapshot(c, listing)

Spec == Init /\ [][Next]_phase
=============================================================================
