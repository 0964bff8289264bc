--------------------------- MODULE TemplateCatalog --------------------------
(***************************************************************************)
(* What the expert template index promises a server: while the index is    *)
(* open to a checkout of the template sources, the active versions are the *)
(* ones of that checkout; they are replaced all at once, and only while    *)
(* the index is closed.                                                    *)
(***************************************************************************)
CONSTANTS
    Checkouts,          \* states of the template sources
    SnapshotOf(_),      \* the template versions of a checkout
    Nothing             \* the index is open to no checkout

VARIABLES
    active,             \* the template versions retrieval may use
    openTo              \* the checkout that may use them

Init == active = {} /\ openTo = Nothing

Open(c) ==
    /\ active = SnapshotOf(c)
    /\ openTo' = c
    /\ UNCHANGED active

Close == openTo' = Nothing /\ UNCHANGED active

Publish(c) ==
    /\ openTo = Nothing
    /\ active' = SnapshotOf(c)
    /\ UNCHANGED openTo

Next == Close \/ \E c \in Checkouts : Open(c) \/ Publish(c)

Spec == Init /\ [][Next]_<<active, openTo>>
=============================================================================
