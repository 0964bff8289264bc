--------------------------- MODULE MCTemplateSync ---------------------------
EXTENDS TemplateSync, TLC

CONSTANTS core, overlay, a, b, x, y, p1, p2, first, upgraded, reworded, alone, profiles, lone, bare

TwoTemplates == {core, overlay}
TwoVersions == 1..2
\* a and b are texts of core, x one of overlay that extends core, y one of
\* overlay that stands alone.
FourContents == {a, b, x, y}
MCParentOf == [c \in Contents |-> IF c = x THEN core ELSE NoTemplate]

At(v, c) == [version |-> v, content |-> c]

\* first: both templates; upgraded: core at its next version; reworded: overlay
\* changed in place; alone: overlay removed; profiles: the templates of first
\* with other profiles; lone: overlay upgraded to a text without a parent;
\* bare: core at its next version, overlay removed.
MCRegistry == [c \in Checkouts |-> [t \in Templates |->
    IF t = core
    THEN IF c \in {upgraded, bare} THEN At(2, b) ELSE At(1, a)
    ELSE IF c \in {alone, bare} THEN Absent ELSE IF c = lone THEN At(2, y)
         ELSE IF c = reworded THEN At(1, y) ELSE At(1, x)]]

MCDefaults == [c \in Checkouts |-> {core}]

AllCheckouts == {first, upgraded, reworded, alone, profiles, lone}
UpgradeCheckouts == {first, upgraded, alone, lone}
TwoCheckouts == {first, upgraded}
OverlapCheckouts == {first, alone, bare}
OneSyncer == {p1}
TwoSyncers == {p1, p2}
Interchangeable == Permutations(TwoSyncers)
=============================================================================
