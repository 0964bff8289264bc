-------------------------- MODULE MCTemplateRetrieval --------------------------
EXTENDS TemplateRetrieval, TLC

CONSTANTS core, overlay, a, b, x, y, p1, r1, first, upgraded, alone, lone

TwoTemplates == {core, overlay}
TwoVersions == 1..2
FourContents == {a, b, x, y}
MCParentOf == [c \in Contents |-> IF c = x THEN core ELSE NoTemplate]

At(v, c) == [version |-> v, content |-> c]

\* first: both templates; upgraded: core at its next version; alone: overlay
\* removed; lone: overlay upgraded to a text without a parent.
MCRegistry == [c \in Checkouts |-> [t \in Templates |->
    IF t = core
    THEN IF c = upgraded THEN At(2, b) ELSE At(1, a)
    ELSE IF c = alone THEN Absent ELSE IF c = lone THEN At(2, y) ELSE At(1, x)]]

\* The defaults extend where they can, as those of retail_sales_demo do.
MCDefaults == [c \in Checkouts |-> IF c = alone THEN {core} ELSE {overlay}]

ThreeCheckouts == {first, upgraded, lone}
OnlyCore == {core}
OneSyncer == {p1}
OneReader == {r1}
\* A text of two tokens fits only with nothing or with one of the others.
MCSizeOf == [c \in Contents |-> IF c = b THEN 2 ELSE 1]
================================================================================
