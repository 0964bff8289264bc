----------------------------- MODULE MCChatTurn -----------------------------
EXTENDS ChatHistory

CONSTANTS t1, t2, flash, pro

TwoTurns == {t1, t2}
TwoModels == {flash, pro}
OneModel == {flash}

\* t1 asks for the model that the fallbacks begin with, the others for pro
\* where it is registered.
MCRequested == [t \in Turns |->
    IF t # t1 /\ pro \in Models THEN pro ELSE flash]

NoFallback == <<>>
OneFallback == <<flash>>

Everyone == [t \in Turns |-> TRUE]

=============================================================================
