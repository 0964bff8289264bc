----------------------------- MODULE ChatHistory -----------------------------
(***************************************************************************)
(* The turns of ChatTurn beside a history variable that says which of them *)
(* were under way while another one was.  With it one can say what a turn  *)
(* promises a client that waits for each response.                         *)
(***************************************************************************)
EXTENDS ChatTurn

VARIABLE overlapped     \* turns that another turn has been under way with

historyVars == <<vars, overlapped>>

HistoryInit == Init /\ overlapped = {}

HistoryNext ==
    /\ Next
    /\ overlapped' = overlapped \cup
        {t \in Turns : Live(t)' /\ \E u \in Turns \ {t} : Live(u)'}

HistorySpec == HistoryInit /\ [][HistoryNext]_historyVars

\* The fairness of FairSpec.
FairHistorySpec ==
    HistorySpec /\ \A t \in Turns : WF_historyVars(Live(t) /\ Step(t) /\ HistoryNext)

HistoryRead == Phases \ {"new", "opened", "asked", "rejected", "failed", "gone"}

\* Without overlap the prompt shows exactly the messages just before the
\* question, one less than the limit: the question takes a place.
HistoryIsThePast ==
    \A t \in Turns \ overlapped : phase[t] \in HistoryRead =>
        \E q \in messages :
            LET before == {m \in messages : m.at < q.at}
            IN  /\ q.turn = t /\ q.role = "user"
                /\ history[t] = {m \in before :
                    Cardinality({x \in before : x.at > m.at}) < HistoryLimit - 1}

==============================================================================
