---------------------------- MODULE Conversation ----------------------------
(***************************************************************************)
(* What a chat session promises its reader: every turn is one question and *)
(* at most one answer, an answer comes after its question, nothing is ever *)
(* removed, and a turn that is over adds nothing any more.                 *)
(***************************************************************************)
CONSTANT Turns          \* the messages that clients post to the session

VARIABLES
    log,                \* the messages: <<turn, role>>
    status              \* new, asked, answered or over, for each turn

TypeOK ==
    /\ log \subseteq Turns \X {"user", "assistant"}
    /\ status \in [Turns -> {"new", "asked", "answered", "over"}]

Init ==
    /\ log = {}
    /\ status = [t \in Turns |-> "new"]

Ask(t) ==
    /\ status[t] = "new"
    /\ log' = log \cup {<<t, "user">>}
    /\ status' = [status EXCEPT ![t] = "asked"]

Answer(t) ==
    /\ status[t] = "asked"
    /\ log' = log \cup {<<t, "assistant">>}
    /\ status' = [status EXCEPT ![t] = "answered"]

\* Turns that end without an answer: an error ends one, a crash of the
\* server every turn under way.
Drop ==
    /\ UNCHANGED log
    /\ \E dropped \in SUBSET Turns :
        /\ dropped # {}
        /\ \A t \in dropped : status[t] \in {"new", "asked"}
        /\ status' = [t \in Turns |-> IF t \in dropped THEN "over" ELSE status[t]]

Next == (\E t \in Turns : Ask(t) \/ Answer(t)) \/ Drop

Spec == Init /\ [][Next]_<<log, status>>
=============================================================================
