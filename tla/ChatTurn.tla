------------------------------ MODULE ChatTurn ------------------------------
(***************************************************************************)
(* One chat session and the turns that clients post to it.  A turn is a    *)
(* run of ChatService.send_message: it stores the question, reads the      *)
(* recent messages, builds the retrieval context, calls one model after    *)
(* another until one answers (FallbackModelGateway.run), stores a model    *)
(* call and a trace line for each attempt, and stores the answer.          *)
(*                                                                         *)
(* Every step between two awaits is one action.  A turn has a database     *)
(* session of its own, whose transaction begins with its first statement   *)
(* and takes a connection from a bounded pool until the commit; PostgreSQL *)
(* stamps a row with the begin of its transaction, not with its commit.    *)
(***************************************************************************)
EXTENDS Naturals, Sequences, FiniteSets

CONSTANTS
    Turns,          \* the messages that clients post to the session
    Models,         \* aliases of the model registry
    Requested,      \* the model a turn asks for, or else the default model
    Fallbacks,      \* FALLBACK_MODELS, in order
    UsesIndexes,    \* whether the prompt of a turn needs retrieved context
    HistoryLimit,   \* limit of list_recent_messages
    PoolSize        \* connections the engine's pool may open

ASSUME ModelAssumption ==
    /\ Requested \in [Turns -> Models]
    /\ Fallbacks \in Seq(Models)

ASSUME RequestAssumption == UsesIndexes \in [Turns -> BOOLEAN]

ASSUME LimitAssumption == HistoryLimit \in Nat \ {0} /\ PoolSize \in Nat \ {0}

VARIABLES
    messages,       \* table messages, of this session
    updated,        \* updated_at of the session
    calls,          \* table model_calls, of this session
    traces,         \* lines of the trace file: <<turn, attempt number>>
    phase,          \* where each turn is
    conns,          \* turns whose session holds a connection
    stamp,          \* begin of the transaction a turn is in, or was in last
    clock,          \* the latest such begin
    history,        \* recent messages a turn has read for its prompt
    attempts        \* model attempts of each turn so far

vars == <<messages, updated, calls, traces, phase, conns, stamp, clock, history, attempts>>

Ended == {"rejected", "answered", "failed", "gone"}

\* Phases in which a turn's transaction is open.
Connected == {"opened", "loaded", "checked", "embedded", "calling", "attempted",
              "tracing", "answering"}

Phases == Connected \cup {"new", "asked", "recorded", "replied"} \cup Ended

\* An attempt succeeds with a valid or an invalid artifact, or fails with an
\* error that another model may cure, or with one that ends the run.
Results == {"valid", "invalid", "retryable", "fatal"}

Message == [turn: Turns, role: {"user", "assistant"}, at: Nat]

Call == [turn: Turns, number: Nat, model: Models, result: Results]

TypeOK ==
    /\ messages \subseteq Message
    /\ updated \in Nat
    /\ calls \subseteq Call
    /\ traces \subseteq Turns \X Nat
    /\ phase \in [Turns -> Phases]
    /\ conns = {t \in Turns : phase[t] \in Connected}
    /\ Cardinality(conns) <= PoolSize
    /\ stamp \in [Turns -> Nat]
    /\ clock \in Nat
    /\ history \in [Turns -> SUBSET Message]
    /\ attempts \in [Turns -> Seq([model: Models, result: Results])]

Init ==
    /\ messages = {}
    /\ updated = 0
    /\ calls = {}
    /\ traces = {}
    /\ phase = [t \in Turns |-> "new"]
    /\ conns = {}
    /\ stamp = [t \in Turns |-> 0]
    /\ clock = 0
    /\ history = [t \in Turns |-> {}]
    /\ attempts = [t \in Turns |-> <<>>]

-----------------------------------------------------------------------------
(* The connection pool and the phases of a turn.                           *)

FreeConnection == Cardinality(conns) < PoolSize

Live(t) == phase[t] \notin Ended \cup {"new"}

Goto(t, p) == phase' = [phase EXCEPT ![t] = p]

\* Mutant: one transaction for the whole turn.
BeginOnce(t) ==
    /\ FreeConnection
    /\ conns' = conns \cup {t}
    /\ clock' = clock + 1
    /\ stamp' = [stamp EXCEPT ![t] = IF @ = 0 THEN clock + 1 ELSE @]

\* The first statement after a commit, or of the request, begins a transaction.
Begin(t) ==
    /\ FreeConnection
    /\ conns' = conns \cup {t}
    /\ clock' = clock + 1
    /\ stamp' = [stamp EXCEPT ![t] = clock + 1]

\* Commit, rollback or close: the connection goes back to the pool.
Release(t) == conns' = conns \ {t}

\* Mutant: an error leaks the connection.
FailLeaking(t) == Goto(t, "failed") /\ UNCHANGED conns

Fail(t) == Goto(t, "failed") /\ Release(t)

-----------------------------------------------------------------------------
(* The question and the context of its prompt.                             *)

\* get_session.
Open(t) ==
    /\ phase[t] = "new"
    /\ Begin(t)
    /\ Goto(t, "opened")
    /\ UNCHANGED <<messages, updated, calls, traces, history, attempts>>

\* No such session, prompt or workspace.
Reject(t) ==
    /\ phase[t] = "opened"
    /\ Goto(t, "rejected")
    /\ Release(t)
    /\ UNCHANGED <<messages, updated, calls, traces, stamp, clock, history, attempts>>

\* create_message: the message and the session row get the transaction's time.
CreateMessage(t, role) ==
    /\ messages' = messages \cup {[turn |-> t, role |-> role, at |-> stamp[t]]}
    /\ updated' = stamp[t]

SaveQuestion(t) ==
    /\ phase[t] = "opened"
    /\ CreateMessage(t, "user")
    /\ Release(t)
    /\ Goto(t, "asked")
    /\ UNCHANGED <<calls, traces, stamp, clock, history, attempts>>

\* list_recent_messages: the latest n messages.
Recent(n) == {m \in messages : Cardinality({x \in messages : x.at > m.at}) < n}

\* Mutant: the oldest n messages.
HistoryForOldest(t) ==
    {m \in messages : Cardinality({x \in messages : x.at < m.at}) < HistoryLimit /\ m.turn # t}

\* The history of the prompt leaves the question itself out.
HistoryFor(t) == {m \in Recent(HistoryLimit) : ~(m.turn = t /\ m.role = "user")}

\* The row of the question is read back and the recent messages are read, in
\* a transaction that stays open until the first model call is stored.
LoadHistory(t) ==
    /\ phase[t] = "asked"
    /\ Begin(t)
    /\ history' = [history EXCEPT ![t] = HistoryFor(t)]
    /\ Goto(t, "loaded")
    /\ UNCHANGED <<messages, updated, calls, traces, attempts>>

\* _ensure_required_indexes borrows a second connection.
CheckIndexes(t) ==
    /\ phase[t] = "loaded"
    /\ IF UsesIndexes[t] THEN FreeConnection /\ Goto(t, "checked")
                         ELSE Goto(t, "calling")
    /\ UNCHANGED <<messages, updated, calls, traces, conns, stamp, clock, history, attempts>>

Embed(t) ==
    /\ phase[t] = "checked"
    /\ Goto(t, "embedded")
    /\ UNCHANGED <<messages, updated, calls, traces, conns, stamp, clock, history, attempts>>

\* Both retrievers borrow connections, one after the other.
Retrieve(t) ==
    /\ phase[t] = "embedded"
    /\ FreeConnection
    /\ Goto(t, "calling")
    /\ UNCHANGED <<messages, updated, calls, traces, conns, stamp, clock, history, attempts>>

\* Mutant: the question is rolled back with the failed context.
ContextFailsRollingBack(t) ==
    /\ phase[t] = "checked" \/ (phase[t] \in {"loaded", "embedded"} /\ FreeConnection)
    /\ UsesIndexes[t]
    /\ Fail(t)
    /\ messages' = {m \in messages : m.turn # t}
    /\ UNCHANGED <<updated, calls, traces, stamp, clock, history, attempts>>

\* An index is not ready, the embedding fails, no context is found.
ContextFails(t) ==
    /\ phase[t] = "checked" \/ (phase[t] \in {"loaded", "embedded"} /\ FreeConnection)
    /\ UsesIndexes[t]
    /\ Fail(t)
    /\ UNCHANGED <<messages, updated, calls, traces, stamp, clock, history, attempts>>

-----------------------------------------------------------------------------
(* The attempts of the model gateway.                                      *)

Tried(t) == {attempts[t][i].model : i \in DOMAIN attempts[t]}

Untried(t) == {i \in DOMAIN Fallbacks : Fallbacks[i] \notin Tried(t)}

HasNext(t) == attempts[t] = <<>> \/ Untried(t) # {}

\* The model asked for, then the fallbacks in order, each model once.
NextModel(t) ==
    IF attempts[t] = <<>> THEN Requested[t]
    ELSE Fallbacks[CHOOSE i \in Untried(t) : \A j \in Untried(t) : i <= j]

Number(t) == Len(attempts[t])

CallModel(t) ==
    /\ phase[t] = "calling"
    /\ \E result \in Results :
        attempts' = [attempts EXCEPT
            ![t] = Append(@, [model |-> NextModel(t), result |-> result])]
    /\ Goto(t, "attempted")
    /\ UNCHANGED <<messages, updated, calls, traces, conns, stamp, clock, history>>

\* create_model_call: the attempt is stored before anything else happens.
RecordCall(t) ==
    /\ phase[t] = "attempted"
    /\ calls' = calls \cup {[turn   |-> t,
                             number |-> Number(t),
                             model  |-> attempts[t][Number(t)].model,
                             result |-> attempts[t][Number(t)].result]}
    /\ Release(t)
    /\ Goto(t, "recorded")
    /\ UNCHANGED <<messages, updated, traces, stamp, clock, history, attempts>>

\* The row of the call is read back: the transaction that will store the
\* answer, or wait for the next model, begins here.
ReloadCall(t) ==
    /\ phase[t] = "recorded"
    /\ Begin(t)
    /\ Goto(t, "tracing")
    /\ UNCHANGED <<messages, updated, calls, traces, history, attempts>>

\* Mutant: an invalid artifact falls back to the next model.
AfterTraceFallingBack(t) ==
    CASE attempts[t][Number(t)].result = "valid" -> "answering"
      [] attempts[t][Number(t)].result \in {"retryable", "invalid"} /\ HasNext(t) -> "calling"
      [] OTHER -> "failed"

\* A valid artifact becomes the answer; a retryable error moves on to the next
\* model; an invalid artifact, a fatal error or no model left ends the turn.
AfterTrace(t) ==
    CASE attempts[t][Number(t)].result = "valid" -> "answering"
      [] attempts[t][Number(t)].result = "retryable" /\ HasNext(t) -> "calling"
      [] OTHER -> "failed"

\* A line that cannot be written is only logged.
WriteTrace(t) ==
    /\ phase[t] = "tracing"
    /\ \/ traces' = traces \cup {<<t, Number(t)>>}
       \/ UNCHANGED traces
    /\ Goto(t, AfterTrace(t))
    /\ conns' = IF AfterTrace(t) = "failed" THEN conns \ {t} ELSE conns
    /\ UNCHANGED <<messages, updated, calls, stamp, clock, history, attempts>>

SaveAnswer(t) ==
    /\ phase[t] = "answering"
    /\ CreateMessage(t, "assistant")
    /\ Release(t)
    /\ Goto(t, "replied")
    /\ UNCHANGED <<calls, traces, stamp, clock, history, attempts>>

\* The row of the answer is read back, the response returned and the session
\* closed.
Reply(t) ==
    /\ phase[t] = "replied"
    /\ FreeConnection
    /\ Goto(t, "answered")
    /\ UNCHANGED <<messages, updated, calls, traces, conns, stamp, clock, history, attempts>>

-----------------------------------------------------------------------------
(* What may go wrong anywhere.                                             *)

\* Phases whose next step is a statement of the turn's own session.
AtDatabase == {"opened", "asked", "attempted", "recorded", "answering", "replied"}

\* Mutant: a model call that cannot be stored does not stop the turn.
DatabaseFailsQuietly(t) ==
    /\ phase[t] \in AtDatabase /\ (t \in conns \/ FreeConnection)
    /\ IF phase[t] = "attempted" THEN Goto(t, "recorded") /\ Release(t) ELSE Fail(t)
    /\ UNCHANGED <<messages, updated, calls, traces, stamp, clock, history, attempts>>

\* A statement or a commit fails: the error leaves send_message.
DatabaseFails(t) ==
    /\ phase[t] \in AtDatabase /\ (t \in conns \/ FreeConnection)
    /\ Fail(t)
    /\ UNCHANGED <<messages, updated, calls, traces, stamp, clock, history, attempts>>

\* Whether the next step of a turn needs a connection it does not hold.
NeedsConnection(t) ==
    \/ phase[t] \in {"new", "asked", "recorded", "replied"}
    \/ phase[t] \in {"loaded", "embedded"} /\ UsesIndexes[t]

\* Mutant: the pool lets a waiter wait.
PoolTimeoutNever(t) ==
    /\ NeedsConnection(t)
    /\ ~FreeConnection
    /\ UNCHANGED vars

\* The pool gives up on a waiter after a while.
PoolTimeout(t) ==
    /\ NeedsConnection(t)
    /\ ~FreeConnection
    /\ Fail(t)
    /\ UNCHANGED <<messages, updated, calls, traces, stamp, clock, history, attempts>>

\* The server process dies with every turn under way.
Crash ==
    /\ \E t \in Turns : Live(t)
    /\ phase' = [t \in Turns |-> IF Live(t) THEN "gone" ELSE phase[t]]
    /\ conns' = {}
    /\ UNCHANGED <<messages, updated, calls, traces, stamp, clock, history, attempts>>

\* Every client has its response.
Quiet ==
    /\ \A t \in Turns : phase[t] \in Ended
    /\ UNCHANGED vars

Step(t) ==
    \/ Reject(t) \/ SaveQuestion(t) \/ LoadHistory(t)
    \/ CheckIndexes(t) \/ Embed(t) \/ Retrieve(t) \/ ContextFails(t)
    \/ CallModel(t) \/ RecordCall(t) \/ ReloadCall(t) \/ WriteTrace(t)
    \/ SaveAnswer(t) \/ Reply(t) \/ DatabaseFails(t) \/ PoolTimeout(t)

Next == (\E t \in Turns : Open(t) \/ Step(t)) \/ Crash \/ Quiet

Spec == Init /\ [][Next]_vars

\* Requests to models and embeddings and waits for a connection have timeouts,
\* and PostgreSQL answers: a turn under way always takes a next step.
FairSpec == Spec /\ \A t \in Turns : WF_vars(Live(t) /\ Step(t))

-----------------------------------------------------------------------------
(* Properties.                                                             *)

CallsOf(t) == {c \in calls : c.turn = t}

\* Every stored answer is accounted for by the stored model calls of its turn:
\* they are numbered without gaps, the last one produced a valid artifact, and
\* each one before it failed in a way that allows a fallback.
AnswersAreAudited ==
    \A m \in messages : m.role = "assistant" =>
        \E last \in CallsOf(m.turn) :
            /\ last.result = "valid"
            /\ {c.number : c \in CallsOf(m.turn)} = 1..last.number
            /\ \A c \in CallsOf(m.turn) \ {last} : c.result = "retryable" /\ c.number < last.number

\* No model is called while an earlier attempt of the turn is not stored, so a
\* failing database never leaves more than one model call unaccounted for.
NoUnrecordedRetry ==
    \A t \in Turns : phase[t] = "calling" =>
        {<<c.number, c.model>> : c \in CallsOf(t)} =
            {<<i, attempts[t][i].model>> : i \in DOMAIN attempts[t]}

\* A turn never calls the same model twice.
EachModelOnce ==
    \A t \in Turns : \A i, j \in DOMAIN attempts[t] :
        attempts[t][i].model = attempts[t][j].model => i = j

\* Every trace line can be joined with a stored model call.
TracesHaveCalls ==
    \A line \in traces : \E c \in CallsOf(line[1]) : c.number = line[2]

\* In the order of the conversation an answer comes after its question, also
\* when turns overlap: the answer's transaction began after the question's.
AnswersFollowQuestions ==
    \A m \in messages : m.role = "assistant" =>
        \E q \in messages : q.turn = m.turn /\ q.role = "user" /\ q.at < m.at

\* A turn under way ends, with or without an answer.
TurnsEnd == \A t \in Turns : Live(t) ~> phase[t] \in Ended

\* The design (docs/superpowers/specs/2026-07-11-stage-2-model-gateway-design.md,
\* section 14, rule 2): no database transaction or connection is held during a
\* model call.
NoConnectionDuringModelCall ==
    \A t \in Turns : phase[t] = "calling" => t \notin conns

\* What the reader of the session sees of a turn.
HasMessage(t, role) == \E m \in messages : m.turn = t /\ m.role = role

TurnStatus(t) ==
    IF HasMessage(t, "assistant") THEN "answered"
    ELSE IF phase[t] \in Ended THEN "over"
    ELSE IF HasMessage(t, "user") THEN "asked" ELSE "new"

Session == INSTANCE Conversation WITH
    log <- {<<m.turn, m.role>> : m \in messages},
    status <- [t \in Turns |-> TurnStatus(t)]

\* Whatever fails, the session reads as a conversation.
ImplementsConversation == Session!Spec
=============================================================================
