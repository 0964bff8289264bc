--------------------------- MODULE ChatTurnProofs ---------------------------
(***************************************************************************)
(* Proofs about the turns of a chat session, for any turns, models,        *)
(* fallbacks, history limit and pool size.                                 *)
(***************************************************************************)
EXTENDS ChatHistory, FiniteSetTheorems, WellFoundedInduction, TLAPS

Attempt == [model: Models, result: Results]

\* Phases before the first model call, and phases after some model call.
BeforeCalls == {"new", "opened", "rejected", "asked", "loaded", "checked", "embedded"}

AfterCalls == {"attempted", "recorded", "tracing", "answering", "replied", "answered"}

USE DEF Phases, Ended, Connected, BeforeCalls, AfterCalls

-----------------------------------------------------------------------------
(* Type correctness.  It is inductive with what a phase says of the        *)
(* attempts: in phase calling there is a model left to call.               *)

AttemptsFitPhase ==
    \A t \in Turns :
        /\ phase[t] \in BeforeCalls => attempts[t] = <<>>
        /\ phase[t] = "calling" => HasNext(t)
        /\ phase[t] \in AfterCalls => attempts[t] # <<>>

TypeInv == TypeOK /\ IsFiniteSet(conns) /\ AttemptsFitPhase

ConnectionsOK ==
    /\ conns = {t \in Turns : phase[t] \in Connected}
    /\ Cardinality(conns) <= PoolSize
    /\ IsFiniteSet(conns)

LEMMA InitTypeInv == Init => TypeInv
<1> SUFFICES ASSUME Init PROVE TypeInv
    OBVIOUS
<1>1. IsFiniteSet({}) /\ Cardinality({}) = 0
    BY FS_EmptySet
<1>2. <<>> \in Seq(Attempt)
    OBVIOUS
<1> QED BY <1>1, <1>2, LimitAssumption DEF Init, TypeInv, TypeOK, AttemptsFitPhase, Attempt

\* A turn changes its phase and no other turn's.
LEMMA Moves ==
    ASSUME TypeOK, NEW t \in Turns, NEW p \in Phases, Goto(t, p)
    PROVE  /\ phase' \in [Turns -> Phases]
           /\ phase'[t] = p
           /\ \A u \in Turns \ {t} : phase'[u] = phase[u]
BY DEF TypeOK, Goto

\* The pool keeps to its size when a turn takes a connection that is free.
MovesTo(t, p) ==
    /\ Goto(t, p)
    /\ \/ p \in Connected /\ t \notin conns /\ FreeConnection /\ conns' = conns \cup {t}
       \/ p \in Connected /\ t \in conns /\ conns' = conns
       \/ p \notin Connected /\ conns' = conns \ {t}

LEMMA PoolKeepsSize ==
    ASSUME TypeOK, IsFiniteSet(conns), NEW t \in Turns, NEW p \in Phases, MovesTo(t, p)
    PROVE  ConnectionsOK'
<1>1. conns' = {u \in Turns : phase'[u] \in Connected}
    BY Moves DEF TypeOK, MovesTo
<1>2. CASE p \in Connected /\ t \notin conns /\ FreeConnection /\ conns' = conns \cup {t}
  <2>1. Cardinality(conns') = Cardinality(conns) + 1 /\ IsFiniteSet(conns')
      BY <1>2, FS_AddElement
  <2>2. Cardinality(conns) \in Nat
      BY FS_CardinalityType
  <2> QED BY <1>1, <1>2, <2>1, <2>2, LimitAssumption DEF ConnectionsOK, FreeConnection
<1>3. CASE p \in Connected /\ t \in conns /\ conns' = conns
    BY <1>1, <1>3 DEF ConnectionsOK, TypeOK
<1>4. CASE p \notin Connected /\ conns' = conns \ {t}
  <2>1. IsFiniteSet(conns') /\ Cardinality(conns') <= Cardinality(conns)
      BY <1>4, FS_Subset
  <2>2. Cardinality(conns) \in Nat /\ Cardinality(conns') \in Nat
      BY <2>1, FS_CardinalityType
  <2> QED BY <1>1, <2>1, <2>2, LimitAssumption DEF ConnectionsOK, TypeOK
<1> QED BY <1>2, <1>3, <1>4 DEF MovesTo

\* Where there is a next model, NextModel picks one that is registered and was
\* not called before.
LEMMA NextModelIsFresh ==
    ASSUME TypeOK, NEW t \in Turns, HasNext(t)
    PROVE  NextModel(t) \in Models /\ NextModel(t) \notin Tried(t)
<1>1. CASE attempts[t] = <<>>
    BY <1>1, ModelAssumption DEF NextModel, Tried
<1>2. CASE attempts[t] # <<>>
  <2>1. Untried(t) \in SUBSET Nat /\ Untried(t) # {}
      BY <1>2, ModelAssumption DEF HasNext, Untried
  <2>2. \E i \in Untried(t) : \A j \in Untried(t) : i <= j
    <3> DEFINE below == {ss \in Nat \X Nat : ss[1] < ss[2]}
    <3>1. IsWellFoundedOn(below, Nat)
        BY NatLessThanWellFounded DEF OpToRel
    <3> HIDE DEF below
    <3>2. PICK i \in Untried(t) : \A j \in Untried(t) : <<j, i>> \notin below
        BY <2>1, <3>1, WFMin
    <3>3. \A j \in Untried(t) : ~(j < i)
        BY <2>1, <3>2 DEF below
    <3> QED BY <2>1, <3>3
  <2> DEFINE i == CHOOSE i \in Untried(t) : \A j \in Untried(t) : i <= j
  <2>3. i \in Untried(t)
      BY <2>2
  <2>4. NextModel(t) = Fallbacks[i]
      BY <1>2 DEF NextModel
  <2> HIDE DEF i
  <2> QED BY <2>3, <2>4, ModelAssumption DEF Untried
<1> QED BY <1>1, <1>2

\* How a step of a turn changes its phase and its attempts.
LEMMA TurnSteps ==
    ASSUME TypeInv, NEW t \in Turns, Open(t) \/ Step(t)
    PROVE  \E p \in Phases :
              /\ MovesTo(t, p)
              /\ p \in BeforeCalls => phase[t] \in BeforeCalls
              /\ p \in AfterCalls => phase[t] \in AfterCalls \/ CallModel(t)
              /\ p = "calling" => phase[t] \in BeforeCalls \/ HasNext(t)
              /\ CallModel(t) \/ UNCHANGED attempts
<1> DEFINE Edge(p) ==
        /\ MovesTo(t, p)
        /\ p \in BeforeCalls => phase[t] \in BeforeCalls
        /\ p \in AfterCalls => phase[t] \in AfterCalls \/ CallModel(t)
        /\ p = "calling" => phase[t] \in BeforeCalls \/ HasNext(t)
        /\ CallModel(t) \/ UNCHANGED attempts
<1> SUFFICES \E p \in Phases : Edge(p)
    OBVIOUS
<1>1. t \in conns <=> phase[t] \in Connected
    BY DEF TypeInv, TypeOK
<1>2. ASSUME Open(t) PROVE Edge("opened")
    BY <1>1, <1>2 DEF Open, Begin, MovesTo, Goto
<1>3. ASSUME Reject(t) PROVE Edge("rejected")
    BY <1>1, <1>3 DEF Reject, Release, MovesTo, Goto
<1>4. ASSUME SaveQuestion(t) PROVE Edge("asked")
    BY <1>1, <1>4 DEF SaveQuestion, Release, MovesTo, Goto
<1>5. ASSUME LoadHistory(t) PROVE Edge("loaded")
    BY <1>1, <1>5 DEF LoadHistory, Begin, MovesTo, Goto
<1>6. ASSUME CheckIndexes(t) PROVE Edge("checked") \/ Edge("calling")
    BY <1>1, <1>6 DEF CheckIndexes, MovesTo, Goto
<1>7. ASSUME Embed(t) PROVE Edge("embedded")
    BY <1>1, <1>7 DEF Embed, MovesTo, Goto
<1>8. ASSUME Retrieve(t) PROVE Edge("calling")
    BY <1>1, <1>8 DEF Retrieve, MovesTo, Goto
<1>9. ASSUME CallModel(t) PROVE Edge("attempted")
    BY <1>1, <1>9 DEF CallModel, MovesTo, Goto
<1>10. ASSUME RecordCall(t) PROVE Edge("recorded")
    BY <1>1, <1>10 DEF RecordCall, Release, MovesTo, Goto
<1>11. ASSUME ReloadCall(t) PROVE Edge("tracing")
    BY <1>1, <1>11 DEF ReloadCall, Begin, MovesTo, Goto
<1>12. ASSUME WriteTrace(t) PROVE \E p \in Phases : Edge(p)
  <2>1. AfterTrace(t) \in {"answering", "calling", "failed"}
      BY DEF AfterTrace
  <2>2. AfterTrace(t) = "calling" => HasNext(t)
      BY DEF AfterTrace
  <2>3. Edge(AfterTrace(t))
      BY <1>1, <1>12, <2>1, <2>2 DEF WriteTrace, MovesTo, Goto
  <2> QED BY <2>1, <2>3
<1>13. ASSUME SaveAnswer(t) PROVE Edge("replied")
    BY <1>1, <1>13 DEF SaveAnswer, Release, MovesTo, Goto
<1>14. ASSUME Reply(t) PROVE Edge("answered")
    BY <1>1, <1>14 DEF Reply, MovesTo, Goto
<1>15. ASSUME ContextFails(t) \/ DatabaseFails(t) \/ PoolTimeout(t) PROVE Edge("failed")
    BY <1>1, <1>15 DEF ContextFails, DatabaseFails, PoolTimeout, Fail, Release, MovesTo, Goto
<1> HIDE DEF Edge
<1> QED BY <1>2, <1>3, <1>4, <1>5, <1>6, <1>7, <1>8, <1>9, <1>10, <1>11, <1>12, <1>13, <1>14,
           <1>15 DEF Step

\* What a model call does to the attempts.
LEMMA CallAppends ==
    ASSUME TypeInv, NEW t \in Turns, CallModel(t)
    PROVE  \E result \in Results :
              /\ [model |-> NextModel(t), result |-> result] \in Attempt
              /\ attempts' \in [Turns -> Seq(Attempt)]
              /\ attempts'[t] = Append(attempts[t], [model |-> NextModel(t), result |-> result])
              /\ \A u \in Turns \ {t} : attempts'[u] = attempts[u]
<1>1. PICK result \in Results : attempts' = [attempts EXCEPT
            ![t] = Append(@, [model |-> NextModel(t), result |-> result])]
    BY DEF CallModel
<1> DEFINE attempt == [model |-> NextModel(t), result |-> result]
<1>2. HasNext(t)
    BY DEF CallModel, TypeInv, AttemptsFitPhase
<1>3. attempt \in Attempt
    BY <1>2, NextModelIsFresh DEF Attempt, TypeInv
<1>4. attempts \in [Turns -> Seq(Attempt)]
    BY DEF TypeInv, TypeOK, Attempt
<1> HIDE DEF attempt
<1>5. Append(attempts[t], attempt) \in Seq(Attempt)
    BY <1>3, <1>4
<1>6. attempts' = [attempts EXCEPT ![t] = Append(attempts[t], attempt)]
    BY <1>1 DEF attempt
<1> QED BY <1>3, <1>4, <1>5, <1>6 DEF attempt

TablesOK ==
    /\ messages \subseteq Message
    /\ updated \in Nat
    /\ calls \subseteq Call
    /\ traces \subseteq Turns \X Nat
    /\ stamp \in [Turns -> Nat]
    /\ clock \in Nat
    /\ history \in [Turns -> SUBSET Message]

\* The tables keep their types.
LEMMA TurnKeepsTables ==
    ASSUME TypeInv, NEW t \in Turns, Open(t) \/ Step(t)
    PROVE  TablesOK'
<1>1. TablesOK /\ attempts \in [Turns -> Seq(Attempt)]
    BY DEF TypeInv, TypeOK, TablesOK, Attempt
<1> USE <1>1 DEF TablesOK
<1>2. ASSUME Begin(t), UNCHANGED <<messages, updated, calls, traces>>,
             history' \in [Turns -> SUBSET Message]
      PROVE  TablesOK'
    BY <1>2 DEF Begin
<1>3. CASE Open(t) \/ ReloadCall(t)
    BY <1>2, <1>3 DEF Open, ReloadCall
<1>4. CASE LoadHistory(t)
  <2>1. HistoryFor(t) \subseteq Message
      BY DEF HistoryFor, Recent
  <2> QED BY <1>2, <1>4, <2>1 DEF LoadHistory
<1>5. CASE SaveQuestion(t) \/ SaveAnswer(t)
  <2>1. \A role \in {"user", "assistant"} :
            [turn |-> t, role |-> role, at |-> stamp[t]] \in Message
      BY DEF Message
  <2> QED BY <1>5, <2>1 DEF SaveQuestion, SaveAnswer, CreateMessage
<1>6. CASE RecordCall(t)
  <2> DEFINE n == Number(t)
  <2>1. attempts[t] # <<>>
      BY <1>6 DEF RecordCall, TypeInv, AttemptsFitPhase
  <2>2. n \in Nat /\ attempts[t][n] \in Attempt
      BY <2>1 DEF Number
  <2> HIDE DEF n
  <2>3. [turn |-> t, number |-> n, model |-> attempts[t][n].model,
         result |-> attempts[t][n].result] \in Call
      BY <2>2 DEF Call, Attempt
  <2> QED BY <1>6, <2>3 DEF RecordCall, n
<1>7. CASE WriteTrace(t)
  <2>1. Number(t) \in Nat
      BY DEF Number
  <2> QED BY <1>7, <2>1 DEF WriteTrace
<1>8. CASE \/ Reject(t) \/ CheckIndexes(t) \/ Embed(t) \/ Retrieve(t) \/ ContextFails(t)
           \/ CallModel(t) \/ Reply(t) \/ DatabaseFails(t) \/ PoolTimeout(t)
    BY <1>8 DEF Reject, CheckIndexes, Embed, Retrieve, ContextFails, CallModel, Reply,
                DatabaseFails, PoolTimeout
<1> QED BY <1>3, <1>4, <1>5, <1>6, <1>7, <1>8 DEF Step

LEMMA TurnKeepsTypes ==
    ASSUME TypeInv, NEW t \in Turns, Open(t) \/ Step(t)
    PROVE  TypeInv'
<1>1. PICK p \in Phases :
          /\ MovesTo(t, p)
          /\ p \in BeforeCalls => phase[t] \in BeforeCalls
          /\ p \in AfterCalls => phase[t] \in AfterCalls \/ CallModel(t)
          /\ p = "calling" => phase[t] \in BeforeCalls \/ HasNext(t)
          /\ CallModel(t) \/ UNCHANGED attempts
    BY TurnSteps
<1>2. phase' \in [Turns -> Phases] /\ phase'[t] = p /\ \A u \in Turns \ {t} : phase'[u] = phase[u]
    BY <1>1, Moves DEF MovesTo, TypeInv
<1>3. ConnectionsOK'
    BY <1>1, PoolKeepsSize DEF TypeInv
<1>4. TablesOK'
    BY TurnKeepsTables
<1>5. CASE UNCHANGED attempts
  <2>1. AttemptsFitPhase'
    <3>1. CASE ~CallModel(t)
        BY <1>1, <1>2, <1>5, <3>1 DEF TypeInv, AttemptsFitPhase, HasNext, Untried, Tried
    <3>2. CASE CallModel(t)
      <4>1. PICK a \in Attempt : attempts'[t] = Append(attempts[t], a)
          BY <3>2, CallAppends
      <4>2. attempts[t] \in Seq(Attempt)
          BY DEF TypeInv, TypeOK, Attempt
      <4>3. Len(attempts'[t]) = Len(attempts[t]) + 1 /\ Len(attempts[t]) \in Nat
          BY <4>1, <4>2
      <4> QED BY <1>5, <4>3
    <3> QED BY <3>1, <3>2
  <2> QED BY <1>2, <1>3, <1>4, <1>5, <2>1 DEF TypeInv, TypeOK, TablesOK, ConnectionsOK
<1>6. CASE CallModel(t)
  <2>1. p = "attempted"
      BY <1>2, <1>6 DEF CallModel, Goto, TypeInv, TypeOK
  <2>2. PICK a \in Attempt : /\ attempts' \in [Turns -> Seq(Attempt)]
                             /\ attempts'[t] = Append(attempts[t], a)
                             /\ \A u \in Turns \ {t} : attempts'[u] = attempts[u]
      BY <1>6, CallAppends
  <2>3. attempts'[t] # <<>>
    <3>1. attempts[t] \in Seq(Attempt)
        BY DEF TypeInv, TypeOK, Attempt
    <3>2. Len(attempts'[t]) = Len(attempts[t]) + 1 /\ Len(attempts[t]) \in Nat
        BY <2>2, <3>1
    <3> QED BY <3>2
  <2>4. \A u \in Turns \ {t} : HasNext(u)' <=> HasNext(u)
      BY <2>2 DEF HasNext, Untried, Tried
  <2>5. AttemptsFitPhase'
      BY <1>2, <2>1, <2>2, <2>3, <2>4 DEF TypeInv, AttemptsFitPhase
  <2> QED BY <1>2, <1>3, <1>4, <2>2, <2>5 DEF TypeInv, TypeOK, TablesOK, ConnectionsOK, Attempt
<1> QED BY <1>1, <1>5, <1>6

\* A crash ends the turns under way and leaves the others alone.
LEMMA CrashEnds ==
    ASSUME TypeOK, Crash, NEW t \in Turns
    PROVE  /\ phase' \in [Turns -> Phases]
           /\ phase'[t] \in {"new", "gone", "rejected", "answered", "failed"}
           /\ phase'[t] = "gone" \/ phase'[t] = phase[t]
BY DEF TypeOK, Crash, Live

LEMMA NextTypeInv == TypeInv /\ [Next]_vars => TypeInv'
<1> SUFFICES ASSUME TypeInv, [Next]_vars PROVE TypeInv'
    OBVIOUS
<1>1. ASSUME NEW t \in Turns, Open(t) \/ Step(t) PROVE TypeInv'
    BY <1>1, TurnKeepsTypes
<1>2. CASE Crash
  <2>1. phase' \in [Turns -> Phases]
    <3>1. phase' = [t \in Turns |-> IF Live(t) THEN "gone" ELSE phase[t]]
        BY <1>2 DEF Crash
    <3> QED BY <3>1 DEF TypeInv, TypeOK
  <2>2. \A t \in Turns : phase'[t] \notin Connected
      BY <1>2, CrashEnds DEF TypeInv
  <2>3. ConnectionsOK'
      BY <1>2, <2>2, FS_EmptySet, LimitAssumption DEF Crash, ConnectionsOK
  <2>4. AttemptsFitPhase'
      BY <1>2, CrashEnds DEF Crash, TypeInv, AttemptsFitPhase
  <2> QED BY <1>2, <2>1, <2>3, <2>4 DEF Crash, TypeInv, TypeOK, ConnectionsOK
<1>3. CASE UNCHANGED vars
  <2>1. AttemptsFitPhase'
      BY <1>3 DEF vars, TypeInv, AttemptsFitPhase, HasNext, Untried, Tried
  <2> QED BY <1>3, <2>1 DEF vars, TypeInv, TypeOK
<1> QED BY <1>1, <1>2, <1>3 DEF Next, Quiet

\* Tables, phases and attempts keep their types, exactly the turns with an open
\* transaction hold a connection, and there are never more than the pool allows.
THEOREM TypeCorrect == Spec => []TypeOK
<1>1. TypeInv => TypeOK
    BY DEF TypeInv
<1> QED BY <1>1, InitTypeInv, NextTypeInv, PTL DEF Spec

-----------------------------------------------------------------------------
(* Answers and model calls.  The stored calls of a turn are its attempts,  *)
(* but for the last one while, or because, it could not be stored; and     *)
(* attempts go on only after a retryable error.                            *)

CallOf(t, i) == [turn |-> t, number |-> i,
                 model |-> attempts[t][i].model, result |-> attempts[t][i].result]

Last(t) == attempts[t][Number(t)]

\* Phases in which every attempt is stored, phases after a valid answer of a
\* model, and phases in which the answer may be stored.
Recorded == Phases \ {"attempted", "failed", "gone"}

Validated == {"answering", "replied", "answered"}

Told == {"replied", "answered", "failed", "gone"}

CallsAreAttempts ==
    \A c \in calls : c.number \in 1..Number(c.turn) /\ c = CallOf(c.turn, c.number)

AttemptsAreStored ==
    \A t \in Turns : \A i \in 1..Number(t) :
        i < Number(t) \/ phase[t] \in Recorded => CallOf(t, i) \in calls

OnlyRetryableIsRetried ==
    \A t \in Turns : \A i \in 1..Number(t) :
        i < Number(t) \/ phase[t] = "calling" => attempts[t][i].result = "retryable"

ValidBeforeAnswer == \A t \in Turns : phase[t] \in Validated => Last(t).result = "valid"

AnswersHaveCalls ==
    \A m \in messages : m.role = "assistant" =>
        /\ phase[m.turn] \in Told
        /\ attempts[m.turn] # <<>>
        /\ Last(m.turn).result = "valid"
        /\ CallOf(m.turn, Number(m.turn)) \in calls

AuditInv ==
    /\ CallsAreAttempts
    /\ AttemptsAreStored
    /\ OnlyRetryableIsRetried
    /\ ValidBeforeAnswer
    /\ AnswersHaveCalls

LEMMA InitAudit == Init => AuditInv
BY DEF Init, AuditInv, CallsAreAttempts, AttemptsAreStored, OnlyRetryableIsRetried,
       ValidBeforeAnswer, AnswersHaveCalls, Number, Validated

\* The steps that neither call a model, nor store a call, nor decide what
\* follows on one, nor store an answer.
OtherStep(t) ==
    \/ Open(t) \/ Reject(t) \/ SaveQuestion(t) \/ LoadHistory(t)
    \/ CheckIndexes(t) \/ Embed(t) \/ Retrieve(t) \/ ContextFails(t)
    \/ ReloadCall(t) \/ Reply(t) \/ DatabaseFails(t) \/ PoolTimeout(t)

LEMMA OtherSteps ==
    ASSUME TypeInv, NEW t \in Turns, OtherStep(t)
    PROVE  /\ UNCHANGED <<attempts, calls, traces>>
           /\ \A m \in messages' : m.role = "assistant" => m \in messages
           /\ \E p \in Phases :
                /\ Goto(t, p)
                /\ p \in Recorded => phase[t] \in Recorded
                /\ p = "calling" => attempts[t] = <<>>
                /\ p \in Validated => phase[t] \in Validated
                /\ phase[t] \in Told => p \in Told
<1> DEFINE Edge(p) == /\ Goto(t, p)
                      /\ p \in Recorded => phase[t] \in Recorded
                      /\ p = "calling" => attempts[t] = <<>>
                      /\ p \in Validated => phase[t] \in Validated
                      /\ phase[t] \in Told => p \in Told
<1> USE DEF Recorded, Validated, Told
<1>1. UNCHANGED <<attempts, calls, traces>>
    BY DEF OtherStep, Open, Reject, SaveQuestion, LoadHistory, CheckIndexes, Embed, Retrieve,
           ContextFails, ReloadCall, Reply, DatabaseFails, PoolTimeout
<1>2. \A m \in messages' : m.role = "assistant" => m \in messages
    BY DEF OtherStep, Open, Reject, SaveQuestion, CreateMessage, LoadHistory, CheckIndexes, Embed,
           Retrieve, ContextFails, ReloadCall, Reply, DatabaseFails, PoolTimeout
<1>3. ASSUME Open(t) PROVE Edge("opened")
    BY <1>3 DEF Open
<1>4. ASSUME Reject(t) PROVE Edge("rejected")
    BY <1>4 DEF Reject
<1>5. ASSUME SaveQuestion(t) PROVE Edge("asked")
    BY <1>5 DEF SaveQuestion
<1>6. ASSUME LoadHistory(t) PROVE Edge("loaded")
    BY <1>6 DEF LoadHistory
<1>7. ASSUME CheckIndexes(t) PROVE Edge("checked") \/ Edge("calling")
    BY <1>7 DEF CheckIndexes, TypeInv, AttemptsFitPhase
<1>8. ASSUME Embed(t) PROVE Edge("embedded")
    BY <1>8 DEF Embed
<1>9. ASSUME Retrieve(t) PROVE Edge("calling")
    BY <1>9 DEF Retrieve, TypeInv, AttemptsFitPhase
<1>10. ASSUME ReloadCall(t) PROVE Edge("tracing")
    BY <1>10 DEF ReloadCall
<1>11. ASSUME Reply(t) PROVE Edge("answered")
    BY <1>11 DEF Reply
<1>12. ASSUME ContextFails(t) \/ DatabaseFails(t) \/ PoolTimeout(t) PROVE Edge("failed")
    BY <1>12 DEF ContextFails, DatabaseFails, PoolTimeout, Fail
<1> HIDE DEF Edge
<1>13. \E p \in Phases : Edge(p)
    BY <1>3, <1>4, <1>5, <1>6, <1>7, <1>8, <1>9, <1>10, <1>11, <1>12 DEF OtherStep
<1> QED BY <1>1, <1>2, <1>13 DEF Edge

LEMMA OtherStepsKeepAudit ==
    ASSUME TypeInv, AuditInv, NEW t \in Turns, OtherStep(t)
    PROVE  AuditInv'
<1>1. /\ UNCHANGED <<attempts, calls>>
      /\ \A m \in messages' : m.role = "assistant" => m \in messages
    BY OtherSteps
<1>2. PICK p \in Phases :
          /\ Goto(t, p)
          /\ p \in Recorded => phase[t] \in Recorded
          /\ p = "calling" => attempts[t] = <<>>
          /\ p \in Validated => phase[t] \in Validated
          /\ phase[t] \in Told => p \in Told
    BY OtherSteps
<1>3. phase'[t] = p /\ \A u \in Turns \ {t} : phase'[u] = phase[u]
    BY <1>2, Moves DEF TypeInv
<1>4. \A u : Number(u)' = Number(u) /\ Last(u)' = Last(u) /\ \A i : CallOf(u, i)' = CallOf(u, i)
    BY <1>1 DEF Number, Last, CallOf
<1>5. CallsAreAttempts'
    BY <1>1, <1>4 DEF AuditInv, CallsAreAttempts
<1>6. AttemptsAreStored'
    BY <1>1, <1>2, <1>3, <1>4 DEF AuditInv, AttemptsAreStored
<1>7. OnlyRetryableIsRetried'
  <2>1. attempts[t] = <<>> => Number(t) = 0
      BY DEF Number
  <2> QED BY <1>1, <1>2, <1>3, <1>4, <2>1 DEF AuditInv, OnlyRetryableIsRetried
<1>8. ValidBeforeAnswer'
    BY <1>2, <1>3, <1>4 DEF AuditInv, ValidBeforeAnswer
<1>9. AnswersHaveCalls'
  <2>1. \A m \in messages : m.turn \in Turns
      BY DEF TypeInv, TypeOK, Message
  <2> QED BY <1>1, <1>2, <1>3, <1>4, <2>1 DEF AuditInv, AnswersHaveCalls
<1> QED BY <1>5, <1>6, <1>7, <1>8, <1>9 DEF AuditInv

LEMMA CallModelKeepsAudit ==
    ASSUME TypeInv, AuditInv, NEW t \in Turns, CallModel(t)
    PROVE  AuditInv'
<1>1. /\ UNCHANGED <<messages, calls>>
      /\ phase[t] = "calling" /\ Goto(t, "attempted")
    BY DEF CallModel
<1>2. phase'[t] = "attempted" /\ \A u \in Turns \ {t} : phase'[u] = phase[u]
    BY <1>1, Moves DEF TypeInv
<1>3. PICK a \in Attempt : /\ attempts'[t] = Append(attempts[t], a)
                           /\ \A u \in Turns \ {t} : attempts'[u] = attempts[u]
    BY CallAppends
<1>4. Number(t) \in Nat /\ attempts[t] \in Seq(Attempt)
  <2>1. attempts[t] \in Seq(Attempt)
      BY DEF TypeInv, TypeOK, Attempt
  <2> QED BY <2>1 DEF Number
<1>5. Number(t)' = Number(t) + 1 /\ \A i \in 1..Number(t) : attempts'[t][i] = attempts[t][i]
    BY <1>3, <1>4 DEF Number
<1>6. \A u \in Turns \ {t} : /\ Number(u)' = Number(u) /\ Last(u)' = Last(u)
                             /\ \A i : CallOf(u, i)' = CallOf(u, i)
    BY <1>3 DEF Number, Last, CallOf
<1>7. \A i \in 1..Number(t) : CallOf(t, i)' = CallOf(t, i)
    BY <1>5 DEF CallOf
<1>8. \A m \in messages : m.turn \in Turns
    BY DEF TypeInv, TypeOK, Message
<1>9. \A c \in calls : c.turn \in Turns
    BY DEF TypeInv, TypeOK, Call
<1>10. CallsAreAttempts'
  <2> SUFFICES ASSUME NEW c \in calls
               PROVE  c.number \in 1..Number(c.turn)' /\ c = CallOf(c.turn, c.number)'
      BY <1>1 DEF CallsAreAttempts
  <2>1. c.number \in 1..Number(c.turn) /\ c = CallOf(c.turn, c.number)
      BY DEF AuditInv, CallsAreAttempts
  <2>2. CASE c.turn = t
      BY <1>4, <1>5, <1>7, <2>1, <2>2
  <2>3. CASE c.turn # t
      BY <1>6, <1>9, <2>1, <2>3
  <2> QED BY <2>2, <2>3
<1>11. AttemptsAreStored'
  <2>1. \A i \in 1..Number(t) : CallOf(t, i) \in calls
      BY <1>1 DEF AuditInv, AttemptsAreStored, Recorded
  <2>2. \A i \in 1..Number(t)' : i < Number(t)' \/ phase'[t] \in Recorded => CallOf(t, i)' \in calls
      BY <1>2, <1>4, <1>5, <1>7, <2>1 DEF Recorded
  <2> QED BY <1>1, <1>2, <1>6, <2>2 DEF AuditInv, AttemptsAreStored
<1>12. OnlyRetryableIsRetried'
  <2>1. \A i \in 1..Number(t) : attempts[t][i].result = "retryable"
      BY <1>1 DEF AuditInv, OnlyRetryableIsRetried
  <2>2. \A i \in 1..Number(t)' : i < Number(t)' => attempts'[t][i].result = "retryable"
      BY <1>4, <1>5, <2>1
  <2> QED BY <1>2, <1>3, <1>6, <2>2 DEF AuditInv, OnlyRetryableIsRetried
<1>13. ValidBeforeAnswer'
    BY <1>2, <1>6 DEF AuditInv, ValidBeforeAnswer, Validated
<1>14. AnswersHaveCalls'
  <2>1. \A m \in messages : m.role = "assistant" => m.turn # t
      BY <1>1 DEF AuditInv, AnswersHaveCalls, Told
  <2> QED BY <1>1, <1>2, <1>3, <1>6, <1>8, <2>1 DEF AuditInv, AnswersHaveCalls
<1> QED BY <1>10, <1>11, <1>12, <1>13, <1>14 DEF AuditInv

LEMMA RecordCallKeepsAudit ==
    ASSUME TypeInv, AuditInv, NEW t \in Turns, RecordCall(t)
    PROVE  AuditInv'
<1>1. /\ UNCHANGED <<messages, attempts>>
      /\ phase[t] = "attempted" /\ Goto(t, "recorded")
      /\ calls' = calls \cup {CallOf(t, Number(t))}
    BY DEF RecordCall, CallOf
<1>2. phase'[t] = "recorded" /\ \A u \in Turns \ {t} : phase'[u] = phase[u]
    BY <1>1, Moves DEF TypeInv
<1>3. \A u : Number(u)' = Number(u) /\ Last(u)' = Last(u) /\ \A i : CallOf(u, i)' = CallOf(u, i)
    BY <1>1 DEF Number, Last, CallOf
<1>4. attempts[t] \in Seq(Attempt) /\ attempts[t] # <<>>
    BY <1>1 DEF TypeInv, TypeOK, Attempt, AttemptsFitPhase
<1>5. Number(t) \in Nat /\ Number(t) # 0
    BY <1>4 DEF Number
<1>6. CallsAreAttempts'
  <2>1. CallOf(t, Number(t)).turn = t /\ CallOf(t, Number(t)).number = Number(t)
      BY DEF CallOf
  <2>2. Number(t) \in 1..Number(t)
      BY <1>5
  <2> QED BY <1>1, <1>3, <2>1, <2>2 DEF AuditInv, CallsAreAttempts
<1>7. AttemptsAreStored'
  <2>1. \A i \in 1..Number(t) : CallOf(t, i) \in calls'
      BY <1>1, <1>5 DEF AuditInv, AttemptsAreStored
  <2> QED BY <1>1, <1>2, <1>3, <2>1 DEF AuditInv, AttemptsAreStored
<1>8. OnlyRetryableIsRetried'
    BY <1>1, <1>2, <1>3 DEF AuditInv, OnlyRetryableIsRetried
<1>9. ValidBeforeAnswer'
    BY <1>2, <1>3 DEF AuditInv, ValidBeforeAnswer, Validated
<1>10. AnswersHaveCalls'
  <2>1. \A m \in messages : m.role = "assistant" => m.turn # t /\ m.turn \in Turns
      BY <1>1 DEF AuditInv, AnswersHaveCalls, Told, TypeInv, TypeOK, Message
  <2> QED BY <1>1, <1>2, <1>3, <2>1 DEF AuditInv, AnswersHaveCalls
<1> QED BY <1>6, <1>7, <1>8, <1>9, <1>10 DEF AuditInv

LEMMA WriteTraceKeepsAudit ==
    ASSUME TypeInv, AuditInv, NEW t \in Turns, WriteTrace(t)
    PROVE  AuditInv'
<1>1. /\ UNCHANGED <<messages, attempts, calls>>
      /\ phase[t] = "tracing" /\ Goto(t, AfterTrace(t))
    BY DEF WriteTrace
<1>2. AfterTrace(t) \in {"answering", "calling", "failed"}
    BY DEF AfterTrace
<1>3. phase'[t] = AfterTrace(t) /\ \A u \in Turns \ {t} : phase'[u] = phase[u]
    BY <1>1, <1>2, Moves DEF TypeInv
<1>4. \A u : Number(u)' = Number(u) /\ Last(u)' = Last(u) /\ \A i : CallOf(u, i)' = CallOf(u, i)
    BY <1>1 DEF Number, Last, CallOf
<1>5. CallsAreAttempts'
    BY <1>1, <1>4 DEF AuditInv, CallsAreAttempts
<1>6. AttemptsAreStored'
    BY <1>1, <1>3, <1>4 DEF AuditInv, AttemptsAreStored, Recorded
<1>7. OnlyRetryableIsRetried'
  <2>1. AfterTrace(t) = "calling" => Last(t).result = "retryable"
      BY DEF AfterTrace, Last
  <2>2. Number(t) \in Nat
      BY DEF TypeInv, TypeOK, Number
  <2>3. \A i \in 1..Number(t) : i < Number(t) \/ i = Number(t)
      BY <2>2
  <2>4. \A i \in 1..Number(t) :
            i < Number(t) \/ phase'[t] = "calling" => attempts[t][i].result = "retryable"
      BY <1>3, <2>1, <2>3 DEF AuditInv, OnlyRetryableIsRetried, Last
  <2> QED BY <1>1, <1>3, <1>4, <2>4 DEF AuditInv, OnlyRetryableIsRetried
<1>8. ValidBeforeAnswer'
  <2>1. AfterTrace(t) = "answering" => Last(t).result = "valid"
      BY DEF AfterTrace, Last
  <2> QED BY <1>2, <1>3, <1>4, <2>1 DEF AuditInv, ValidBeforeAnswer, Validated
<1>9. AnswersHaveCalls'
  <2>1. \A m \in messages : m.role = "assistant" => m.turn # t /\ m.turn \in Turns
      BY <1>1 DEF AuditInv, AnswersHaveCalls, Told, TypeInv, TypeOK, Message
  <2> QED BY <1>1, <1>3, <1>4, <2>1 DEF AuditInv, AnswersHaveCalls
<1> QED BY <1>5, <1>6, <1>7, <1>8, <1>9 DEF AuditInv

LEMMA SaveAnswerKeepsAudit ==
    ASSUME TypeInv, AuditInv, NEW t \in Turns, SaveAnswer(t)
    PROVE  AuditInv'
<1> DEFINE answer == [turn |-> t, role |-> "assistant", at |-> stamp[t]]
<1>1. /\ UNCHANGED <<attempts, calls>>
      /\ phase[t] = "answering" /\ Goto(t, "replied")
      /\ messages' = messages \cup {answer}
    BY DEF SaveAnswer, CreateMessage
<1>2. phase'[t] = "replied" /\ \A u \in Turns \ {t} : phase'[u] = phase[u]
    BY <1>1, Moves DEF TypeInv
<1>3. \A u : Number(u)' = Number(u) /\ Last(u)' = Last(u) /\ \A i : CallOf(u, i)' = CallOf(u, i)
    BY <1>1 DEF Number, Last, CallOf
<1>4. CallsAreAttempts'
    BY <1>1, <1>3 DEF AuditInv, CallsAreAttempts
<1>5. AttemptsAreStored'
    BY <1>1, <1>2, <1>3 DEF AuditInv, AttemptsAreStored, Recorded
<1>6. OnlyRetryableIsRetried'
    BY <1>1, <1>2, <1>3 DEF AuditInv, OnlyRetryableIsRetried
<1>7. ValidBeforeAnswer'
    BY <1>1, <1>2, <1>3 DEF AuditInv, ValidBeforeAnswer, Validated
<1>8. AnswersHaveCalls'
  <2>1. answer.turn = t
      OBVIOUS
  <2>2. attempts[t] # <<>> /\ attempts[t] \in Seq(Attempt)
      BY <1>1 DEF TypeInv, TypeOK, Attempt, AttemptsFitPhase
  <2>3. Number(t) \in 1..Number(t)
      BY <2>2 DEF Number
  <2>4. CallOf(t, Number(t)) \in calls /\ Last(t).result = "valid"
      BY <1>1, <2>3 DEF AuditInv, AttemptsAreStored, ValidBeforeAnswer, Recorded, Validated
  <2>5. \A m \in messages : m.role = "assistant" => m.turn # t /\ m.turn \in Turns
      BY <1>1 DEF AuditInv, AnswersHaveCalls, Told, TypeInv, TypeOK, Message
  <2> HIDE DEF answer
  <2> QED BY <1>1, <1>2, <1>3, <2>1, <2>2, <2>4, <2>5 DEF AuditInv, AnswersHaveCalls, Told
<1> QED BY <1>4, <1>5, <1>6, <1>7, <1>8 DEF AuditInv

LEMMA NextAudit == TypeInv /\ AuditInv /\ [Next]_vars => AuditInv'
<1> SUFFICES ASSUME TypeInv, AuditInv, [Next]_vars PROVE AuditInv'
    OBVIOUS
<1>1. ASSUME NEW t \in Turns, Open(t) \/ Step(t) PROVE AuditInv'
    BY <1>1, OtherStepsKeepAudit, CallModelKeepsAudit, RecordCallKeepsAudit,
       WriteTraceKeepsAudit, SaveAnswerKeepsAudit DEF Step, OtherStep
<1>2. CASE UNCHANGED <<messages, attempts, calls>> /\
           \A t \in Turns : phase'[t] = "gone" \/ phase'[t] = phase[t]
  <2>1. \A u : Number(u)' = Number(u) /\ Last(u)' = Last(u) /\ \A i : CallOf(u, i)' = CallOf(u, i)
      BY <1>2 DEF Number, Last, CallOf
  <2>2. CallsAreAttempts'
      BY <1>2, <2>1 DEF AuditInv, CallsAreAttempts
  <2>3. AttemptsAreStored'
      BY <1>2, <2>1 DEF AuditInv, AttemptsAreStored, Recorded
  <2>4. OnlyRetryableIsRetried'
      BY <1>2, <2>1 DEF AuditInv, OnlyRetryableIsRetried
  <2>5. ValidBeforeAnswer'
      BY <1>2, <2>1 DEF AuditInv, ValidBeforeAnswer, Validated
  <2>6. AnswersHaveCalls'
    <3>1. \A m \in messages : m.turn \in Turns
        BY DEF TypeInv, TypeOK, Message
    <3> QED BY <1>2, <2>1, <3>1 DEF AuditInv, AnswersHaveCalls, Told
  <2> QED BY <2>2, <2>3, <2>4, <2>5, <2>6 DEF AuditInv
<1>3. CASE Crash
    BY <1>2, <1>3, CrashEnds DEF Crash, TypeInv
<1>4. CASE UNCHANGED vars
    BY <1>2, <1>4 DEF vars
<1> QED BY <1>1, <1>3, <1>4 DEF Next, Quiet

LEMMA AuditInvariant == Spec => [](TypeInv /\ AuditInv)
BY InitTypeInv, NextTypeInv, InitAudit, NextAudit, PTL DEF Spec

\* Every stored answer is accounted for by the stored calls of its turn, in
\* unbroken numbers: a valid last one, and retryable errors before it.
THEOREM AnswersAreAuditedAlways == Spec => []AnswersAreAudited
<1>1. TypeInv /\ AuditInv => AnswersAreAudited
  <2> SUFFICES ASSUME TypeInv, AuditInv, NEW m \in messages, m.role = "assistant"
               PROVE  \E last \in CallsOf(m.turn) :
                        /\ last.result = "valid"
                        /\ {c.number : c \in CallsOf(m.turn)} = 1..last.number
                        /\ \A c \in CallsOf(m.turn) \ {last} :
                              c.result = "retryable" /\ c.number < last.number
      BY DEF AnswersAreAudited
  <2> DEFINE t == m.turn
             n == Number(t)
             last == CallOf(t, n)
  <2>1. t \in Turns /\ last \in calls /\ Last(t).result = "valid"
      BY DEF AuditInv, AnswersHaveCalls, TypeInv, TypeOK, Message
  <2>2. last.turn = t /\ last.number = n /\ last.result = "valid" /\ last \in CallsOf(t)
      BY <2>1 DEF CallOf, Last, CallsOf
  <2>3. n \in Nat
    <3>1. attempts[t] \in Seq(Attempt)
        BY <2>1 DEF TypeInv, TypeOK, Attempt
    <3> QED BY <3>1 DEF Number
  <2>4. \A c \in CallsOf(t) : c.number \in 1..n /\ c = CallOf(t, c.number)
      BY DEF CallsOf, AuditInv, CallsAreAttempts
  <2>5. \A i \in 1..n : CallOf(t, i) \in CallsOf(t) /\ CallOf(t, i).number = i
    <3>1. \A i \in 1..n : i < n \/ i = n
        BY <2>3
    <3>2. \A i \in 1..n : CallOf(t, i) \in calls
        BY <2>1, <3>1 DEF AuditInv, AttemptsAreStored
    <3> QED BY <3>2 DEF CallsOf, CallOf
  <2>6. \A c \in CallsOf(t) \ {last} : c.result = "retryable" /\ c.number < n
    <3> TAKE c \in CallsOf(t) \ {last}
    <3>1. c.number < n
        BY <2>3, <2>4
    <3>2. attempts[t][c.number].result = "retryable"
        BY <2>1, <2>4, <3>1 DEF AuditInv, OnlyRetryableIsRetried
    <3>3. c = CallOf(t, c.number)
        BY <2>4
    <3>4. CallOf(t, c.number).result = attempts[t][c.number].result
        BY DEF CallOf
    <3> QED BY <3>1, <3>2, <3>3, <3>4
  <2> HIDE DEF last, n, t
  <2>7. {c.number : c \in CallsOf(t)} = 1..n
      BY <2>4, <2>5
  <2>8. \E x \in CallsOf(t) : /\ x.result = "valid"
                              /\ {c.number : c \in CallsOf(t)} = 1..x.number
                              /\ \A c \in CallsOf(t) \ {x} : c.result = "retryable" /\ c.number < x.number
      BY <2>2, <2>6, <2>7
  <2> QED BY <2>8 DEF t
<1> QED BY <1>1, AuditInvariant, PTL

\* No model is called while an earlier attempt of the turn is not stored.
THEOREM NoUnrecordedRetryEver == Spec => []NoUnrecordedRetry
<1>1. TypeInv /\ AuditInv => NoUnrecordedRetry
  <2> SUFFICES ASSUME TypeInv, AuditInv, NEW t \in Turns, phase[t] = "calling"
               PROVE  {<<c.number, c.model>> : c \in CallsOf(t)} =
                          {<<i, attempts[t][i].model>> : i \in DOMAIN attempts[t]}
      BY DEF NoUnrecordedRetry
  <2>1. DOMAIN attempts[t] = 1..Number(t)
    <3>1. attempts[t] \in Seq(Attempt)
        BY DEF TypeInv, TypeOK, Attempt
    <3> QED BY <3>1 DEF Number
  <2>2. \A i \in 1..Number(t) : CallOf(t, i) \in calls
      BY DEF AuditInv, AttemptsAreStored, Recorded
  <2>3. \A i \in 1..Number(t) : /\ CallOf(t, i) \in CallsOf(t)
                                /\ CallOf(t, i).number = i
                                /\ CallOf(t, i).model = attempts[t][i].model
      BY <2>2 DEF CallsOf, CallOf
  <2>4. \A c \in CallsOf(t) : c.number \in 1..Number(t) /\ c.model = attempts[t][c.number].model
    <3> TAKE c \in CallsOf(t)
    <3>1. c.number \in 1..Number(t) /\ c = CallOf(t, c.number)
        BY DEF CallsOf, AuditInv, CallsAreAttempts
    <3>2. CallOf(t, c.number).model = attempts[t][c.number].model
        BY DEF CallOf
    <3> QED BY <3>1, <3>2
  <2> QED BY <2>1, <2>3, <2>4
<1> QED BY <1>1, AuditInvariant, PTL

\* Stored calls are never removed, and a trace line is written only of an
\* attempt that is stored.
LEMMA StepsOfTraces ==
    ASSUME TypeInv, AuditInv, [Next]_vars
    PROVE  /\ calls \subseteq calls'
           /\ \A line \in traces' \ traces : CallOf(line[1], line[2]) \in calls
<1>1. ASSUME NEW t \in Turns, OtherStep(t) PROVE UNCHANGED <<calls, traces>>
    BY <1>1, OtherSteps
<1>2. ASSUME NEW t \in Turns, CallModel(t) \/ SaveAnswer(t) PROVE UNCHANGED <<calls, traces>>
    BY <1>2 DEF CallModel, SaveAnswer
<1>3. ASSUME NEW t \in Turns, RecordCall(t) PROVE calls \subseteq calls' /\ UNCHANGED traces
    BY <1>3 DEF RecordCall
<1>4. ASSUME NEW t \in Turns, WriteTrace(t)
      PROVE  /\ UNCHANGED calls
             /\ \A line \in traces' \ traces : CallOf(line[1], line[2]) \in calls
  <2>1. phase[t] = "tracing" /\ UNCHANGED calls /\ traces' \subseteq traces \cup {<<t, Number(t)>>}
      BY <1>4 DEF WriteTrace
  <2>2. attempts[t] # <<>> /\ attempts[t] \in Seq(Attempt)
      BY <2>1 DEF TypeInv, TypeOK, Attempt, AttemptsFitPhase
  <2>3. Number(t) \in 1..Number(t)
      BY <2>2 DEF Number
  <2>4. CallOf(t, Number(t)) \in calls
      BY <2>1, <2>3 DEF AuditInv, AttemptsAreStored, Recorded
  <2> QED BY <2>1, <2>4
<1>5. CASE Crash \/ UNCHANGED vars
    BY <1>5 DEF Crash, vars
<1> QED BY <1>1, <1>2, <1>3, <1>4, <1>5 DEF Next, Step, OtherStep, Quiet

\* Every trace line can be joined with a stored model call.
THEOREM TracesHaveCallsAlways == Spec => []TracesHaveCalls
<1>1. Init => TracesHaveCalls
    BY DEF Init, TracesHaveCalls
<1>2. TypeInv /\ AuditInv /\ TracesHaveCalls /\ [Next]_vars => TracesHaveCalls'
  <2> SUFFICES ASSUME TypeInv, AuditInv, TracesHaveCalls, [Next]_vars, NEW line \in traces'
               PROVE  \E c \in calls' : c.turn = line[1] /\ c.number = line[2]
      BY DEF TracesHaveCalls, CallsOf
  <2>1. CASE line \in traces
      BY <2>1, StepsOfTraces DEF TracesHaveCalls, CallsOf
  <2>2. CASE line \notin traces
    <3>1. CallOf(line[1], line[2]) \in calls'
        BY <2>2, StepsOfTraces
    <3>2. CallOf(line[1], line[2]).turn = line[1] /\ CallOf(line[1], line[2]).number = line[2]
        BY DEF CallOf
    <3> QED BY <3>1, <3>2
  <2> QED BY <2>1, <2>2
<1> QED BY <1>1, <1>2, AuditInvariant, PTL DEF Spec

\* No turn calls the same model twice, whatever model it asks for and whatever
\* fallbacks are configured, repeated ones included.
THEOREM EachModelOnceAlways == Spec => []EachModelOnce
<1>1. Init => EachModelOnce
    BY DEF Init, EachModelOnce
<1>2. TypeInv /\ EachModelOnce /\ [Next]_vars => EachModelOnce'
  <2> SUFFICES ASSUME TypeInv, EachModelOnce, [Next]_vars PROVE EachModelOnce'
      OBVIOUS
  <2>1. ASSUME NEW t \in Turns, CallModel(t) PROVE EachModelOnce'
    <3>1. PICK result \in Results :
              /\ attempts'[t] = Append(attempts[t], [model |-> NextModel(t), result |-> result])
              /\ [model |-> NextModel(t), result |-> result] \in Attempt
              /\ \A u \in Turns \ {t} : attempts'[u] = attempts[u]
        BY <2>1, CallAppends
    <3> DEFINE a == [model |-> NextModel(t), result |-> result]
    <3>2. HasNext(t)
        BY <2>1 DEF CallModel, TypeInv, AttemptsFitPhase
    <3>3. a.model \notin Tried(t)
        BY <3>2, NextModelIsFresh DEF TypeInv
    <3>4. attempts[t] \in Seq(Attempt) /\ a \in Attempt
        BY <3>1 DEF TypeInv, TypeOK, Attempt
    <3>5. attempts'[t] = Append(attempts[t], a)
        BY <3>1
    <3> HIDE DEF a
    <3> DEFINE n == Len(attempts[t])
    <3>6. /\ n \in Nat
          /\ DOMAIN attempts[t] = 1..n
          /\ DOMAIN attempts'[t] = 1..(n + 1)
          /\ attempts'[t][n + 1] = a
          /\ \A i \in 1..n : attempts'[t][i] = attempts[t][i]
        BY <3>4, <3>5
    <3>7. \A i \in 1..n : attempts'[t][i].model # a.model
        BY <3>3, <3>6 DEF Tried
    <3> HIDE DEF n
    <3>8. \A i, j \in 1..n : attempts'[t][i].model = attempts'[t][j].model => i = j
        BY <3>6 DEF EachModelOnce
    <3>9. \A i \in 1..(n + 1) : i \in 1..n \/ i = n + 1
        BY <3>6
    <3>10. \A i, j \in DOMAIN attempts'[t] :
               attempts'[t][i].model = attempts'[t][j].model => i = j
        BY <3>6, <3>7, <3>8, <3>9
    <3> QED BY <3>1, <3>10 DEF EachModelOnce
  <2>2. CASE UNCHANGED attempts
      BY <2>2 DEF EachModelOnce
  <2>3. CASE Crash \/ UNCHANGED vars
      BY <2>2, <2>3 DEF Crash, vars
  <2>4. ASSUME NEW t \in Turns, Open(t) \/ Step(t) PROVE EachModelOnce'
      BY <2>1, <2>2, <2>4, TurnSteps
  <2> QED BY <2>3, <2>4 DEF Next, Quiet
<1> QED BY <1>1, <1>2, InitTypeInv, NextTypeInv, PTL DEF Spec

-----------------------------------------------------------------------------
(* The order of the conversation.                                          *)

\* Phases a turn reaches only with its question stored, and those it reaches
\* only in, or after, a transaction that began after the question's.
Asked == Phases \ {"new", "opened", "rejected", "failed", "gone"}

Later == Asked \ {"asked", "answered"}

QuestionOf(t, q) == q.turn = t /\ q.role = "user"

QuestionsFirst ==
    /\ \A m \in messages : m.at <= clock
    /\ \A t \in Turns : phase[t] \in Asked => \E q \in messages : QuestionOf(t, q)
    /\ \A t \in Turns : phase[t] \in Later => \E q \in messages : QuestionOf(t, q) /\ q.at < stamp[t]

OrderInv == QuestionsFirst /\ (\A t \in Turns : stamp[t] <= clock) /\ AnswersFollowQuestions

\* What a step of a turn does to the messages and to the time: it leaves both
\* alone, or begins a transaction, or stores one message with the time of the
\* transaction it is in.
Waits(t, p) ==
    /\ UNCHANGED <<messages, stamp, clock>>
    /\ p \in Asked => phase[t] \in Asked
    /\ p \in Later => phase[t] \in Later

Begins(t, p) ==
    /\ UNCHANGED messages
    /\ clock' = clock + 1
    /\ stamp' = [stamp EXCEPT ![t] = clock + 1]
    /\ p \in Asked => phase[t] \in Asked

Stores(t, p, role) ==
    /\ messages' = messages \cup {[turn |-> t, role |-> role, at |-> stamp[t]]}
    /\ UNCHANGED <<stamp, clock>>
    /\ \/ role = "user" /\ p = "asked"
       \/ role = "assistant" /\ p = "replied" /\ phase[t] = "answering"

LEMMA TimeSteps ==
    ASSUME TypeInv, NEW t \in Turns, Open(t) \/ Step(t)
    PROVE  \E p \in Phases :
              /\ Goto(t, p)
              /\ Waits(t, p) \/ Begins(t, p) \/ Stores(t, p, "user") \/ Stores(t, p, "assistant")
<1> DEFINE Edge(p) ==
        /\ Goto(t, p)
        /\ Waits(t, p) \/ Begins(t, p) \/ Stores(t, p, "user") \/ Stores(t, p, "assistant")
<1> SUFFICES \E p \in Phases : Edge(p)
    OBVIOUS
<1> USE DEF Asked, Later
<1>1. ASSUME Open(t) PROVE Edge("opened")
    BY <1>1 DEF Open, Begin, Begins
<1>2. ASSUME Reject(t) PROVE Edge("rejected")
    BY <1>2 DEF Reject, Waits
<1>3. ASSUME SaveQuestion(t) PROVE Edge("asked")
    BY <1>3 DEF SaveQuestion, CreateMessage, Stores
<1>4. ASSUME LoadHistory(t) PROVE Edge("loaded")
    BY <1>4 DEF LoadHistory, Begin, Begins
<1>5. ASSUME CheckIndexes(t) PROVE Edge("checked") \/ Edge("calling")
    BY <1>5 DEF CheckIndexes, Waits
<1>6. ASSUME Embed(t) PROVE Edge("embedded")
    BY <1>6 DEF Embed, Waits
<1>7. ASSUME Retrieve(t) PROVE Edge("calling")
    BY <1>7 DEF Retrieve, Waits
<1>8. ASSUME CallModel(t) PROVE Edge("attempted")
    BY <1>8 DEF CallModel, Waits
<1>9. ASSUME RecordCall(t) PROVE Edge("recorded")
    BY <1>9 DEF RecordCall, Waits
<1>10. ASSUME ReloadCall(t) PROVE Edge("tracing")
    BY <1>10 DEF ReloadCall, Begin, Begins
<1>11. ASSUME WriteTrace(t) PROVE \E p \in Phases : Edge(p)
  <2>1. AfterTrace(t) \in {"answering", "calling", "failed"}
      BY DEF AfterTrace
  <2> QED BY <1>11, <2>1 DEF WriteTrace, Waits
<1>12. ASSUME SaveAnswer(t) PROVE Edge("replied")
    BY <1>12 DEF SaveAnswer, CreateMessage, Stores
<1>13. ASSUME Reply(t) PROVE Edge("answered")
    BY <1>13 DEF Reply, Waits
<1>14. ASSUME ContextFails(t) \/ DatabaseFails(t) \/ PoolTimeout(t) PROVE Edge("failed")
    BY <1>14 DEF ContextFails, DatabaseFails, PoolTimeout, Fail, Waits
<1> HIDE DEF Edge
<1> QED BY <1>1, <1>2, <1>3, <1>4, <1>5, <1>6, <1>7, <1>8, <1>9, <1>10, <1>11, <1>12, <1>13,
           <1>14 DEF Step

LEMMA TurnKeepsOrder ==
    ASSUME TypeInv, OrderInv, NEW t \in Turns, Open(t) \/ Step(t)
    PROVE  OrderInv'
<1>1. PICK p \in Phases :
          /\ Goto(t, p)
          /\ Waits(t, p) \/ Begins(t, p) \/ Stores(t, p, "user") \/ Stores(t, p, "assistant")
    BY TimeSteps
<1>2. phase'[t] = p /\ \A u \in Turns \ {t} : phase'[u] = phase[u]
    BY <1>1, Moves DEF TypeInv
<1>3. /\ clock \in Nat /\ stamp \in [Turns -> Nat]
      /\ \A m \in messages : m.at \in Nat /\ m.turn \in Turns
    BY DEF TypeInv, TypeOK, Message
<1>4. CASE Waits(t, p)
    BY <1>2, <1>4 DEF Waits, OrderInv, QuestionsFirst, AnswersFollowQuestions
<1>5. CASE Begins(t, p)
  <2>1. /\ stamp'[t] = clock + 1 /\ \A u \in Turns \ {t} : stamp'[u] = stamp[u]
        /\ clock' = clock + 1 /\ messages' = messages
        /\ p \in Asked => phase[t] \in Asked
      BY <1>3, <1>5 DEF Begins
  <2>2. QuestionsFirst'
    <3>1. \A m \in messages' : m.at <= clock' /\ m.at < stamp'[t]
        BY <1>3, <2>1 DEF OrderInv, QuestionsFirst
    <3>2. p \in Asked => \E q \in messages : QuestionOf(t, q)
        BY <2>1 DEF OrderInv, QuestionsFirst
    <3>3. p \in Later => p \in Asked
        BY DEF Later
    <3> QED BY <1>2, <2>1, <3>1, <3>2, <3>3 DEF OrderInv, QuestionsFirst
  <2>3. \A u \in Turns : stamp'[u] <= clock'
      BY <1>3, <2>1 DEF OrderInv
  <2>4. AnswersFollowQuestions'
      BY <2>1 DEF OrderInv, AnswersFollowQuestions
  <2> QED BY <2>2, <2>3, <2>4 DEF OrderInv
<1>6. ASSUME NEW role \in {"user", "assistant"}, Stores(t, p, role) PROVE OrderInv'
  <2> DEFINE new == [turn |-> t, role |-> role, at |-> stamp[t]]
  <2>1. /\ messages' = messages \cup {new}
        /\ stamp' = stamp /\ clock' = clock
        /\ \/ role = "user" /\ p = "asked"
           \/ role = "assistant" /\ p = "replied" /\ phase[t] = "answering"
      BY <1>6 DEF Stores
  <2>2. new.turn = t /\ new.role = role /\ new.at = stamp[t]
      OBVIOUS
  <2> HIDE DEF new
  <2>3. role = "assistant" => \E q \in messages : QuestionOf(t, q) /\ q.at < stamp[t]
      BY <2>1 DEF OrderInv, QuestionsFirst, Asked, Later
  <2>4. \A m \in messages' : m.at <= clock'
      BY <2>1, <2>2 DEF OrderInv, QuestionsFirst
  <2>5. \E q \in messages' : QuestionOf(t, q)
      BY <2>1, <2>2, <2>3 DEF QuestionOf
  <2>6. p \in Later => \E q \in messages' : QuestionOf(t, q) /\ q.at < stamp'[t]
      BY <2>1, <2>3 DEF Later
  <2>7. QuestionsFirst'
      BY <1>2, <2>1, <2>4, <2>5, <2>6 DEF OrderInv, QuestionsFirst
  <2>8. AnswersFollowQuestions'
      BY <2>1, <2>2, <2>3 DEF OrderInv, AnswersFollowQuestions, QuestionOf
  <2> QED BY <2>1, <2>7, <2>8 DEF OrderInv
<1> QED BY <1>1, <1>4, <1>5, <1>6

LEMMA NextOrder == TypeInv /\ OrderInv /\ [Next]_vars => OrderInv'
<1> SUFFICES ASSUME TypeInv, OrderInv, [Next]_vars PROVE OrderInv'
    OBVIOUS
<1>1. ASSUME NEW t \in Turns, Open(t) \/ Step(t) PROVE OrderInv'
    BY <1>1, TurnKeepsOrder
<1>2. CASE Crash
  <2>1. \A t \in Turns : phase'[t] = "gone" \/ phase'[t] = phase[t]
      BY <1>2, CrashEnds DEF TypeInv
  <2> QED BY <1>2, <2>1 DEF Crash, OrderInv, QuestionsFirst, AnswersFollowQuestions, Asked, Later
<1>3. CASE UNCHANGED vars
    BY <1>3 DEF vars, OrderInv, QuestionsFirst, AnswersFollowQuestions
<1> QED BY <1>1, <1>2, <1>3 DEF Next, Quiet

LEMMA OrderInvariant == Spec => [](TypeInv /\ OrderInv)
<1>1. Init => OrderInv
    BY DEF Init, OrderInv, QuestionsFirst, AnswersFollowQuestions, Asked, Later
<1> QED BY <1>1, InitTypeInv, NextTypeInv, NextOrder, PTL DEF Spec

\* Also when turns overlap, an answer has a question of its turn before it in
\* the order of the conversation.
THEOREM AnswersFollowQuestionsAlways == Spec => []AnswersFollowQuestions
<1>1. OrderInv => AnswersFollowQuestions
    BY DEF OrderInv
<1> QED BY <1>1, OrderInvariant, PTL

-----------------------------------------------------------------------------
(* The refinement: what a session holds is a conversation.                 *)

\* A turn has no message before its question is stored, and has its answer
\* once the answer is stored.
SessionInv ==
    /\ \A t \in Turns : phase[t] \in {"new", "opened", "rejected"} =>
            \A m \in messages : m.turn # t
    /\ \A t \in Turns : phase[t] \in {"replied", "answered"} =>
            \E m \in messages : m.turn = t /\ m.role = "assistant"
    /\ \A t \in Turns : phase[t] \in Asked => \E m \in messages : QuestionOf(t, m)

\* The steps that store a message.
Saves(t) == SaveQuestion(t) \/ SaveAnswer(t)

LEMMA StepsOfSession ==
    ASSUME TypeInv, NEW t \in Turns, Open(t) \/ Step(t)
    PROVE  \E p \in Phases :
              /\ Goto(t, p)
              /\ Saves(t) \/ UNCHANGED messages
              /\ p \in {"new", "opened", "rejected"} => phase[t] \in {"new", "opened"}
              /\ p \in {"replied", "answered"} => phase[t] = "replied" \/ SaveAnswer(t)
              /\ p \in Asked => phase[t] \in Asked \/ SaveQuestion(t)
              /\ phase[t] \notin Ended
<1> DEFINE Edge(p) ==
              /\ Goto(t, p)
              /\ Saves(t) \/ UNCHANGED messages
              /\ p \in {"new", "opened", "rejected"} => phase[t] \in {"new", "opened"}
              /\ p \in {"replied", "answered"} => phase[t] = "replied" \/ SaveAnswer(t)
              /\ p \in Asked => phase[t] \in Asked \/ SaveQuestion(t)
              /\ phase[t] \notin Ended
<1> SUFFICES \E p \in Phases : Edge(p)
    OBVIOUS
<1> USE DEF Asked, Saves
<1>1. ASSUME Open(t) PROVE Edge("opened")
    BY <1>1 DEF Open
<1>2. ASSUME Reject(t) PROVE Edge("rejected")
    BY <1>2 DEF Reject
<1>3. ASSUME SaveQuestion(t) PROVE Edge("asked")
    BY <1>3 DEF SaveQuestion
<1>4. ASSUME LoadHistory(t) PROVE Edge("loaded")
    BY <1>4 DEF LoadHistory
<1>5. ASSUME CheckIndexes(t) PROVE Edge("checked") \/ Edge("calling")
    BY <1>5 DEF CheckIndexes
<1>6. ASSUME Embed(t) PROVE Edge("embedded")
    BY <1>6 DEF Embed
<1>7. ASSUME Retrieve(t) PROVE Edge("calling")
    BY <1>7 DEF Retrieve
<1>8. ASSUME CallModel(t) PROVE Edge("attempted")
    BY <1>8 DEF CallModel
<1>9. ASSUME RecordCall(t) PROVE Edge("recorded")
    BY <1>9 DEF RecordCall
<1>10. ASSUME ReloadCall(t) PROVE Edge("tracing")
    BY <1>10 DEF ReloadCall
<1>11. ASSUME WriteTrace(t) PROVE \E p \in Phases : Edge(p)
  <2>1. AfterTrace(t) \in {"answering", "calling", "failed"}
      BY DEF AfterTrace
  <2> QED BY <1>11, <2>1 DEF WriteTrace
<1>12. ASSUME SaveAnswer(t) PROVE Edge("replied")
    BY <1>12 DEF SaveAnswer
<1>13. ASSUME Reply(t) PROVE Edge("answered")
    BY <1>13 DEF Reply
<1>14. ASSUME ContextFails(t) \/ DatabaseFails(t) \/ PoolTimeout(t) PROVE Edge("failed")
  <2>1. phase[t] \notin Ended
      BY <1>14 DEF ContextFails, DatabaseFails, PoolTimeout, AtDatabase, NeedsConnection
  <2> QED BY <1>14, <2>1 DEF ContextFails, DatabaseFails, PoolTimeout, Fail
<1> HIDE DEF Edge
<1> QED BY <1>1, <1>2, <1>3, <1>4, <1>5, <1>6, <1>7, <1>8, <1>9, <1>10, <1>11, <1>12, <1>13,
           <1>14 DEF Step

\* What a step that stores a message does.
LEMMA SaveSteps ==
    ASSUME TypeInv, NEW t \in Turns, Saves(t)
    PROVE  \E role \in {"user", "assistant"} :
              /\ messages' = messages \cup {[turn |-> t, role |-> role, at |-> stamp[t]]}
              /\ \/ role = "user" /\ phase[t] = "opened" /\ phase'[t] = "asked" /\ SaveQuestion(t)
                 \/ role = "assistant" /\ phase[t] = "answering" /\ phase'[t] = "replied" /\ SaveAnswer(t)
              /\ \A u \in Turns \ {t} : phase'[u] = phase[u]
<1>1. CASE SaveQuestion(t)
    BY <1>1, Moves DEF SaveQuestion, CreateMessage, TypeInv
<1>2. CASE SaveAnswer(t)
    BY <1>2, Moves DEF SaveAnswer, CreateMessage, TypeInv
<1> QED BY <1>1, <1>2 DEF Saves

LEMMA NextSession == TypeInv /\ SessionInv /\ [Next]_vars => SessionInv'
<1> SUFFICES ASSUME TypeInv, SessionInv, [Next]_vars PROVE SessionInv'
    OBVIOUS
<1>1. ASSUME NEW t \in Turns, Open(t) \/ Step(t) PROVE SessionInv'
  <2>1. PICK p \in Phases :
              /\ Goto(t, p)
              /\ Saves(t) \/ UNCHANGED messages
              /\ p \in {"new", "opened", "rejected"} => phase[t] \in {"new", "opened"}
              /\ p \in {"replied", "answered"} => phase[t] = "replied" \/ SaveAnswer(t)
              /\ p \in Asked => phase[t] \in Asked \/ SaveQuestion(t)
      BY <1>1, StepsOfSession
  <2>2. phase'[t] = p /\ \A u \in Turns \ {t} : phase'[u] = phase[u]
      BY <2>1, Moves DEF TypeInv
  <2>3. CASE UNCHANGED messages /\ ~Saves(t)
      BY <2>1, <2>2, <2>3 DEF SessionInv, Saves
  <2>4. CASE Saves(t)
    <3>1. PICK role \in {"user", "assistant"} :
              /\ messages' = messages \cup {[turn |-> t, role |-> role, at |-> stamp[t]]}
              /\ \/ role = "user" /\ phase'[t] = "asked"
                 \/ role = "assistant" /\ phase[t] = "answering" /\ phase'[t] = "replied"
        BY <2>4, SaveSteps
    <3> DEFINE new == [turn |-> t, role |-> role, at |-> stamp[t]]
    <3>2. messages' = messages \cup {new} /\ new.turn = t /\ new.role = role
        BY <3>1
    <3> HIDE DEF new
    <3>3. \A u \in Turns : phase'[u] \in {"new", "opened", "rejected"} =>
              u # t /\ \A m \in messages' : m.turn # u
        BY <2>2, <3>1, <3>2 DEF SessionInv
    <3>4. \A u \in Turns : phase'[u] \in {"replied", "answered"} =>
              \E m \in messages' : m.turn = u /\ m.role = "assistant"
        BY <2>2, <3>1, <3>2 DEF SessionInv
    <3>5. \E m \in messages' : QuestionOf(t, m)
        BY <3>1, <3>2 DEF SessionInv, Asked, QuestionOf
    <3> QED BY <2>2, <3>2, <3>3, <3>4, <3>5 DEF SessionInv
  <2> QED BY <2>1, <2>3, <2>4
<1>2. CASE Crash
  <2>1. \A t \in Turns : phase'[t] = "gone" \/ phase'[t] = phase[t]
      BY <1>2, CrashEnds DEF TypeInv
  <2> QED BY <1>2, <2>1 DEF Crash, SessionInv, Asked
<1>3. CASE UNCHANGED vars
    BY <1>3 DEF vars, SessionInv
<1> QED BY <1>1, <1>2, <1>3 DEF Next, Quiet

LEMMA SessionInvariant == Spec => [](TypeInv /\ AuditInv /\ SessionInv)
<1>1. Init => SessionInv
    BY DEF Init, SessionInv, Asked
<1> QED BY <1>1, InitTypeInv, NextTypeInv, NextSession, InitAudit, NextAudit, PTL DEF Spec

\* The mapping of the refinement.
Log == {<<m.turn, m.role>> : m \in messages}

Status == [t \in Turns |-> TurnStatus(t)]

LEMMA InitImplements == Init => Session!Init
BY DEF Init, Session!Init, TurnStatus, HasMessage

\* A step that stores no message changes the status of no turn, or ends turns
\* that are not answered.
LEMMA SilentImplements ==
    ASSUME UNCHANGED messages, \A t \in Turns : phase[t] \in Ended => phase'[t] \in Ended
    PROVE  Session!Drop \/ UNCHANGED <<Log, Status>>
<1> DEFINE dropped == {t \in Turns : /\ phase[t] \notin Ended /\ phase'[t] \in Ended
                                     /\ ~HasMessage(t, "assistant")}
<1>1. UNCHANGED Log
    BY DEF Log
<1>2. \A t \in Turns : \A role : HasMessage(t, role)' = HasMessage(t, role)
    BY DEF HasMessage
<1>3. \A t \in dropped : TurnStatus(t) \in {"new", "asked"}
    BY DEF TurnStatus
<1>4. \A t \in Turns : TurnStatus(t)' = IF t \in dropped THEN "over" ELSE TurnStatus(t)
    BY <1>2 DEF TurnStatus
<1> HIDE DEF dropped
<1>5. Status' = [t \in Turns |-> IF t \in dropped THEN "over" ELSE Status[t]]
    BY <1>4 DEF Status
<1>6. CASE dropped = {}
    BY <1>1, <1>5, <1>6 DEF Status
<1>7. CASE dropped # {}
  <2>1. dropped \in SUBSET Turns
      BY DEF dropped
  <2> QED BY <1>1, <1>3, <1>5, <1>7, <2>1 DEF Session!Drop, Log, Status
<1> QED BY <1>6, <1>7

LEMMA SavesImplement ==
    ASSUME TypeInv, AuditInv, SessionInv, NEW t \in Turns, Saves(t)
    PROVE  Session!Ask(t) \/ Session!Answer(t)
<1>1. PICK role \in {"user", "assistant"} :
          /\ messages' = messages \cup {[turn |-> t, role |-> role, at |-> stamp[t]]}
          /\ \/ role = "user" /\ phase[t] = "opened" /\ phase'[t] = "asked"
             \/ role = "assistant" /\ phase[t] = "answering" /\ phase'[t] = "replied"
          /\ \A u \in Turns \ {t} : phase'[u] = phase[u]
    BY SaveSteps
<1> DEFINE new == [turn |-> t, role |-> role, at |-> stamp[t]]
<1>2. messages' = messages \cup {new} /\ new.turn = t /\ new.role = role
    BY <1>1
<1> HIDE DEF new
<1>3. Log' = Log \cup {<<t, role>>}
    BY <1>2 DEF Log
<1>4. \A u \in Turns \ {t} : TurnStatus(u)' = TurnStatus(u)
  <2>1. \A u \in Turns \ {t} : \A r : HasMessage(u, r)' = HasMessage(u, r)
      BY <1>2 DEF HasMessage
  <2> QED BY <1>1, <2>1 DEF TurnStatus
<1>5. ASSUME NEW s, TurnStatus(t)' = s PROVE Status' = [Status EXCEPT ![t] = s]
    BY <1>4, <1>5 DEF Status
<1>6. HasMessage(t, role)' /\ \A r : r # role => HasMessage(t, r)' = HasMessage(t, r)
    BY <1>2 DEF HasMessage
<1>7. CASE role = "user"
  <2>1. \A r : ~HasMessage(t, r)
      BY <1>1, <1>7 DEF SessionInv, HasMessage
  <2>2. TurnStatus(t) = "new" /\ TurnStatus(t)' = "asked"
      BY <1>1, <1>6, <1>7, <2>1 DEF TurnStatus
  <2> QED BY <1>3, <1>5, <1>7, <2>2 DEF Session!Ask, Log, Status
<1>8. CASE role = "assistant"
  <2>1. ~HasMessage(t, "assistant")
      BY <1>1, <1>8 DEF AuditInv, AnswersHaveCalls, Told, HasMessage
  <2>2. HasMessage(t, "user")
      BY <1>1, <1>8 DEF SessionInv, Asked, QuestionOf, HasMessage
  <2>3. TurnStatus(t) = "asked" /\ TurnStatus(t)' = "answered"
      BY <1>1, <1>6, <1>8, <2>1, <2>2 DEF TurnStatus
  <2> QED BY <1>3, <1>5, <1>8, <2>3 DEF Session!Answer, Log, Status
<1> QED BY <1>7, <1>8

\* Whatever fails and however turns overlap, the session reads as a
\* conversation: one question and at most one answer for each turn, in this
\* order, nothing removed, nothing added by a turn that is over.
THEOREM SessionIsAConversation == Spec => ImplementsConversation
<1>1. Init => Session!Init
    BY InitImplements
<1>2. TypeInv /\ AuditInv /\ SessionInv /\ [Next]_vars =>
          [Session!Next]_<<Log, Status>>
  <2> SUFFICES ASSUME TypeInv, AuditInv, SessionInv, [Next]_vars
               PROVE  Session!Next \/ UNCHANGED <<Log, Status>>
      OBVIOUS
  <2>1. ASSUME NEW t \in Turns, Saves(t) PROVE Session!Next
      BY <2>1, SavesImplement DEF Session!Next
  <2>2. ASSUME UNCHANGED messages, \A t \in Turns : phase[t] \in Ended => phase'[t] \in Ended
        PROVE  Session!Next \/ UNCHANGED <<Log, Status>>
      BY <2>2, SilentImplements DEF Session!Next
  <2>3. ASSUME NEW t \in Turns, Open(t) \/ Step(t), ~Saves(t)
        PROVE  UNCHANGED messages /\ \A u \in Turns : phase[u] \in Ended => phase'[u] \in Ended
      BY <2>3, StepsOfSession, Moves DEF TypeInv
  <2>4. CASE Crash
    <3>1. \A t \in Turns : phase'[t] = "gone" \/ phase'[t] = phase[t]
        BY <2>4, CrashEnds DEF TypeInv
    <3> QED BY <2>2, <2>4, <3>1 DEF Crash
  <2>5. CASE UNCHANGED vars
      BY <2>2, <2>5 DEF vars
  <2> QED BY <2>1, <2>2, <2>3, <2>4, <2>5 DEF Next, Quiet
<1> QED BY <1>1, <1>2, SessionInvariant, PTL DEF Spec, ImplementsConversation, Session!Spec, Log, Status

-----------------------------------------------------------------------------
(* The history of a prompt.  A turn that no other one overlaps is alone    *)
(* with the session from its first statement to its end, so nothing is     *)
(* stored beside it, and whoever comes later begins a later transaction.   *)

\* The messages just before q that the prompt of its turn shows.
Past(q) ==
    LET before == {m \in messages : m.at < q.at}
    IN  {m \in before : Cardinality({x \in before : x.at > m.at}) < HistoryLimit - 1}

Alone == \A t \in Turns \ overlapped : Live(t) => \A u \in Turns \ {t} : ~Live(u)

PastOK(t) ==
    /\ phase[t] = "opened" => \A m \in messages : m.turn # t /\ m.at < stamp[t]
    /\ phase[t] = "asked" =>
          \E q \in messages : /\ QuestionOf(t, q)
                              /\ \A m \in messages \ {q} : m.turn # t /\ m.at < q.at
    /\ phase[t] \in HistoryRead =>
          \E q \in messages : /\ QuestionOf(t, q)
                              /\ history[t] = Past(q)
                              /\ \A u \in Turns : Live(u) => q.at < stamp[u]

PastInv == IsFiniteSet(messages) /\ Alone /\ \A t \in Turns \ overlapped : PastOK(t)

\* When the latest message is the question, the recent messages without it are
\* those before it, one less than the limit.
LEMMA RecentIsPast ==
    ASSUME TypeInv, IsFiniteSet(messages), NEW t \in Turns, NEW q \in messages, QuestionOf(t, q),
           \A m \in messages \ {q} : m.turn # t /\ m.at < q.at
    PROVE  HistoryFor(t) = Past(q)
<1> DEFINE before == {m \in messages : m.at < q.at}
           after(m) == {x \in messages : x.at > m.at}
           between(m) == {x \in before : x.at > m.at}
<1>1. \A m \in messages : m.at \in Nat
    BY DEF TypeInv, TypeOK, Message
<1>2. before = messages \ {q}
    BY <1>1
<1>3. ASSUME NEW m \in before
      PROVE  Cardinality(after(m)) < HistoryLimit <=> Cardinality(between(m)) < HistoryLimit - 1
  <2>1. after(m) = between(m) \cup {q} /\ q \notin between(m)
      BY <1>1, <1>2, <1>3
  <2>2. IsFiniteSet(between(m))
      BY <1>2, FS_Subset
  <2> HIDE DEF after, between
  <2>3. Cardinality(after(m)) = Cardinality(between(m)) + 1
      BY <2>1, <2>2, FS_AddElement
  <2>4. Cardinality(between(m)) \in Nat
      BY <2>2, FS_CardinalityType
  <2> QED BY <2>3, <2>4, LimitAssumption
<1>4. HistoryFor(t) = {m \in before : Cardinality(after(m)) < HistoryLimit}
    BY <1>2 DEF HistoryFor, Recent, QuestionOf
<1>5. Past(q) = {m \in before : Cardinality(between(m)) < HistoryLimit - 1}
    BY DEF Past
<1> HIDE DEF before, after, between
<1> QED BY <1>3, <1>4, <1>5

\* A message that is not before q leaves what is before q alone.
LEMMA PastStays ==
    ASSUME TypeInv, NEW q \in messages, NEW new, messages' = messages \cup {new}, ~(new.at < q.at)
    PROVE  Past(q)' = Past(q)
<1>1. {m \in messages' : m.at < q.at} = {m \in messages : m.at < q.at}
    OBVIOUS
<1> QED BY <1>1 DEF Past

\* What a step of a turn does to the messages, the time and the histories.
Idles(t, p) ==
    /\ UNCHANGED <<messages, stamp, clock, history>>
    /\ p \notin {"opened", "asked"}
    /\ p \in HistoryRead => phase[t] \in HistoryRead
    /\ p \notin Ended => Live(t)

BeginsAnew(t, p) ==
    /\ UNCHANGED messages
    /\ clock' = clock + 1
    /\ stamp' = [stamp EXCEPT ![t] = clock + 1]
    /\ \/ phase[t] = "new" /\ p = "opened" /\ history' = history
       \/ phase[t] = "asked" /\ p = "loaded" /\ history' = [history EXCEPT ![t] = HistoryFor(t)]
       \/ phase[t] = "recorded" /\ p = "tracing" /\ history' = history

Says(t, p) ==
    \E role \in {"user", "assistant"} :
        /\ messages' = messages \cup {[turn |-> t, role |-> role, at |-> stamp[t]]}
        /\ UNCHANGED <<stamp, clock, history>>
        /\ \/ role = "user" /\ phase[t] = "opened" /\ p = "asked"
           \/ role = "assistant" /\ phase[t] = "answering" /\ p = "replied"

LEMMA PastSteps ==
    ASSUME TypeInv, NEW t \in Turns, Open(t) \/ Step(t)
    PROVE  \E p \in Phases : Goto(t, p) /\ (Idles(t, p) \/ BeginsAnew(t, p) \/ Says(t, p))
<1> DEFINE Edge(p) == Goto(t, p) /\ (Idles(t, p) \/ BeginsAnew(t, p) \/ Says(t, p))
<1> SUFFICES \E p \in Phases : Edge(p)
    OBVIOUS
<1> USE DEF HistoryRead, Live
<1>1. ASSUME Open(t) PROVE Edge("opened")
    BY <1>1 DEF Open, Begin, BeginsAnew
<1>2. ASSUME Reject(t) PROVE Edge("rejected")
    BY <1>2 DEF Reject, Idles
<1>3. ASSUME SaveQuestion(t) PROVE Edge("asked")
    BY <1>3 DEF SaveQuestion, CreateMessage, Says
<1>4. ASSUME LoadHistory(t) PROVE Edge("loaded")
    BY <1>4 DEF LoadHistory, Begin, BeginsAnew
<1>5. ASSUME CheckIndexes(t) PROVE Edge("checked") \/ Edge("calling")
    BY <1>5 DEF CheckIndexes, Idles
<1>6. ASSUME Embed(t) PROVE Edge("embedded")
    BY <1>6 DEF Embed, Idles
<1>7. ASSUME Retrieve(t) PROVE Edge("calling")
    BY <1>7 DEF Retrieve, Idles
<1>8. ASSUME CallModel(t) PROVE Edge("attempted")
    BY <1>8 DEF CallModel, Idles
<1>9. ASSUME RecordCall(t) PROVE Edge("recorded")
    BY <1>9 DEF RecordCall, Idles
<1>10. ASSUME ReloadCall(t) PROVE Edge("tracing")
    BY <1>10 DEF ReloadCall, Begin, BeginsAnew
<1>11. ASSUME WriteTrace(t) PROVE \E p \in Phases : Edge(p)
  <2>1. AfterTrace(t) \in {"answering", "calling", "failed"}
      BY DEF AfterTrace
  <2> QED BY <1>11, <2>1 DEF WriteTrace, Idles
<1>12. ASSUME SaveAnswer(t) PROVE Edge("replied")
    BY <1>12 DEF SaveAnswer, CreateMessage, Says
<1>13. ASSUME Reply(t) PROVE Edge("answered")
    BY <1>13 DEF Reply, Idles
<1>14. ASSUME ContextFails(t) \/ DatabaseFails(t) \/ PoolTimeout(t) PROVE Edge("failed")
    BY <1>14 DEF ContextFails, DatabaseFails, PoolTimeout, Fail, Idles
<1> HIDE DEF Edge
<1> QED BY <1>1, <1>2, <1>3, <1>4, <1>5, <1>6, <1>7, <1>8, <1>9, <1>10, <1>11, <1>12, <1>13,
           <1>14 DEF Step

\* A step of the turn itself.
LEMMA OwnStepKeepsPast ==
    ASSUME TypeInv, TypeInv', OrderInv, SessionInv, PastInv, NEW t \in Turns \ overlapped, PastOK(t),
           NEW p \in Phases, Goto(t, p), Idles(t, p) \/ BeginsAnew(t, p) \/ Says(t, p)
    PROVE  PastOK(t)'
<1>1. phase'[t] = p /\ \A u \in Turns \ {t} : phase'[u] = phase[u]
    BY Moves DEF TypeInv
<1>2. /\ clock \in Nat /\ stamp \in [Turns -> Nat]
      /\ \A m \in messages : m.at \in Nat /\ m.at <= clock
    BY DEF TypeInv, TypeOK, Message, OrderInv, QuestionsFirst
<1>3. CASE Idles(t, p)
  <2>1. UNCHANGED <<messages, stamp, history>> /\ p \notin {"opened", "asked"}
      BY <1>3 DEF Idles
  <2>2. \A u \in Turns : Live(u)' => Live(u)
      BY <1>1, <1>3 DEF Idles, Live
  <2>3. phase'[t] \in HistoryRead => phase[t] \in HistoryRead
      BY <1>1, <1>3 DEF Idles
  <2>4. \A q \in messages : Past(q)' = Past(q)
      BY <2>1 DEF Past
  <2> QED BY <1>1, <2>1, <2>2, <2>3, <2>4 DEF PastOK
<1>4. CASE BeginsAnew(t, p)
  <2>1. /\ messages' = messages
        /\ stamp'[t] = clock + 1 /\ \A u \in Turns \ {t} : stamp'[u] = stamp[u]
      BY <1>2, <1>4 DEF BeginsAnew
  <2>2. \A m \in messages : m.at < stamp'[t]
      BY <1>2, <2>1
  <2>3. \A q \in messages : Past(q)' = Past(q)
      BY <2>1 DEF Past
  <2>4. CASE phase[t] = "new" /\ p = "opened"
    <3>1. \A m \in messages : m.turn # t
        BY <2>4 DEF SessionInv
    <3> QED BY <1>1, <2>1, <2>2, <2>4, <3>1 DEF PastOK, HistoryRead
  <2>5. CASE phase[t] = "asked" /\ p = "loaded" /\ history' = [history EXCEPT ![t] = HistoryFor(t)]
    <3>1. PICK q \in messages : /\ QuestionOf(t, q)
                                /\ \A m \in messages \ {q} : m.turn # t /\ m.at < q.at
        BY <2>5 DEF PastOK
    <3>2. history'[t] = Past(q)
      <4>1. HistoryFor(t) = Past(q)
          BY <3>1, RecentIsPast DEF PastInv
      <4> QED BY <2>5, <4>1 DEF TypeInv, TypeOK
    <3>3. \A u \in Turns : Live(u)' => u = t
        BY <1>1, <2>5 DEF PastInv, Alone, Live
    <3> QED BY <1>1, <2>1, <2>2, <2>3, <2>5, <3>1, <3>2, <3>3 DEF PastOK
  <2>6. CASE phase[t] = "recorded" /\ p = "tracing" /\ history' = history
    <3>1. PICK q \in messages : /\ QuestionOf(t, q) /\ history[t] = Past(q)
                                /\ \A u \in Turns : Live(u) => q.at < stamp[u]
        BY <2>6 DEF PastOK, HistoryRead
    <3>2. \A u \in Turns : Live(u)' => Live(u)
        BY <1>1, <2>6 DEF Live
    <3>3. \A u \in Turns : Live(u)' => q.at < stamp'[u]
        BY <2>1, <2>2, <3>1, <3>2
    <3> QED BY <1>1, <2>1, <2>3, <2>6, <3>1, <3>3 DEF PastOK
  <2> QED BY <1>4, <2>4, <2>5, <2>6 DEF BeginsAnew
<1>5. CASE Says(t, p)
  <2>1. PICK role \in {"user", "assistant"} :
            /\ messages' = messages \cup {[turn |-> t, role |-> role, at |-> stamp[t]]}
            /\ UNCHANGED <<stamp, clock, history>>
            /\ \/ role = "user" /\ phase[t] = "opened" /\ p = "asked"
               \/ role = "assistant" /\ phase[t] = "answering" /\ p = "replied"
      BY <1>5 DEF Says
  <2> DEFINE new == [turn |-> t, role |-> role, at |-> stamp[t]]
  <2>2. messages' = messages \cup {new} /\ new.turn = t /\ new.role = role /\ new.at = stamp[t]
      BY <2>1
  <2> HIDE DEF new
  <2>3. CASE role = "user"
    <3>1. \A m \in messages : m.turn # t /\ m.at < stamp[t]
        BY <2>1, <2>3 DEF PastOK
    <3>2. QuestionOf(t, new) /\ \A m \in messages' \ {new} : m.turn # t /\ m.at < new.at
        BY <2>2, <2>3, <3>1 DEF QuestionOf
    <3> QED BY <1>1, <2>1, <2>2, <2>3, <3>2 DEF PastOK, HistoryRead
  <2>4. CASE role = "assistant"
    <3>1. PICK q \in messages : /\ QuestionOf(t, q) /\ history[t] = Past(q)
                                /\ \A u \in Turns : Live(u) => q.at < stamp[u]
        BY <2>1, <2>4 DEF PastOK, HistoryRead
    <3>2. Live(t) /\ \A u \in Turns : Live(u)' => Live(u)
        BY <1>1, <2>1, <2>4 DEF Live
    <3>3. ~(new.at < q.at)
        BY <1>2, <2>2, <3>1, <3>2
    <3>4. Past(q)' = Past(q)
        BY <2>2, <3>3, PastStays
    <3> QED BY <1>1, <2>1, <2>2, <2>4, <3>1, <3>2, <3>4 DEF PastOK
  <2> QED BY <2>3, <2>4
<1> QED BY <1>3, <1>4, <1>5

\* A step of another turn: then the turn is over or not begun.
LEMMA OtherStepKeepsPast ==
    ASSUME TypeInv, TypeInv', OrderInv, SessionInv, PastInv, NEW t \in Turns \ overlapped, PastOK(t),
           NEW u \in Turns \ {t}, NEW p \in Phases, Goto(u, p),
           Idles(u, p) \/ BeginsAnew(u, p) \/ Says(u, p),
           ~(Live(t)' /\ Live(u)')
    PROVE  PastOK(t)'
<1>1. phase'[u] = p /\ \A w \in Turns \ {u} : phase'[w] = phase[w]
    BY Moves DEF TypeInv
<1>2. /\ clock \in Nat /\ stamp \in [Turns -> Nat]
      /\ \A m \in messages : m.at \in Nat /\ m.at <= clock
    BY DEF TypeInv, TypeOK, Message, OrderInv, QuestionsFirst
<1>3. phase'[t] = phase[t] /\ history'[t] = history[t]
    BY <1>1 DEF Idles, BeginsAnew, Says, TypeInv, TypeOK
<1>4. CASE Idles(u, p)
  <2>1. UNCHANGED <<messages, stamp, history>> /\ \A w \in Turns : Live(w)' => Live(w)
      BY <1>1, <1>4 DEF Idles, Live
  <2>2. \A q \in messages : Past(q)' = Past(q)
      BY <2>1 DEF Past
  <2> QED BY <1>3, <2>1, <2>2 DEF PastOK
<1>5. CASE BeginsAnew(u, p) \/ Says(u, p)
  <2>1. Live(u)'
      BY <1>1, <1>5 DEF BeginsAnew, Says, Live
  <2>2. phase[t] \notin {"opened", "asked"}
      BY <1>3, <2>1 DEF Live
  <2>3. SUFFICES ASSUME phase[t] \in HistoryRead
                 PROVE  \E q \in messages' : /\ QuestionOf(t, q)
                                             /\ history'[t] = Past(q)'
                                             /\ \A w \in Turns : Live(w)' => q.at < stamp'[w]
      BY <1>3, <2>2 DEF PastOK
  <2>4. PICK q \in messages : /\ QuestionOf(t, q) /\ history[t] = Past(q)
                              /\ \A w \in Turns : Live(w) => q.at < stamp[w]
      BY <2>3 DEF PastOK
  <2>5. CASE BeginsAnew(u, p)
    <3>1. /\ messages' = messages
          /\ stamp'[u] = clock + 1 /\ \A w \in Turns \ {u} : stamp'[w] = stamp[w]
        BY <1>2, <2>5 DEF BeginsAnew
    <3>2. \A w \in Turns : Live(w)' => q.at < stamp'[w]
        BY <1>1, <1>2, <2>4, <3>1 DEF Live
    <3>3. Past(q)' = Past(q)
        BY <3>1 DEF Past
    <3> QED BY <1>3, <2>4, <3>1, <3>2, <3>3
  <2>6. CASE Says(u, p)
    <3>1. PICK role \in {"user", "assistant"} :
              /\ messages' = messages \cup {[turn |-> u, role |-> role, at |-> stamp[u]]}
              /\ stamp' = stamp
              /\ phase[u] \in {"opened", "answering"}
        BY <2>6 DEF Says
    <3> DEFINE new == [turn |-> u, role |-> role, at |-> stamp[u]]
    <3>2. messages' = messages \cup {new} /\ new.at = stamp[u]
        BY <3>1
    <3> HIDE DEF new
    <3>3. Live(u) /\ \A w \in Turns : Live(w)' => Live(w)
        BY <1>1, <3>1 DEF Live
    <3>4. ~(new.at < q.at)
        BY <1>2, <2>4, <3>2, <3>3
    <3>5. Past(q)' = Past(q)
        BY <3>2, <3>4, PastStays
    <3> QED BY <1>3, <2>4, <3>1, <3>2, <3>3, <3>5
  <2> QED BY <1>5, <2>5, <2>6
<1> QED BY <1>4, <1>5

LEMMA NextPast ==
    TypeInv /\ TypeInv' /\ OrderInv /\ SessionInv /\ PastInv /\ [HistoryNext]_historyVars => PastInv'
<1> SUFFICES ASSUME TypeInv, TypeInv', OrderInv, SessionInv, PastInv, [HistoryNext]_historyVars
             PROVE  PastInv'
    OBVIOUS
<1>1. CASE UNCHANGED historyVars
    BY <1>1 DEF historyVars, vars, PastInv, Alone, PastOK, Past, Live
<1> SUFFICES ASSUME HistoryNext PROVE PastInv'
    BY <1>1
<1>2. /\ Next
      /\ overlapped \subseteq overlapped'
      /\ \A t \in Turns \ overlapped' : Live(t)' => \A u \in Turns \ {t} : ~Live(u)'
    BY DEF HistoryNext
<1>3. Alone'
    BY <1>2 DEF Alone
<1>4. ASSUME NEW u \in Turns, Open(u) \/ Step(u) PROVE PastInv'
  <2>1. PICK p \in Phases : Goto(u, p) /\ (Idles(u, p) \/ BeginsAnew(u, p) \/ Says(u, p))
      BY <1>4, PastSteps
  <2>2. \E new : messages' \in {messages, messages \cup {new}}
      BY <2>1 DEF Idles, BeginsAnew, Says
  <2>3. IsFiniteSet(messages')
      BY <2>2, FS_AddElement DEF PastInv
  <2>4. ASSUME NEW t \in Turns \ overlapped' PROVE PastOK(t)'
    <3>1. t \in Turns \ overlapped /\ PastOK(t)
        BY <1>2 DEF PastInv
    <3>2. CASE u = t
        BY <2>1, <3>1, <3>2, OwnStepKeepsPast
    <3>3. CASE u # t
      <4>1. ~(Live(t)' /\ Live(u)')
          BY <1>2, <3>3
      <4> QED BY <2>1, <3>1, <3>3, <4>1, OtherStepKeepsPast
    <3> QED BY <3>2, <3>3
  <2> QED BY <1>3, <2>3, <2>4 DEF PastInv
<1>5. CASE Crash
  <2>1. \A t \in Turns : phase'[t] = "gone" \/ phase'[t] = phase[t]
      BY <1>5, CrashEnds DEF TypeInv
  <2>2. UNCHANGED <<messages, stamp, history>>
      BY <1>5 DEF Crash
  <2>3. \A t \in Turns : Live(t)' => Live(t)
      BY <2>1 DEF Live
  <2>4. \A q \in messages : Past(q)' = Past(q)
      BY <2>2 DEF Past
  <2>5. \A t \in Turns \ overlapped' : PastOK(t)'
      BY <1>2, <2>1, <2>2, <2>3, <2>4 DEF PastInv, PastOK, HistoryRead
  <2> QED BY <1>3, <2>2, <2>5 DEF PastInv
<1>6. CASE UNCHANGED vars
  <2>1. \A t \in Turns : Live(t)' = Live(t) /\ PastOK(t)' = PastOK(t)
      BY <1>6 DEF vars, Live, PastOK, Past
  <2> QED BY <1>2, <1>3, <1>6, <2>1 DEF vars, PastInv
<1> QED BY <1>2, <1>4, <1>5, <1>6 DEF Next, Quiet

\* A turn that no other one overlaps shows its model exactly the messages just
\* before its question, whatever became of the turns before it.
THEOREM HistoryIsAlwaysThePast == HistorySpec => []HistoryIsThePast
<1>1. HistoryInit => TypeInv /\ OrderInv /\ SessionInv /\ PastInv
  <2> SUFFICES ASSUME HistoryInit PROVE TypeInv /\ OrderInv /\ SessionInv /\ PastInv
      OBVIOUS
  <2>1. OrderInv /\ SessionInv
      BY DEF HistoryInit, Init, OrderInv, QuestionsFirst, AnswersFollowQuestions, Asked, Later,
             SessionInv
  <2>2. PastInv
      BY FS_EmptySet DEF HistoryInit, Init, PastInv, Alone, PastOK, Live, HistoryRead
  <2> QED BY <2>1, <2>2, InitTypeInv DEF HistoryInit
<1>2. [HistoryNext]_historyVars => [Next]_vars
    BY DEF HistoryNext, historyVars
<1>3. HistorySpec => [](TypeInv /\ OrderInv /\ SessionInv /\ PastInv)
    BY <1>1, <1>2, NextTypeInv, NextOrder, NextSession, NextPast, PTL DEF HistorySpec
<1>4. PastInv => HistoryIsThePast
    BY DEF PastInv, PastOK, HistoryIsThePast, QuestionOf, Past
<1> QED BY <1>3, <1>4, PTL
=============================================================================
