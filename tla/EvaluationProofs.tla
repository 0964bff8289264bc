--------------------------- MODULE EvaluationProofs ---------------------------
(***************************************************************************)
(* Proofs about EvaluationRuns, for any number of commands, runs, cases    *)
(* and faults.                                                             *)
(***************************************************************************)
EXTENDS EvaluationRuns, Iterations

-----------------------------------------------------------------------------
(* The state.                                                              *)

Phases == {"idle", "running", "calling", "tracing", "appending", "responded", "reporting"} \cup Ended

AtCase == {"calling", "tracing", "appending", "responded"}

NoCaseTwice(s) == \A i, j \in DOMAIN s : s[i] = s[j] => i = j

\* The functions of the commands, of the directories and of the runs; numbers
\* and names; and that a finished command alone has an exit code.
TypeInv ==
    /\ phase \in [Commands -> Phases]
    /\ model \in [Commands -> ToSet(ScoredModels)]
    /\ selected \in [Commands -> Seq(DOMAIN Dataset.cases)]
    /\ \A c \in Commands : NoCaseTwice(selected[c])
    /\ at \in [Commands -> Nat \ {0}]
    /\ \A c \in Commands : phase[c] \in AtCase => at[c] <= Len(selected[c])
    /\ DOMAIN base = Commands /\ DOMAIN results = Commands
    /\ exit \in [Commands -> {"none", "0", "1", "2", "killed"}]
    /\ \A c \in Commands : exit[c] = "0" => phase[c] = "done"
    /\ DOMAIN stored = Directories
    /\ DOMAIN report = Directories
    /\ DOMAIN comparison = Runs

LEMMA TwoModels == DOMAIN ScoredModels = {1, 2} /\ ToSet(ScoredModels) = {ScoredModels[1], ScoredModels[2]}
BY EvaluationAssumption DEF ToSet

LEMMA OfCommand ==
    \A c \in Commands :
        /\ \A m \in ModelsFor[c] : m \in ToSet(ScoredModels)
        /\ \A s \in Selections[c] : s \in Seq(DOMAIN Dataset.cases) /\ NoCaseTwice(s)
<1> TAKE c \in Commands
<1>1. /\ ModelsFor[c] \subseteq ToSet(ScoredModels)
      /\ Selections[c] \subseteq Seq(DOMAIN Dataset.cases)
      /\ \A s \in Selections[c] : NoCaseTwice(s)
    BY EvaluationAssumption, Zenon DEF NoCaseTwice
<1> QED BY <1>1, Zenon

LEMMA DirectoryOfRun ==
    \A r \in Runs, n \in DOMAIN ScoredModels : <<r, ScoredModels[n]>> \in Directories
BY TwoModels DEF Directories

LEMMA DirectoryTyped == TypeInv => \A c \in Commands : Directory(c) \in Directories
BY DEF TypeInv, Directory, Directories, Runs

LEMMA ResultIsSomething == \A c : Result(c) # Nothing /\ Result(c).by = c
<1> TAKE c
<1>1. DOMAIN Result(c) = {"by", "baseline", "cases", "passed"}
  BY DEF Result
<1>2. DOMAIN Nothing = {"none"}
  BY DEF Nothing
<1>3. Result(c).by = c
  BY DEF Result
<1> QED BY <1>1, <1>2, <1>3

LEMMA InitTypeInv == Init => TypeInv
BY TwoModels DEF Init, TypeInv, Phases, AtCase, Ended, Directories, NoCaseTwice

LEMMA NextTypeInv == TypeInv /\ [Next]_vars => TypeInv'
<1> SUFFICES ASSUME TypeInv, [Next]_vars PROVE TypeInv'
    OBVIOUS
<1>1. ASSUME NEW c \in Commands, Refuse(c) PROVE TypeInv'
  BY <1>1 DEF TypeInv, Refuse, End, Goto, fileVars, Phases, AtCase, Ended
<1>2. ASSUME NEW c \in Commands, Start(c) PROVE TypeInv'
  <2>1. PICK s \in Selections[c], m \in ModelsFor[c] :
            selected' = [selected EXCEPT ![c] = s] /\ model' = [model EXCEPT ![c] = m]
    BY <1>2 DEF Start
  <2>2. /\ m \in ToSet(ScoredModels)
        /\ s \in Seq(DOMAIN Dataset.cases)
        /\ NoCaseTwice(s)
    BY OfCommand
  <2>3. \A o \in Commands : NoCaseTwice(selected'[o])
    BY <2>1, <2>2 DEF TypeInv
  <2>4. DOMAIN base' = Commands /\ DOMAIN results' = Commands
    BY <1>2 DEF Start, TypeInv
  <2>5. /\ phase' = [phase EXCEPT ![c] = "running"] /\ phase[c] = "idle"
        /\ UNCHANGED <<at, exit, stored, report, comparison>>
    BY <1>2 DEF Start, Goto, fileVars
  <2>6. /\ phase' \in [Commands -> Phases]
        /\ model' \in [Commands -> ToSet(ScoredModels)]
        /\ selected' \in [Commands -> Seq(DOMAIN Dataset.cases)]
    BY <2>1, <2>2, <2>5 DEF TypeInv, Phases
  <2>7. \A o \in Commands : phase'[o] \in AtCase => at'[o] <= Len(selected'[o])
    BY <2>1, <2>5 DEF TypeInv, AtCase
  <2>8. \A o \in Commands : exit'[o] = "0" => phase'[o] = "done"
    BY <2>5 DEF TypeInv
  <2> QED BY <2>3, <2>4, <2>5, <2>6, <2>7, <2>8 DEF TypeInv
<1>3. ASSUME NEW c \in Commands, OpenSession(c) PROVE TypeInv'
  <2>1. /\ \/ UNCHANGED at /\ phase' = [phase EXCEPT ![c] = "calling"]
           \/ at' = [at EXCEPT ![c] = @ + 1] /\ phase' = [phase EXCEPT ![c] = "running"]
        /\ phase[c] = "running" /\ at[c] <= Len(selected[c])
        /\ DOMAIN results' = Commands
        /\ UNCHANGED <<model, selected, base, exit, stored, report, comparison>>
    BY <1>3 DEF TypeInv, OpenSession, Score, Goto, fileVars
  <2>2. CASE UNCHANGED at /\ phase' = [phase EXCEPT ![c] = "calling"]
    BY <2>1, <2>2 DEF TypeInv, Phases, AtCase
  <2>3. CASE at' = [at EXCEPT ![c] = @ + 1] /\ phase' = [phase EXCEPT ![c] = "running"]
    BY <2>1, <2>3 DEF TypeInv, Phases, AtCase
  <2> QED BY <2>1, <2>2, <2>3
<1>4. ASSUME NEW c \in Commands, CallModel(c) PROVE TypeInv'
  BY <1>4 DEF TypeInv, CallModel, Goto, fileVars, Phases, AtCase, Ended
<1>5. ASSUME NEW c \in Commands, TurnFails(c) PROVE TypeInv'
  BY <1>5 DEF TypeInv, TurnFails, Goto, fileVars, Phases, AtCase, Ended
<1>6. ASSUME NEW c \in Commands, BeginLine(c) \/ EndLine(c) PROVE TypeInv'
  <2>1. AfterTrace(c) \in {"calling", "responded"}
    BY DEF AfterTrace
  <2>2. /\ phase[c] \in {"tracing", "appending"}
        /\ \E p \in AtCase : phase' = [phase EXCEPT ![c] = p]
        /\ UNCHANGED <<model, selected, at, base, results, exit, stored, report, comparison>>
    BY <1>6, <2>1 DEF BeginLine, EndLine, Goto, fileVars, AtCase
  <2> QED BY <2>2 DEF TypeInv, Phases, AtCase, Ended
<1>7. ASSUME NEW c \in Commands, ScoreCase(c) PROVE TypeInv'
  <2>1. /\ at' = [at EXCEPT ![c] = @ + 1] /\ phase' = [phase EXCEPT ![c] = "running"]
        /\ phase[c] = "responded"
        /\ DOMAIN results' = Commands
        /\ UNCHANGED <<model, selected, base, exit, stored, report, comparison>>
    BY <1>7 DEF TypeInv, ScoreCase, Score, Goto, fileVars
  <2> QED BY <2>1 DEF TypeInv, Phases, AtCase
<1>8. ASSUME NEW c \in Commands, WriteResult(c) PROVE TypeInv'
  BY <1>8 DEF TypeInv, WriteResult, Goto, Phases, AtCase, Ended
<1>9. ASSUME NEW c \in Commands, WriteReport(c) PROVE TypeInv'
  BY <1>9 DEF TypeInv, WriteReport, End, Goto, Phases, AtCase, Ended
<1>10. ASSUME NEW c \in Commands, Unexpected(c) \/ Kill(c) PROVE TypeInv'
  BY <1>10 DEF TypeInv, Unexpected, Kill, End, Goto, Live, fileVars, Phases, AtCase, Ended
<1>11. ASSUME NEW r \in Runs, Compare(r) PROVE TypeInv'
  BY <1>11 DEF TypeInv, Compare, commandVars, AtCase
<1>12. CASE UNCHANGED vars
  BY <1>12 DEF TypeInv, vars, commandVars, fileVars, AtCase
<1> QED BY <1>1, <1>2, <1>3, <1>4, <1>5, <1>6, <1>7, <1>8, <1>9, <1>10, <1>11, <1>12
        DEF Next, Work

-----------------------------------------------------------------------------
(* Who writes what.                                                        *)

Busy == AtCase \cup {"running"}

\* A step of a command within its cases, or its end by an error or a kill.
WorksOrFails(c) ==
    /\ UNCHANGED <<model, base, stored, report, comparison, overlapped>>
    /\ \/ /\ phase[c] \in Busy /\ \E p \in Busy : phase' = [phase EXCEPT ![c] = p]
          /\ \A o \in Commands : o # c => results'[o] = results[o]
          /\ UNCHANGED exit
       \/ /\ Live(c) /\ \E p \in Ended : phase' = [phase EXCEPT ![c] = p]
          /\ UNCHANGED results
          /\ \E code \in {"1", "killed"} : exit' = [exit EXCEPT ![c] = code]

LEMMA Steps ==
    ASSUME TypeInv, [Next]_vars
    PROVE  \/ \E c \in Commands : WorksOrFails(c) \/ Refuse(c) \/ Start(c) \/ WriteResult(c) \/ WriteReport(c)
           \/ \E r \in Runs : Compare(r)
           \/ UNCHANGED vars
<1>1. ASSUME NEW c \in Commands, OpenSession(c) \/ ScoreCase(c) PROVE WorksOrFails(c)
  <2>1. /\ phase[c] \in Busy /\ \E p \in Busy : phase' = [phase EXCEPT ![c] = p]
        /\ UNCHANGED <<model, base, exit, stored, report, comparison, overlapped>>
    BY <1>1 DEF OpenSession, ScoreCase, Score, Goto, fileVars, Busy, AtCase
  <2>2. \A o \in Commands : o # c => results'[o] = results[o]
    BY <1>1 DEF TypeInv, OpenSession, ScoreCase, Score
  <2> QED BY <2>1, <2>2 DEF WorksOrFails
<1>2. ASSUME NEW c \in Commands, CallModel(c) \/ TurnFails(c) PROVE WorksOrFails(c)
  BY <1>2 DEF CallModel, TurnFails, Goto, fileVars, Busy, AtCase, WorksOrFails
<1>3. ASSUME NEW c \in Commands, BeginLine(c) \/ EndLine(c) PROVE WorksOrFails(c)
  <2>1. AfterTrace(c) \in {"calling", "responded"}
    BY DEF AfterTrace
  <2> QED BY <1>3, <2>1 DEF BeginLine, EndLine, Goto, fileVars, Busy, AtCase, WorksOrFails
<1>4. ASSUME NEW c \in Commands, Unexpected(c) \/ Kill(c) PROVE WorksOrFails(c)
  BY <1>4 DEF Unexpected, Kill, End, Goto, Ended, fileVars, WorksOrFails
<1> QED BY <1>1, <1>2, <1>3, <1>4 DEF Next, Work

\* A stored result is that of a command which has scored all of its cases.
AuthorInv ==
    \A d \in Directories : stored[d] # Nothing =>
        /\ stored[d].by \in Commands /\ Directory(stored[d].by) = d
        /\ phase[stored[d].by] \in {"reporting"} \cup Ended
        /\ stored[d] = Result(stored[d].by)

LEMMA InitAuthor == Init => AuthorInv
BY DEF Init, AuthorInv

LEMMA NextAuthor == TypeInv /\ AuthorInv /\ [Next]_vars => AuthorInv'
<1> SUFFICES ASSUME TypeInv, AuthorInv, [Next]_vars PROVE AuthorInv'
    OBVIOUS
<1> SUFFICES ASSUME NEW d \in Directories, stored'[d] # Nothing
             PROVE  /\ stored'[d].by \in Commands /\ Directory(stored[d].by)' = d
                    /\ phase'[stored'[d].by] \in {"reporting"} \cup Ended
                    /\ stored'[d] = Result(stored[d].by)'
    BY DEF AuthorInv
<1>1. ASSUME NEW c \in Commands, WriteResult(c), Directory(c) = d PROVE stored'[d] = Result(c) /\ stored'[d].by = c
  BY <1>1 DEF TypeInv, WriteResult, Result
<1>2. ASSUME NEW c \in Commands, WriteResult(c), Directory(c) = d
      PROVE  /\ stored'[d].by \in Commands /\ Directory(stored[d].by)' = d
             /\ phase'[stored'[d].by] = "reporting"
             /\ stored'[d] = Result(stored[d].by)'
  BY <1>1, <1>2 DEF TypeInv, WriteResult, Goto, Directory, Result
<1> DEFINE a == stored[d].by
           Stays == /\ stored'[d] = stored[d]
                    /\ model'[a] = model[a] /\ base'[a] = base[a] /\ results'[a] = results[a]
                    /\ phase'[a] \in {"reporting"} \cup Ended
<1>3. ASSUME Stays
      PROVE  /\ stored'[d].by \in Commands /\ Directory(stored[d].by)' = d
             /\ phase'[stored'[d].by] \in {"reporting"} \cup Ended
             /\ stored'[d] = Result(stored[d].by)'
  BY <1>3 DEF AuthorInv, Directory, Result
<1>4. ASSUME stored'[d] = stored[d] PROVE a \in Commands /\ phase[a] \in {"reporting"} \cup Ended
  BY <1>4 DEF AuthorInv
<1> HIDE DEF a
<1>5. ASSUME NEW c \in Commands, WorksOrFails(c) PROVE Stays
  BY <1>4, <1>5 DEF TypeInv, WorksOrFails, Busy, AtCase, Ended
<1>6. ASSUME NEW c \in Commands, Refuse(c) \/ Start(c) \/ WriteReport(c) PROVE Stays
  BY <1>4, <1>6 DEF TypeInv, Refuse, Start, WriteReport, Goto, End, fileVars, Ended
<1>7. ASSUME NEW c \in Commands, WriteResult(c), Directory(c) # d PROVE Stays
  BY <1>4, <1>7 DEF TypeInv, WriteResult, Goto, Ended
<1>8. ASSUME NEW r \in Runs, Compare(r) \/ UNCHANGED vars PROVE Stays
  BY <1>4, <1>8 DEF Compare, vars, commandVars, fileVars
<1>9. CASE UNCHANGED vars
  BY <1>3, <1>4, <1>9 DEF vars, commandVars, fileVars
<1> QED BY <1>2, <1>3, <1>5, <1>6, <1>7, <1>8, <1>9, Steps


\* Two commands that are at work in one directory have been seen there; and
\* one that is alone in its directory finds there what it has put there.
AloneInv ==
    /\ \A c, o \in Commands : c # o /\ Live(c) /\ Live(o) /\ Directory(c) = Directory(o) =>
        Directory(c) \in overlapped
    /\ \A c \in Commands : Live(c) /\ Directory(c) \notin overlapped =>
        /\ report[Directory(c)] = Nothing
        /\ phase[c] # "reporting" => stored[Directory(c)] = Nothing
        /\ phase[c] = "reporting" => stored[Directory(c)] # Nothing /\ stored[Directory(c)].by = c

LEMMA InitAlone == Init => AloneInv
BY DEF Init, AloneInv, Live

LEMMA NextAlone == TypeInv /\ AloneInv /\ [Next]_vars => AloneInv'
<1> SUFFICES ASSUME TypeInv, AloneInv, [Next]_vars PROVE AloneInv'
    OBVIOUS
<1>1. ASSUME NEW c \in Commands, WorksOrFails(c) PROVE AloneInv'
  <2>1. /\ \A o \in Commands : Directory(o)' = Directory(o)
        /\ \A o \in Commands : Live(o)' => Live(o)
        /\ \A o \in Commands : Live(o)' => (phase'[o] = "reporting" <=> phase[o] = "reporting")
        /\ UNCHANGED <<stored, report, overlapped>>
    BY <1>1 DEF TypeInv, WorksOrFails, Directory, Live, Busy, AtCase, Ended
  <2> QED BY <2>1 DEF AloneInv
<1>2. ASSUME NEW c \in Commands, Refuse(c) PROVE AloneInv'
  <2>1. /\ \A o \in Commands : Directory(o)' = Directory(o)
        /\ \A o \in Commands : Live(o)' => Live(o) /\ phase'[o] = phase[o]
        /\ UNCHANGED <<stored, report, overlapped>>
    BY <1>2 DEF TypeInv, Refuse, End, Goto, fileVars, Directory, Live, Ended
  <2> QED BY <2>1 DEF AloneInv
<1>3. ASSUME NEW c \in Commands, Start(c) PROVE AloneInv'
  <2>1. PICK m \in ModelsFor[c] :
          /\ IsEmpty(<<RunOf[c], m>>) /\ model' = [model EXCEPT ![c] = m]
          /\ overlapped' = overlapped \cup
                {Directory(o) : o \in {x \in Commands : Live(x) /\ Directory(x) = <<RunOf[c], m>>}}
    BY <1>3 DEF Start
  <2>2. /\ \A o \in Commands : o # c =>
            /\ Directory(o)' = Directory(o) /\ Live(o)' = Live(o) /\ phase'[o] = phase[o]
        /\ Directory(c)' = <<RunOf[c], m>> /\ ~Live(c) /\ phase'[c] = "running"
        /\ UNCHANGED <<stored, report>>
    BY <1>3, <2>1 DEF TypeInv, Start, Goto, fileVars, Directory, Live
  <2>3. \A o \in Commands : Live(o) /\ Directory(o) = <<RunOf[c], m>> => <<RunOf[c], m>> \in overlapped'
    BY <2>1
  <2>4. report[<<RunOf[c], m>>] = Nothing /\ stored[<<RunOf[c], m>>] = Nothing
    BY <2>1 DEF IsEmpty
  <2>5. overlapped \subseteq overlapped'
    BY <2>1
  <2>6. \A o, x \in Commands : o # x /\ Live(o)' /\ Live(x)' /\ Directory(o)' = Directory(x)' =>
            Directory(o)' \in overlapped'
    BY <2>2, <2>3, <2>5 DEF AloneInv
  <2>7. \A o \in Commands : Live(o)' /\ Directory(o)' \notin overlapped' =>
            /\ report'[Directory(o)'] = Nothing
            /\ phase'[o] # "reporting" => stored'[Directory(o)'] = Nothing
            /\ phase'[o] = "reporting" => stored'[Directory(o)'] # Nothing /\ stored'[Directory(o)'].by = o
    BY <2>2, <2>4, <2>5 DEF AloneInv
  <2> QED BY <2>6, <2>7 DEF AloneInv
<1>4. ASSUME NEW c \in Commands, WriteResult(c) \/ WriteReport(c) PROVE AloneInv'
  <2>1. /\ \A o \in Commands : Directory(o)' = Directory(o)
        /\ \A o \in Commands : o # c => Live(o)' = Live(o) /\ phase'[o] = phase[o]
        /\ Live(c) /\ UNCHANGED overlapped
        /\ \A d \in Directories : d # Directory(c) => stored'[d] = stored[d] /\ report'[d] = report[d]
    BY <1>4 DEF TypeInv, WriteResult, WriteReport, End, Goto, Directory, Live, Ended
  <2>2. Live(c)' => WriteResult(c) /\ phase'[c] = "reporting" /\ UNCHANGED report
    BY <1>4 DEF TypeInv, WriteResult, WriteReport, End, Goto, Live, Ended
  <2>3. WriteResult(c) => stored'[Directory(c)] # Nothing /\ stored'[Directory(c)].by = c
    BY DirectoryTyped, ResultIsSomething DEF TypeInv, WriteResult
  <2>4. \A o \in Commands : Live(o)' => Live(o)
    BY <2>1
  <2>5. \A o, x \in Commands : o # x /\ Live(o)' /\ Live(x)' /\ Directory(o)' = Directory(x)' =>
            Directory(o)' \in overlapped'
    BY <2>1, <2>4 DEF AloneInv
  <2>6. \A o \in Commands : Live(o)' /\ o # c /\ Directory(o)' \notin overlapped' => Directory(o) # Directory(c)
    BY <2>1, <2>4 DEF AloneInv
  <2>7. \A o \in Commands : Live(o)' /\ Directory(o)' \notin overlapped' =>
            /\ report'[Directory(o)'] = Nothing
            /\ phase'[o] # "reporting" => stored'[Directory(o)'] = Nothing
            /\ phase'[o] = "reporting" => stored'[Directory(o)'] # Nothing /\ stored'[Directory(o)'].by = o
    BY <2>1, <2>2, <2>3, <2>4, <2>6, DirectoryTyped DEF AloneInv
  <2> QED BY <2>5, <2>7 DEF AloneInv
<1>5. CASE (\E r \in Runs : Compare(r)) \/ UNCHANGED vars
  BY <1>5 DEF AloneInv, Compare, vars, commandVars, fileVars, Directory, Live
<1> QED BY <1>1, <1>2, <1>3, <1>4, <1>5, Steps

-----------------------------------------------------------------------------
(* Results and reports.                                                    *)

LEMMA NextKeeps ==
    TypeInv /\ AloneInv /\ [Next]_vars =>
        \A d \in Directories \ overlapped' : stored[d] # Nothing => stored'[d] = stored[d]
<1> SUFFICES ASSUME TypeInv, AloneInv, [Next]_vars, NEW d \in Directories \ overlapped', stored[d] # Nothing
             PROVE  stored'[d] = stored[d]
    OBVIOUS
<1>1. ASSUME NEW c \in Commands, WriteResult(c) PROVE stored'[d] = stored[d]
  <2>1. Live(c) /\ phase[c] = "running" /\ UNCHANGED overlapped
    BY <1>1 DEF WriteResult, Live, Ended
  <2>2. Directory(c) # d
    BY <2>1 DEF AloneInv
  <2> QED BY <1>1, <2>2 DEF TypeInv, WriteResult
<1>2. ASSUME NEW c \in Commands, WorksOrFails(c) \/ Refuse(c) \/ Start(c) \/ WriteReport(c)
      PROVE  stored'[d] = stored[d]
  BY <1>2 DEF WorksOrFails, Refuse, Start, WriteReport, fileVars
<1>3. CASE (\E r \in Runs : Compare(r)) \/ UNCHANGED vars
  BY <1>3 DEF Compare, vars, fileVars
<1> QED BY <1>1, <1>2, <1>3, Steps


\* The parts of ReportsAgree, and that what is compared was there.
ReportsStored == \A d \in Directories \ overlapped : report[d] # Nothing => report[d] = stored[d]

CodesEarned ==
    \A c \in Commands : Directory(c) \notin overlapped /\ exit[c] = "0" =>
        LET d == Directory(c)
        IN  stored[d] # Nothing /\ stored[d].by = c /\ stored[d].passed /\ report[d] = stored[d]

ComparedStored ==
    \A r \in Runs : comparison[r] # <<>> => \A n \in DOMAIN ScoredModels :
        /\ comparison[r][n] # Nothing
        /\ <<r, ScoredModels[n]>> \notin overlapped => comparison[r][n] = stored[<<r, ScoredModels[n]>>]

SameCases(first, second) ==
    /\ first.baseline = second.baseline
    /\ {x.case : x \in ToSet(first.cases)} = {x.case : x \in ToSet(second.cases)}

ComparedAlike ==
    \A r \in Runs : comparison[r] # <<>> =>
        \A m, n \in DOMAIN ScoredModels : SameCases(comparison[r][m], comparison[r][n])

LEMMA ReportsFromParts ==
    ReportsStored /\ CodesEarned /\ ComparedStored /\ ComparedAlike => ReportsAgree
BY DEF ReportsStored, CodesEarned, ComparedStored, ComparedAlike, SameCases, ReportsAgree

EvalInv ==
    TypeInv /\ AuthorInv /\ AloneInv /\ ReportsStored /\ CodesEarned /\ ComparedStored /\ ComparedAlike

\* Files are written by the two steps that write them.
LEMMA FilesWritten ==
    ASSUME TypeInv, [Next]_vars
    PROVE  /\ overlapped \subseteq overlapped'
           /\ \A c \in Commands : exit'[c] = "0" /\ ~WriteReport(c) => exit[c] = "0" /\ model'[c] = model[c]
           /\ (\E c \in Commands : WriteResult(c)) \/ UNCHANGED stored
           /\ (\E c \in Commands : WriteReport(c)) \/ UNCHANGED report
           /\ (\E r \in Runs : Compare(r)) \/ UNCHANGED comparison
<1>1. ASSUME NEW c \in Commands, WorksOrFails(c) \/ Refuse(c)
      PROVE  /\ UNCHANGED <<stored, report, comparison, model, overlapped>>
             /\ \A o \in Commands : exit'[o] = "0" => exit[o] = "0"
  BY <1>1 DEF TypeInv, WorksOrFails, Refuse, End, fileVars
<1>2. ASSUME NEW c \in Commands, Start(c)
      PROVE  /\ UNCHANGED <<stored, report, comparison, exit>> /\ overlapped \subseteq overlapped'
             /\ \A o \in Commands : exit[o] = "0" => model'[o] = model[o]
  BY <1>2 DEF TypeInv, Start, fileVars
<1>3. ASSUME NEW c \in Commands, WriteResult(c)
      PROVE  UNCHANGED <<report, comparison, exit, model, overlapped>>
  BY <1>3 DEF WriteResult
<1>4. ASSUME NEW c \in Commands, WriteReport(c)
      PROVE  /\ UNCHANGED <<stored, comparison, model, overlapped>>
             /\ \A o \in Commands : exit'[o] = "0" /\ o # c => exit[o] = "0"
  BY <1>4 DEF TypeInv, WriteReport, End
<1>5. ASSUME NEW r \in Runs, Compare(r)
      PROVE  UNCHANGED <<stored, report, exit, model, overlapped>>
  BY <1>5 DEF Compare, commandVars
<1>6. CASE UNCHANGED vars
  BY <1>6 DEF vars, commandVars, fileVars
<1> QED BY <1>1, <1>2, <1>3, <1>4, <1>5, <1>6, Steps

\* A command that reports finds its own result, if it is alone.
LEMMA OwnResult ==
    ASSUME TypeInv, AuthorInv, AloneInv, NEW c \in Commands, phase[c] = "reporting", Directory(c) \notin overlapped
    PROVE  stored[Directory(c)] = Result(c)
<1>1. stored[Directory(c)] # Nothing /\ stored[Directory(c)].by = c
  BY DEF AloneInv, Live, Ended
<1> QED BY <1>1, DirectoryTyped DEF AuthorInv

LEMMA NextReportsStored == EvalInv /\ [Next]_vars => ReportsStored'
<1> SUFFICES ASSUME EvalInv, [Next]_vars, NEW d \in Directories \ overlapped', report'[d] # Nothing
             PROVE  report'[d] = stored'[d]
    BY DEF ReportsStored
<1>1. TypeInv /\ AuthorInv /\ AloneInv /\ ReportsStored /\ d \notin overlapped
  BY FilesWritten DEF EvalInv
<1>2. ASSUME NEW c \in Commands, WriteReport(c), Directory(c) = d PROVE report'[d] = stored'[d]
  <2>1. stored[d] = Result(c)
    BY <1>1, <1>2, OwnResult DEF WriteReport
  <2> QED BY <1>1, <1>2, <2>1 DEF WriteReport, TypeInv
<1>3. ASSUME NEW c \in Commands, WriteReport(c), Directory(c) # d PROVE report'[d] = stored'[d]
  <2>1. report'[d] = report[d] /\ stored'[d] = stored[d]
    BY <1>1, <1>3 DEF WriteReport, TypeInv
  <2> QED BY <1>1, <2>1 DEF ReportsStored
<1>4. CASE UNCHANGED report
  <2>1. report[d] = stored[d]
    BY <1>1, <1>4 DEF ReportsStored
  <2> QED BY <1>1, <1>4, <2>1, NextKeeps
<1> QED BY <1>1, <1>2, <1>3, <1>4, FilesWritten

LEMMA NextCodesEarned == EvalInv /\ [Next]_vars => CodesEarned'
<1> SUFFICES ASSUME EvalInv, [Next]_vars,
                    NEW c \in Commands, Directory(c)' \notin overlapped', exit'[c] = "0"
             PROVE  LET d == Directory(c)'
                    IN  /\ stored'[d] # Nothing /\ stored'[d].by = c
                        /\ stored'[d].passed /\ report'[d] = stored'[d]
    BY DEF CodesEarned
<1>1. TypeInv /\ AuthorInv /\ AloneInv /\ CodesEarned
  BY DEF EvalInv
<1> DEFINE d == Directory(c)
<1>2. CASE WriteReport(c)
  <2>1. Directory(c)' = d /\ d \in Directories /\ d \notin overlapped /\ UNCHANGED stored
    BY <1>1, <1>2, DirectoryTyped DEF WriteReport, Directory
  <2>2. stored[d] = Result(c)
    BY <1>1, <1>2, <2>1, OwnResult DEF WriteReport
  <2>3. report'[d] = Result(c)
    BY <1>1, <1>2, <2>1 DEF WriteReport, TypeInv
  <2>4. Passed(results[c])
    BY <1>1, <1>2 DEF WriteReport, End, TypeInv
  <2>5. Result(c).passed
    BY <2>4 DEF Result
  <2> HIDE DEF d
  <2> QED BY <2>1, <2>2, <2>3, <2>5, ResultIsSomething
<1>3. CASE ~WriteReport(c)
  <2>1. exit[c] = "0" /\ model'[c] = model[c] /\ overlapped \subseteq overlapped'
    BY <1>1, <1>3, FilesWritten
  <2>2. Directory(c)' = d /\ d \in Directories /\ d \notin overlapped
    BY <1>1, <2>1, DirectoryTyped DEF Directory
  <2>3. stored[d] # Nothing /\ stored[d].by = c /\ stored[d].passed /\ report[d] = stored[d]
    BY <1>1, <2>1, <2>2 DEF CodesEarned
  <2> HIDE DEF d
  <2>4. stored'[d] = stored[d]
    BY <1>1, <2>2, <2>3, NextKeeps
  <2>5. report'[d] # Nothing
    <3>1. ASSUME NEW o \in Commands, WriteReport(o) PROVE report'[d] # Nothing
      BY <1>1, <2>2, <2>3, <3>1, ResultIsSomething DEF WriteReport, TypeInv
    <3> QED BY <1>1, <2>3, <3>1, FilesWritten
  <2>6. report'[d] = stored'[d]
    BY <2>2, <2>5, NextReportsStored DEF ReportsStored
  <2> QED BY <2>2, <2>3, <2>4, <2>6
<1> QED BY <1>2, <1>3

LEMMA NextCompared == EvalInv /\ [Next]_vars => ComparedStored' /\ ComparedAlike'
<1> SUFFICES ASSUME EvalInv, [Next]_vars, NEW r \in Runs, comparison'[r] # <<>>
             PROVE  /\ \A n \in DOMAIN ScoredModels :
                        /\ comparison'[r][n] # Nothing
                        /\ <<r, ScoredModels[n]>> \notin overlapped' =>
                                comparison'[r][n] = stored'[<<r, ScoredModels[n]>>]
                    /\ \A m, n \in DOMAIN ScoredModels : SameCases(comparison'[r][m], comparison'[r][n])
    BY DEF ComparedStored, ComparedAlike
<1>1. TypeInv /\ AloneInv /\ ComparedStored /\ ComparedAlike
  BY DEF EvalInv
<1>2. CASE comparison'[r] = comparison[r]
  <2>1. ASSUME NEW n \in DOMAIN ScoredModels, <<r, ScoredModels[n]>> \notin overlapped'
        PROVE  comparison'[r][n] = stored'[<<r, ScoredModels[n]>>]
    <3>1. /\ <<r, ScoredModels[n]>> \in Directories \ overlapped'
          /\ <<r, ScoredModels[n]>> \notin overlapped
      BY <1>1, <2>1, DirectoryOfRun, FilesWritten
    <3>2. stored[<<r, ScoredModels[n]>>] # Nothing /\ comparison[r][n] = stored[<<r, ScoredModels[n]>>]
      BY <1>1, <1>2, <3>1 DEF ComparedStored
    <3> QED BY <1>1, <1>2, <3>1, <3>2, NextKeeps
  <2>2. \A n \in DOMAIN ScoredModels : comparison'[r][n] # Nothing
    BY <1>1, <1>2 DEF ComparedStored
  <2>3. \A m, n \in DOMAIN ScoredModels : SameCases(comparison'[r][m], comparison'[r][n])
    BY <1>1, <1>2 DEF ComparedAlike
  <2> QED BY <2>1, <2>2, <2>3
<1>3. CASE Compare(r)
  <2> DEFINE pair == [n \in DOMAIN ScoredModels |-> stored[<<r, ScoredModels[n]>>]]
  <2>1. /\ \A n \in DOMAIN pair : pair[n] # Nothing
        /\ Comparable(pair[1], pair[2])
        /\ comparison'[r] = pair
        /\ UNCHANGED stored
    BY <1>1, <1>3 DEF Compare, TypeInv
  <2>2. \A n \in DOMAIN ScoredModels : pair[n] = stored[<<r, ScoredModels[n]>>] /\ n \in DOMAIN pair
    OBVIOUS
  <2>3. SameCases(pair[1], pair[2])
    <3> HIDE DEF pair
    <3> QED BY <2>1 DEF Comparable, SameCases, ToSet
  <2>4. \A m, n \in DOMAIN ScoredModels : SameCases(pair[m], pair[n])
    <3> HIDE DEF pair
    <3> QED BY <2>3, TwoModels DEF SameCases
  <2> HIDE DEF pair
  <2> QED BY <2>1, <2>2, <2>4
<1>4. comparison'[r] = comparison[r] \/ Compare(r)
  <2>1. ASSUME NEW o \in Runs, Compare(o) PROVE comparison'[r] = comparison[r] \/ Compare(r)
    BY <1>1, <2>1 DEF Compare, TypeInv
  <2> QED BY <1>1, <2>1, FilesWritten
<1> QED BY <1>2, <1>3, <1>4

LEMMA EvalInvAlways == Spec => []EvalInv
<1>1. Init => EvalInv
  <2> SUFFICES ASSUME Init PROVE EvalInv
      OBVIOUS
  <2>1. ReportsStored /\ CodesEarned /\ ComparedStored /\ ComparedAlike
    BY DEF Init, ReportsStored, CodesEarned, ComparedStored, ComparedAlike
  <2> QED BY <2>1, InitTypeInv, InitAuthor, InitAlone DEF EvalInv
<1>2. EvalInv /\ [Next]_vars => EvalInv'
  BY NextTypeInv, NextAuthor, NextAlone, NextReportsStored, NextCodesEarned, NextCompared DEF EvalInv
<1> QED BY <1>1, <1>2, PTL DEF Spec

\* Whatever commands run, fail, are killed or share directories: reports, exit
\* codes and comparisons agree with the stored results of every directory that
\* no two commands have shared, and what is compared is of the same cases.
THEOREM ReportsAlwaysAgree == Spec => []ReportsAgree
<1>1. EvalInv => ReportsAgree
  BY ReportsFromParts DEF EvalInv
<1> QED BY <1>1, EvalInvAlways, PTL

\* The same commands never replace the stored result of such a directory.
THEOREM ResultsAlwaysKept == Spec => ResultsAreKept
<1>1. EvalInv /\ [Next]_vars =>
        [\A d \in Directories \ overlapped' : stored[d] # Nothing => stored'[d] = stored[d]]_vars
  BY NextKeeps DEF EvalInv
<1> QED BY <1>1, EvalInvAlways, PTL DEF Spec, ResultsAreKept

-----------------------------------------------------------------------------
(* What a passed gate rests on.                                            *)

IsASequence(s) == \E S : s \in Seq(S)

\* The ids of the lines of a file.
LineIds(file) == {file[n].id : n \in {m \in DOMAIN file : IsLine(file, m)}}

\* A line that can be read is a whole one.
LEMMA LinesAreWhole ==
    ASSUME NEW file, IsASequence(file), NEW n \in DOMAIN file, IsLine(file, n)
    PROVE  WholeLine(file, n, file[n].id)
<1>1. PICK S : file \in Seq(S)
  BY DEF IsASequence
<1>2. n \in 1..Len(file) /\ Len(file) \in Nat /\ n + 1 \in DOMAIN file
  BY <1>1 DEF IsLine
<1>3. file[n].half = 1 /\ file[n + 1].id = file[n].id /\ file[n + 1].half = 2
  BY DEF IsLine
<1>4. n + 1 - 1 = n /\ n + 2 - 1 = n + 1
  BY <1>2
<1>5. ASSUME NEW m \in DOMAIN file, m + 1 = n PROVE file[m].half = 2
  <2>1. m \in 1..Len(file)
    BY <1>1
  <2>2. n # 1 /\ m = n - 1
    BY <1>2, <1>5, <2>1
  <2> QED BY <2>2 DEF IsLine
<1> QED BY <1>2, <1>3, <1>4, <1>5 DEF WholeLine

\* What is read of a case from a file are ids of its lines.
LEMMA TracedLines ==
    ASSUME NEW c, NEW i, IsASequence(trace[Directory(c)])
    PROVE  TraceIds(c, i) \in Seq(LineIds(trace[Directory(c)]))
<1> DEFINE file == trace[Directory(c)]
           N == Len(file)
           V == Seq(LineIds(file))
           Keeps(n) == IsLine(file, n) /\ file[n].id[1] = c /\ file[n].id[2] = i
           next(n, s) == IF Keeps(n) THEN Append(s, file[n].id) ELSE s
           step == [n \in 1..N |-> [s \in V |-> next(n, s)]]
           e == <<>>
           Is(x) == [n \in 0..N |-> IF n = 0 THEN <<>> ELSE IF Keeps(n) THEN Append(x[n - 1], file[n].id) ELSE x[n - 1]]
           ids == CHOOSE x : x = Is(x)
<1>1. PICK S : file \in Seq(S)
  BY DEF IsASequence
<1>2. N \in Nat /\ DOMAIN file = 1..N /\ e \in V
  BY <1>1
<1>3. \A n \in 1..N, s \in V : next(n, s) \in V
  <2> SUFFICES ASSUME NEW n \in 1..N, NEW s \in V PROVE next(n, s) \in V
      OBVIOUS
  <2>1. Keeps(n) => file[n].id \in LineIds(file)
    <3> HIDE DEF file
    <3> QED BY <1>2 DEF LineIds
  <2>2. CASE Keeps(n)
    <3> DEFINE L == LineIds(file)
               x == file[n].id
    <3>1. x \in L /\ s \in Seq(L)
      BY <2>1, <2>2
    <3>2. next(n, s) = Append(s, x)
      BY <2>2
    <3> HIDE DEF L, x, next
    <3>3. next(n, s) \in Seq(L)
      BY <3>1, <3>2
    <3> QED BY <3>3 DEF L
  <2>3. CASE ~Keeps(n)
    BY <2>3
  <2> QED BY <2>2, <2>3
<1>4. step \in [1..N -> [V -> V]]
  <2> HIDE DEF next, V, N
  <2> QED BY <1>3
<1>5. PICK f \in [0..N -> V] : IsIteration(f, N, e, step)
  <2> HIDE DEF V, N, e, step
  <2> QED BY <1>2, <1>4, Iterated
<1>6. f = Is(f)
  <2> SUFFICES ASSUME NEW n \in 0..N PROVE f[n] = Is(f)[n]
    BY <1>5
  <2>1. CASE n = 0
    BY <1>5, <2>1 DEF IsIteration
  <2>2. CASE n # 0
    <3>1. n \in 1..N /\ n - 1 \in 0..N
      BY <1>2, <2>2
    <3>2. f[n - 1] \in V /\ f[n] = step[n][f[n - 1]]
      BY <1>5, <3>1 DEF IsIteration
    <3>3. f[n] = next(n, f[n - 1])
      <4> HIDE DEF V, N, next
      <4> QED BY <3>1, <3>2
    <3> QED BY <3>1, <3>3, <2>2
  <2> QED BY <2>1, <2>2
<1>7. ids = Is(ids)
  <2> HIDE DEF Is
  <2> QED BY <1>6
<1>8. \A n \in 0..N : ids[n] \in V
  <2> DEFINE T == {n \in 0..N : ids[n] \in V}
  <2>1. 0 \in T
    <3>1. 0 \in 0..N
      BY <1>2
    <3>2. Is(ids)[0] = e
      BY <3>1
    <3>3. ids[0] = e
      BY <1>7, <3>2
    <3> HIDE DEF V, e, ids
    <3> QED BY <1>2, <3>1, <3>3
  <2>2. ASSUME NEW n \in 1..N, n - 1 \in T PROVE n \in T
    <3>1. n \in 0..N /\ n # 0
      BY <1>2
    <3>2. Is(ids)[n] = next(n, ids[n - 1])
      BY <3>1
    <3>3. ids[n] = next(n, ids[n - 1])
      BY <1>7, <3>2
    <3> HIDE DEF next, V, ids
    <3> QED BY <1>3, <2>2, <3>1, <3>3
  <2>3. \A n \in 0..N : n \in T
    <3> HIDE DEF T
    <3> QED BY <1>2, <2>1, <2>2, UpTo
  <2> QED BY <2>3
<1>9. TraceIds(c, i) = ids[N]
  BY DEF TraceIds
<1> HIDE DEF ids
<1> QED BY <1>2, <1>8, <1>9

\* What GateIsEarned demands of a case.
EarnedBy(c, k, call) ==
    /\ call \in ToSet(CallsOf(c, k))
    /\ CallsOf(c, k) = <<call>> /\ call.model = model[c] /\ call.valid
    /\ HasLine(Directory(c), CallId(c, call))
    /\ Broken(ContentRules(Dataset.cases[k].expected, Normalized(call.answer.text))) = {}

Earned(c, k) == \E call : EarnedBy(c, k, call)

\* The calls of the cases, the lines of the files and the results are
\* sequences, the results those of the first cases, in their order; and a
\* result whose hard rules are kept is earned.
SequencesInv ==
    /\ DOMAIN calls = Commands /\ DOMAIN trace = Directories
    /\ \A c \in Commands : DOMAIN calls[c] = DOMAIN Dataset.cases
    /\ \A c \in Commands, k \in DOMAIN Dataset.cases : IsASequence(calls[c][k])
    /\ \A d \in Directories : IsASequence(trace[d])
    /\ \A c \in Commands : IsASequence(results[c])

ScoredOf(c) ==
    /\ phase[c] = "idle" => results[c] = <<>>
    /\ Len(results[c]) = at[c] - 1 /\ at[c] <= Len(selected[c]) + 1
    /\ \A i \in DOMAIN results[c] :
        /\ results[c][i].case = selected[c][i]
        /\ results[c][i].hard => Earned(c, selected[c][i])

ScoredInv == \A c \in Commands : ScoredOf(c)

LEMMA Appended ==
    ASSUME NEW s, NEW e, IsASequence(s)
    PROVE  /\ IsASequence(Append(s, e))
           /\ Len(s) \in Nat /\ DOMAIN s = 1..Len(s)
           /\ Len(Append(s, e)) = Len(s) + 1 /\ DOMAIN Append(s, e) = 1..(Len(s) + 1)
           /\ \A n \in 1..Len(s) : Append(s, e)[n] = s[n]
           /\ Append(s, e)[Len(s) + 1] = e
<1>1. PICK S : s \in Seq(S)
  BY DEF IsASequence
<1>2. s \in Seq(S \cup {e}) /\ Append(s, e) \in Seq(S \cup {e})
  BY <1>1
<1> QED BY <1>1, <1>2 DEF IsASequence

LEMMA SameOrAppended ==
    \A s, t : IsASequence(s) /\ (t = s \/ \E e : t = Append(s, e)) => IsASequence(t)
<1> TAKE s, t
<1>1. ASSUME IsASequence(s), NEW e PROVE IsASequence(Append(s, e))
  BY <1>1, Appended
<1> QED BY <1>1

LEMMA CaseNumber ==
    ASSUME TypeInv, NEW c \in Commands, at[c] <= Len(selected[c])
    PROVE  at[c] \in DOMAIN selected[c] /\ selected[c][at[c]] \in DOMAIN Dataset.cases
<1>1. selected[c] \in Seq(DOMAIN Dataset.cases) /\ at[c] \in Nat \ {0}
  BY DEF TypeInv
<1> QED BY <1>1

LEMMA NextSequences == TypeInv /\ SequencesInv /\ [Next]_vars => SequencesInv'
<1> SUFFICES ASSUME TypeInv, SequencesInv, [Next]_vars PROVE SequencesInv'
    OBVIOUS
<1>1. IsASequence(<<>>)
  <2>1. <<>> \in Seq({})
    OBVIOUS
  <2> QED BY <2>1 DEF IsASequence
<1>2. ASSUME NEW c \in Commands, OpenSession(c) \/ ScoreCase(c) PROVE SequencesInv'
  <2>1. /\ UNCHANGED <<calls, trace>>
        /\ \/ UNCHANGED results
           \/ \E e : results' = [results EXCEPT ![c] = Append(@, e)]
    BY <1>2 DEF OpenSession, ScoreCase, Score
  <2>2. \A o \in Commands : results'[o] = results[o] \/ \E e : results'[o] = Append(results[o], e)
    BY <2>1 DEF TypeInv
  <2>3. \A o \in Commands : IsASequence(results'[o])
    BY <2>2, SameOrAppended DEF SequencesInv
  <2> QED BY <2>1, <2>3 DEF SequencesInv
<1>3. ASSUME NEW c \in Commands, CallModel(c) PROVE SequencesInv'
  <2> DEFINE k == selected[c][at[c]]
  <2>1. /\ UNCHANGED <<results, trace>>
        /\ \E e : calls' = [calls EXCEPT ![c][k] = Append(@, e)]
    BY <1>3 DEF CallModel
  <2> HIDE DEF k
  <2>2. PICK e : calls' = [calls EXCEPT ![c][k] = Append(@, e)]
    BY <2>1
  <2>3. /\ DOMAIN calls' = Commands
        /\ \A o \in Commands : DOMAIN calls'[o] = DOMAIN Dataset.cases
        /\ \A o \in Commands, i \in DOMAIN Dataset.cases :
              calls'[o][i] = calls[o][i] \/ calls'[o][i] = Append(calls[o][i], e)
    BY <2>2 DEF SequencesInv
  <2> QED BY <2>1, <2>3, Appended DEF SequencesInv
<1>4. ASSUME NEW c \in Commands, BeginLine(c) \/ EndLine(c) PROVE SequencesInv'
  <2>1. /\ UNCHANGED <<results, calls>>
        /\ \/ UNCHANGED trace
           \/ \E e : trace' = [trace EXCEPT ![Directory(c)] = Append(@, e)]
    BY <1>4 DEF BeginLine, EndLine, AppendHalf
  <2>2. DOMAIN trace' = Directories
    BY <2>1 DEF SequencesInv
  <2>3. \A d \in Directories : trace'[d] = trace[d] \/ \E e : trace'[d] = Append(trace[d], e)
    BY <2>1 DEF SequencesInv
  <2>4. \A d \in Directories : IsASequence(trace'[d])
    BY <2>3, SameOrAppended DEF SequencesInv
  <2> QED BY <2>1, <2>2, <2>4 DEF SequencesInv
<1>5. ASSUME NEW c \in Commands,
             Refuse(c) \/ Start(c) \/ TurnFails(c) \/ WriteResult(c) \/ WriteReport(c) \/ Unexpected(c) \/ Kill(c)
      PROVE  SequencesInv'
  <2>1. UNCHANGED <<results, calls, trace>>
    BY <1>5 DEF Refuse, Start, TurnFails, WriteResult, WriteReport, Unexpected, Kill
  <2> QED BY <2>1 DEF SequencesInv
<1>6. ASSUME NEW r \in Runs, Compare(r) PROVE SequencesInv'
  BY <1>6 DEF Compare, commandVars, SequencesInv
<1>7. CASE UNCHANGED vars
  BY <1>7 DEF vars, commandVars, SequencesInv
<1> QED BY <1>2, <1>3, <1>4, <1>5, <1>6, <1>7 DEF Next, Work


\* A line stays a line when more is written.
LEMMA LinesStay ==
    ASSUME TypeInv, SequencesInv, [Next]_vars, NEW d \in Directories, NEW id, HasLine(d, id)
    PROVE  HasLine(d, id)'
<1>1. PICK n \in DOMAIN trace[d] : WholeLine(trace[d], n, id)
  BY DEF HasLine
<1>2. ASSUME NEW e, trace'[d] = Append(trace[d], e) PROVE HasLine(d, id)'
  <2>1. IsASequence(trace[d])
    BY DEF SequencesInv
  <2>2. n \in 1..Len(trace[d]) /\ n + 1 \in 1..Len(trace[d])
    BY <2>1, <1>1, Appended DEF WholeLine
  <2>3. /\ n \in DOMAIN trace'[d] /\ n + 1 \in DOMAIN trace'[d]
        /\ trace'[d][n] = trace[d][n] /\ trace'[d][n + 1] = trace[d][n + 1]
    BY <1>2, <2>1, <2>2, Appended
  <2>4. ASSUME NEW m \in DOMAIN trace'[d], m + 1 = n PROVE trace'[d][m].half = 2
    <3>1. m \in DOMAIN trace[d] /\ trace'[d][m] = trace[d][m]
      BY <1>2, <2>1, <2>2, <2>4, Appended
    <3> QED BY <1>1, <2>4, <3>1 DEF WholeLine
  <2>5. \A half \in {1, 2} : /\ trace'[d][n + half - 1].id = id
                            /\ trace'[d][n + half - 1].half = half
    <3>1. n + 1 - 1 = n /\ n + 2 - 1 = n + 1
      BY <2>2
    <3> QED BY <1>1, <2>3, <3>1 DEF WholeLine
  <2>6. WholeLine(trace'[d], n, id)
    BY <2>3, <2>4, <2>5 DEF WholeLine
  <2> QED BY <2>3, <2>6 DEF HasLine
<1>3. trace'[d] = trace[d] \/ \E e : trace'[d] = Append(trace[d], e)
  <2>1. ASSUME NEW c \in Commands, AppendHalf(c, 1) \/ AppendHalf(c, 2)
        PROVE  trace'[d] = trace[d] \/ \E e : trace'[d] = Append(trace[d], e)
    BY <2>1 DEF AppendHalf, SequencesInv
  <2>2. UNCHANGED trace \/ \E c \in Commands : AppendHalf(c, 1) \/ AppendHalf(c, 2)
    BY DEF Next, Work, Refuse, Start, OpenSession, CallModel, TurnFails, BeginLine, EndLine, ScoreCase,
           WriteResult, WriteReport, Unexpected, Kill, Compare, vars
  <2> QED BY <2>1, <2>2
<1>4. CASE trace'[d] = trace[d]
  BY <1>1, <1>4 DEF HasLine
<1> QED BY <1>2, <1>3, <1>4

\* An earned case stays earned while the command gets no further call for it.
LEMMA EarnedStays ==
    ASSUME TypeInv, SequencesInv, [Next]_vars, NEW c \in Commands, NEW k, Earned(c, k),
           CallsOf(c, k)' = CallsOf(c, k), model'[c] = model[c]
    PROVE  Earned(c, k)'
<1>1. PICK call : EarnedBy(c, k, call)
  BY DEF Earned
<1>2. Directory(c) \in Directories /\ Directory(c)' = Directory(c)
  BY DirectoryTyped DEF Directory
<1>3. HasLine(Directory(c), CallId(c, call))'
  <2> DEFINE d == Directory(c)
             id == CallId(c, call)
  <2>1. HasLine(d, id)
    BY <1>1 DEF EarnedBy
  <2>2. d \in Directories
    BY <1>2
  <2>3. ASSUME NEW x \in Directories, NEW y, HasLine(x, y) PROVE HasLine(x, y)'
    BY <2>3, LinesStay
  <2>4. HasLine(d, id)' = \E n \in DOMAIN trace'[d] : WholeLine(trace'[d], n, id)
    BY <1>2 DEF HasLine, CallId
  <2> QED BY <2>1, <2>2, <2>3, <2>4 DEF HasLine
<1>4. EarnedBy(c, k, call)'
  BY <1>1, <1>3 DEF EarnedBy
<1> QED BY <1>4 DEF Earned

\* A case whose hard rules are kept is earned as it is scored.
LEMMA HardIsEarned ==
    ASSUME TypeInv, SequencesInv, NEW c \in Commands, at[c] <= Len(selected[c]),
           NEW made, made = <<>> \/ made = Made(c), HardPassed(c, made)
    PROVE  Earned(c, selected[c][at[c]])
<1> DEFINE k == selected[c][at[c]]
<1>1. k \in DOMAIN Dataset.cases
  BY CaseNumber
<1>2. made # <<>> /\ made[Len(made)].valid
  BY DEF HardPassed, Answered
<1>3. made = calls[c][k] /\ IsASequence(made)
  <2>1. made = calls[c][k]
    BY <1>2 DEF Made, CallsOf
  <2> QED BY <1>1, <2>1 DEF SequencesInv
<1> DEFINE call == made[1]
<1>4. Len(made) = 1 /\ made[1].model = model[c]
  BY DEF HardPassed
<1>5. made = <<call>> /\ DOMAIN made = {1}
  <2>1. PICK S : made \in Seq(S)
    BY <1>3 DEF IsASequence
  <2> QED BY <1>4, <2>1
<1>6. HasLine(Directory(c), CallId(c, call))
  <2> DEFINE file == trace[Directory(c)]
             told == TraceIds(c, k)
  <2>1. IsASequence(file)
    BY DirectoryTyped DEF SequencesInv
  <2>2. told \in Seq(LineIds(file))
    BY <2>1, TracedLines
  <2>3. [n \in DOMAIN made |-> CallId(c, made[n])] = told
    BY DEF HardPassed
  <2>4. told[1] = CallId(c, call) /\ 1 \in DOMAIN told
    <3> HIDE DEF told
    <3> QED BY <1>5, <2>3
  <2>5. CallId(c, call) \in LineIds(file)
    <3> HIDE DEF told, file, call
    <3> QED BY <2>2, <2>4
  <2>6. PICK n \in DOMAIN file : IsLine(file, n) /\ file[n].id = CallId(c, call)
    <3> HIDE DEF call, file
    <3> QED BY <2>5 DEF LineIds
  <2>7. WholeLine(file, n, CallId(c, call))
    <3> HIDE DEF call, file
    <3> QED BY <2>1, <2>6, LinesAreWhole
  <2> HIDE DEF call
  <2> QED BY <2>7 DEF HasLine
<1>7. Broken(ContentRules(Dataset.cases[k].expected, Normalized(call.answer.text))) = {}
  <2>1. Content(made) = Normalized(call.answer.text)
    BY <1>2, <1>4 DEF Content, Answered
  <2>2. Broken(ContentRules(Dataset.cases[k].expected, Content(made))) = {}
    BY DEF HardPassed, Case
  <2> QED BY <2>1, <2>2
<1>8. CallsOf(c, k) = <<call>> /\ call \in ToSet(CallsOf(c, k))
  <2>1. CallsOf(c, k) = made
    BY <1>3 DEF CallsOf
  <2> QED BY <1>5, <2>1 DEF ToSet
<1> QED BY <1>2, <1>4, <1>6, <1>7, <1>8 DEF Earned, EarnedBy


LEMMA InitScored == Init => SequencesInv /\ ScoredInv
<1> SUFFICES ASSUME Init PROVE SequencesInv /\ ScoredInv
    OBVIOUS
<1>1. IsASequence(<<>>)
  <2>1. <<>> \in Seq({})
    OBVIOUS
  <2> QED BY <2>1 DEF IsASequence
<1>2. SequencesInv
  BY <1>1 DEF Init, SequencesInv
<1>3. ScoredInv
  BY DEF Init, ScoredInv, ScoredOf
<1> QED BY <1>2, <1>3

\* The scored cases of a command that has no further call for them, and that
\* scores no other one, stay as they are.
LEMMA ScoredStays ==
    ASSUME TypeInv, SequencesInv, ScoredInv, [Next]_vars, NEW c \in Commands,
           UNCHANGED <<selected[c], at[c], results[c], model[c]>>,
           \A i \in DOMAIN results[c] : CallsOf(c, selected[c][i])' = CallsOf(c, selected[c][i]),
           phase'[c] = "idle" => phase[c] = "idle"
    PROVE  ScoredOf(c)'
<1>1. ASSUME NEW i \in DOMAIN results[c], results[c][i].hard
      PROVE  Earned(c, selected[c][i])'
  <2>1. PICK k : k = selected[c][i]
    OBVIOUS
  <2>2. Earned(c, k) /\ CallsOf(c, k)' = CallsOf(c, k) /\ selected'[c][i] = k
    BY <1>1, <2>1 DEF ScoredInv, ScoredOf, CallsOf
  <2>3. Earned(c, k)'
    BY <2>2, EarnedStays
  <2> QED BY <2>2, <2>3 DEF Earned, EarnedBy, CallsOf, CallId
<1> QED BY <1>1 DEF ScoredInv, ScoredOf


LEMMA NextScored == TypeInv /\ SequencesInv /\ ScoredInv /\ [Next]_vars => ScoredInv'
<1> SUFFICES ASSUME TypeInv, SequencesInv, ScoredInv, [Next]_vars, NEW c \in Commands
             PROVE  ScoredOf(c)'
    BY DEF ScoredInv
<1>1. ASSUME UNCHANGED <<selected[c], at[c], results[c], model[c], calls[c]>>,
             phase'[c] = "idle" => phase[c] = "idle"
      PROVE  ScoredOf(c)'
  <2>1. \A i \in DOMAIN results[c] : CallsOf(c, selected[c][i])' = CallsOf(c, selected[c][i])
    BY <1>1 DEF CallsOf
  <2> QED BY <1>1, <2>1, ScoredStays
<1>2. ASSUME Start(c) PROVE ScoredOf(c)'
  <2>1. results[c] = <<>> /\ at[c] = 1
    BY <1>2 DEF ScoredInv, ScoredOf, Start, TypeInv
  <2>2. UNCHANGED <<results, at>> /\ phase'[c] # "idle"
    BY <1>2 DEF Start, Goto, TypeInv
  <2>3. selected'[c] \in Seq(DOMAIN Dataset.cases)
    BY NextTypeInv DEF TypeInv
  <2> QED BY <2>1, <2>2, <2>3 DEF ScoredOf
<1>3. ASSUME CallModel(c) PROVE ScoredOf(c)'
  <2>1. /\ UNCHANGED <<selected, at, results, model>>
        /\ \E e : calls' = [calls EXCEPT ![c][selected[c][at[c]]] = Append(@, e)]
        /\ phase[c] = "calling" /\ phase'[c] = "tracing"
    BY <1>3 DEF CallModel, Goto, TypeInv
  <2>2. at[c] <= Len(selected[c])
    BY <2>1 DEF TypeInv, AtCase
  <2>3. ASSUME NEW i \in DOMAIN results[c]
        PROVE  CallsOf(c, selected[c][i])' = CallsOf(c, selected[c][i])
    <3>1. IsASequence(results[c]) /\ Len(results[c]) = at[c] - 1
      BY DEF SequencesInv, ScoredInv, ScoredOf
    <3>2. i \in 1..(at[c] - 1)
      BY <3>1, Appended
    <3>3. /\ i \in DOMAIN selected[c] /\ at[c] \in DOMAIN selected[c] /\ i # at[c]
          /\ selected[c][i] \in DOMAIN Dataset.cases
      <4>1. selected[c] \in Seq(DOMAIN Dataset.cases) /\ at[c] \in Nat \ {0}
        BY DEF TypeInv
      <4> QED BY <4>1, <2>2, <3>2
    <3>4. selected[c][i] # selected[c][at[c]]
      BY <3>3 DEF TypeInv, NoCaseTwice
    <3> QED BY <2>1, <3>3, <3>4 DEF CallsOf, SequencesInv
  <2> QED BY <2>1, <2>3, ScoredStays
<1>4. ASSUME NEW made, Score(c, made), made = <<>> \/ made = Made(c), at[c] <= Len(selected[c]),
             UNCHANGED <<model, selected, calls, trace>>
      PROVE  ScoredOf(c)'
  <2> DEFINE scored == [case |-> selected[c][at[c]], hard |-> HardPassed(c, made),
                        soft |-> SoftScore(Case(c).suggested, Content(made))]
             n == at[c]
  <2>1. /\ results'[c] = Append(results[c], scored)
        /\ at'[c] = n + 1 /\ phase'[c] = "running"
    BY <1>4 DEF Score, Goto, TypeInv
  <2>2. IsASequence(results[c]) /\ Len(results[c]) = n - 1 /\ n \in Nat
    BY DEF SequencesInv, ScoredInv, ScoredOf, TypeInv
  <2>3. /\ Len(results'[c]) = n /\ DOMAIN results'[c] = 1..n
        /\ \A i \in 1..(n - 1) : results'[c][i] = results[c][i] /\ i \in DOMAIN results[c]
        /\ results'[c][n] = scored
    <3> HIDE DEF scored
    <3>1. Len(results[c]) + 1 = n
      BY <2>2
    <3> QED BY <2>1, <2>2, <3>1, Appended
  <2>4. scored.case = selected[c][n] /\ (scored.hard => HardPassed(c, made))
    OBVIOUS
  <2>5. ASSUME NEW k, Earned(c, k) PROVE Earned(c, k)'
    BY <1>4, <2>5, EarnedStays DEF CallsOf
  <2>6. ASSUME NEW i \in 1..n PROVE results'[c][i].case = selected'[c][i]
    <3>1. CASE i = n
      BY <1>4, <2>3, <2>4, <3>1
    <3>2. CASE i # n
      <4>1. i \in 1..(n - 1)
        BY <2>2, <3>2
      <4> HIDE DEF n, scored
      <4> QED BY <1>4, <2>3, <4>1 DEF ScoredInv, ScoredOf
    <3> QED BY <3>1, <3>2
  <2>7. ASSUME NEW i \in 1..n, results'[c][i].hard PROVE Earned(c, selected[c][i])'
    <3>1. PICK k : k = selected[c][i]
      OBVIOUS
    <3>2. CASE i = n
      <4>1. HardPassed(c, made)
        BY <2>3, <2>4, <2>7, <3>2
      <4>2. Earned(c, k)
        BY <1>4, <3>1, <3>2, <4>1, HardIsEarned
      <4> QED BY <1>4, <2>5, <3>1, <4>2 DEF Earned, EarnedBy, CallsOf, CallId
    <3>3. CASE i # n
      <4>1. i \in 1..(n - 1)
        BY <2>2, <3>3
      <4>2. Earned(c, k)
        BY <2>3, <2>7, <3>1, <4>1 DEF ScoredInv, ScoredOf
      <4> QED BY <1>4, <2>5, <3>1, <4>2 DEF Earned, EarnedBy, CallsOf, CallId
    <3> QED BY <3>2, <3>3
  <2>8. at'[c] <= Len(selected'[c]) + 1
    <3>1. selected[c] \in Seq(DOMAIN Dataset.cases)
      BY DEF TypeInv
    <3> QED BY <1>4, <2>1, <2>2, <3>1
  <2> HIDE DEF n, scored
  <2> QED BY <2>1, <2>2, <2>3, <2>6, <2>7, <2>8 DEF ScoredOf
<1>5. ASSUME OpenSession(c) \/ ScoreCase(c) PROVE ScoredOf(c)'
  <2>1. CASE Score(c, <<>>) \/ Score(c, Made(c))
    <3>1. at[c] <= Len(selected[c])
      BY <1>5 DEF OpenSession, ScoreCase, TypeInv, AtCase
    <3>2. UNCHANGED <<model, selected, calls, trace>>
      BY <1>5 DEF OpenSession, ScoreCase
    <3> QED BY <1>4, <2>1, <3>1, <3>2
  <2>2. CASE ~(Score(c, <<>>) \/ Score(c, Made(c)))
    <3>1. UNCHANGED <<selected, at, results, model, calls>> /\ phase'[c] = "calling"
      BY <1>5, <2>2 DEF OpenSession, ScoreCase, Goto, TypeInv
    <3> QED BY <1>1, <3>1
  <2> QED BY <2>1, <2>2
<1>6. ASSUME NEW o \in Commands, o # c,
             Start(o) \/ OpenSession(o) \/ CallModel(o) \/ ScoreCase(o)
      PROVE  ScoredOf(c)'
  <2>1. UNCHANGED <<selected[c], at[c], results[c], model[c]>>
    BY <1>6 DEF Start, OpenSession, CallModel, ScoreCase, Score, TypeInv
  <2>2. UNCHANGED calls[c]
    BY <1>6 DEF Start, OpenSession, CallModel, ScoreCase, SequencesInv
  <2>3. UNCHANGED phase[c]
    BY <1>6 DEF Start, OpenSession, CallModel, ScoreCase, Score, Goto, TypeInv
  <2> QED BY <1>1, <2>1, <2>2, <2>3
<1>7. ASSUME NEW o \in Commands, Refuse(o) \/ TurnFails(o) \/ BeginLine(o) \/ EndLine(o)
                \/ WriteResult(o) \/ WriteReport(o) \/ Unexpected(o) \/ Kill(o)
      PROVE  ScoredOf(c)'
  <2>1. UNCHANGED <<selected, at, results, model, calls>>
    BY <1>7 DEF Refuse, TurnFails, BeginLine, EndLine, WriteResult, WriteReport, Unexpected, Kill
  <2>2. phase'[c] = "idle" => phase[c] = "idle"
    <3>1. AfterTrace(o) \in {"calling", "responded"}
      BY DEF AfterTrace
    <3> QED BY <1>7, <3>1 DEF Refuse, TurnFails, BeginLine, EndLine, WriteResult, WriteReport, Unexpected,
                              Kill, End, Goto, TypeInv
  <2> QED BY <1>1, <2>1, <2>2
<1>8. ASSUME NEW r \in Runs, Compare(r) PROVE ScoredOf(c)'
  BY <1>1, <1>8 DEF Compare, commandVars
<1>9. CASE UNCHANGED vars
  BY <1>1, <1>9 DEF vars, commandVars
<1> QED BY <1>2, <1>3, <1>5, <1>6, <1>7, <1>8, <1>9 DEF Next, Work

LEMMA EarnedGate == TypeInv /\ AuthorInv /\ ScoredInv => GateIsEarned
<1> SUFFICES ASSUME TypeInv, AuthorInv, ScoredInv,
                    NEW d \in Directories, stored[d] # Nothing, stored[d].passed
             PROVE  /\ stored[d].cases # <<>>
                    /\ \A i \in DOMAIN stored[d].cases :
                        LET c == stored[d].by
                            k == stored[d].cases[i].case
                        IN  \E call \in ToSet(CallsOf(c, k)) :
                                /\ CallsOf(c, k) = <<call>> /\ call.model = d[2] /\ call.valid
                                /\ HasLine(d, CallId(c, call))
                                /\ Broken(ContentRules(Dataset.cases[k].expected,
                                                       Normalized(call.answer.text))) = {}
    BY DEF GateIsEarned
<1>1. PICK c \in Commands : c = stored[d].by /\ Directory(c) = d /\ stored[d] = Result(c)
  BY DEF AuthorInv
<1>2. stored[d].cases = results[c] /\ Passed(results[c])
  <2>1. Result(c).cases = results[c] /\ Result(c).passed = Passed(results[c])
    BY DEF Result
  <2> QED BY <1>1, <2>1
<1>3. results[c] # <<>> /\ \A i \in DOMAIN results[c] : results[c][i].hard
  BY <1>2 DEF Passed
<1>4. d[2] = model[c]
  BY <1>1 DEF Directory
<1>5. ASSUME NEW i \in DOMAIN results[c]
      PROVE  \E call : EarnedBy(c, results[c][i].case, call)
  BY <1>3 DEF ScoredInv, ScoredOf, Earned
<1> QED BY <1>1, <1>2, <1>3, <1>4, <1>5 DEF EarnedBy

\* The gate, whatever the models answer and whatever is lost: every case of a
\* passing result has one call, of the model under test, whose artifact is
\* valid and keeps the rules, and a legible line beside the result.
THEOREM GateAlwaysEarned == Spec => []GateIsEarned
<1>1. Init => EvalInv /\ SequencesInv /\ ScoredInv
  <2> SUFFICES ASSUME Init PROVE EvalInv /\ SequencesInv /\ ScoredInv
      OBVIOUS
  <2>1. ReportsStored /\ CodesEarned /\ ComparedStored /\ ComparedAlike
    BY DEF Init, ReportsStored, CodesEarned, ComparedStored, ComparedAlike
  <2> QED BY <2>1, InitTypeInv, InitAuthor, InitAlone, InitScored DEF EvalInv
<1>2. EvalInv /\ SequencesInv /\ ScoredInv /\ [Next]_vars => SequencesInv' /\ ScoredInv'
  BY NextSequences, NextScored DEF EvalInv
<1>3. EvalInv /\ ScoredInv => GateIsEarned
  BY EarnedGate DEF EvalInv
<1> QED BY <1>1, <1>2, <1>3, EvalInvAlways, PTL DEF Spec

=============================================================================
