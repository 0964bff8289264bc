---------------------------- MODULE EvaluationRuns ----------------------------
(***************************************************************************)
(* The end-to-end evaluation: commands that put the cases of the data set  *)
(* to the chat service, score what comes back, and leave results, reports  *)
(* and comparisons in files.  From evaluation/runner.py, report.py and     *)
(* cli.py, and JsonlModelTraceSink of observability/model_trace.py.        *)
(*                                                                         *)
(* Each command is a process of its own, with a chat service within it; the*)
(* turns of one command follow one another.  A turn is seen as the runner  *)
(* sees it: the calls it has stored, the lines it has traced, its response.*)
(* The directory of a run and a model is empty just if it has no trace, no *)
(* result and no report.                                                   *)
(***************************************************************************)
EXTENDS Artifacts

CONSTANTS
    Commands,       \* run commands
    RunOf,          \* --run-id of a command
    ModelsFor,      \* what --model of a command may be
    Selections,     \* the numbers of the cases that a command may select
    Dataset,        \* the data set
    Baselines,      \* the data sets and workspaces that a command may be started with
    Fallback,       \* the model that the gateway tries after another one
    Answers,        \* what a model may answer to a case: [text, units, citations]
    MinimumSoft,    \* EVALUATION_MINIMUM_AVERAGE_SOFT_SCORE, in ten-thousandths
    MaxFaults       \* bound: failed calls, lost lines, errors and kills

\* The data set is a valid one for two models; --model is one of them, and
\* --case, if it is given, a case of the data set.
ASSUME EvaluationAssumption ==
    /\ ValidDataset(Dataset)
    /\ DOMAIN ScoredModels = {1, 2}
    /\ \A c \in Commands :
        /\ ModelsFor[c] \subseteq ToSet(ScoredModels)
        /\ Selections[c] \subseteq Seq(DOMAIN Dataset.cases)
        /\ \A s \in Selections[c] : \A i, j \in DOMAIN s : s[i] = s[j] => i = j
    /\ MaxFaults \in Nat

Nothing == [none |-> TRUE]

VARIABLES
    phase,          \* phase[c]: where command c is
    model,          \* its --model
    selected,       \* the numbers of its cases
    at,             \* the case it is at
    base,           \* the baseline it was started with: data set and workspace
    results,        \* the results of its cases so far
    calls,          \* the model calls that its service has stored for each case
    exit,           \* its exit code
    trace,          \* trace.jsonl of each directory: halves of lines
    stored,         \* result.json of each directory
    report,         \* report.md of each directory
    comparison,     \* comparison.md of each run
    faults,         \* what has gone wrong so far
    overlapped      \* directories in which two commands have run at a time

Directory(c) == <<RunOf[c], model[c]>>
Runs == {RunOf[c] : c \in Commands}
Directories == Runs \X ToSet(ScoredModels)

commandVars == <<phase, model, selected, at, base, results, exit>>
fileVars == <<stored, report, comparison>>
vars == <<commandVars, calls, trace, fileVars, faults, overlapped>>

Init ==
    /\ phase = [c \in Commands |-> "idle"]
    /\ model = [c \in Commands |-> ScoredModels[1]]
    /\ selected = [c \in Commands |-> <<>>]
    /\ at = [c \in Commands |-> 1]
    /\ base = [c \in Commands |-> 0]
    /\ results = [c \in Commands |-> <<>>]
    /\ calls = [c \in Commands |-> [i \in DOMAIN Dataset.cases |-> <<>>]]
    /\ exit = [c \in Commands |-> "none"]
    /\ trace = [d \in Directories |-> <<>>]
    /\ stored = [d \in Directories |-> Nothing]
    /\ report = [d \in Directories |-> Nothing]
    /\ comparison = [r \in Runs |-> <<>>]
    /\ faults = 0
    /\ overlapped = {}

Ended == {"done", "aborted", "killed"}
Live(c) == phase[c] \notin {"idle"} \cup Ended

Fault == faults < MaxFaults /\ faults' = faults + 1

Goto(c, p) == phase' = [phase EXCEPT ![c] = p]

End(c, p, code) == Goto(c, p) /\ exit' = [exit EXCEPT ![c] = code]

-----------------------------------------------------------------------------
(* The start of a command.                                                 *)

\* Mutant: the report is looked for only.
HasNoReport(d) == report[d] = Nothing

IsEmpty(d) == trace[d] = <<>> /\ stored[d] = Nothing /\ report[d] = Nothing

\* A used directory, a model without a key, a workspace that is not that of
\* the data set: ValueError, before any case.
Refuse(c) ==
    /\ phase[c] = "idle"
    /\ End(c, "done", "2")
    /\ UNCHANGED <<model, selected, at, base, results, calls, trace, fileVars, faults, overlapped>>

Start(c) ==
    /\ phase[c] = "idle"
    /\ \E s \in Selections[c], m \in ModelsFor[c] :
        /\ IsEmpty(<<RunOf[c], m>>)
        /\ selected' = [selected EXCEPT ![c] = s] /\ model' = [model EXCEPT ![c] = m]
        /\ overlapped' = overlapped \cup
            {Directory(o) : o \in {x \in Commands : Live(x) /\ Directory(x) = <<RunOf[c], m>>}}
    /\ \E b \in Baselines[c] : base' = [base EXCEPT ![c] = b]
    /\ Goto(c, "running")
    /\ UNCHANGED <<at, results, exit, calls, trace, fileVars, faults>>

-----------------------------------------------------------------------------
(* One case.                                                               *)

Case(c) == Dataset.cases[selected[c][at[c]]]

\* Each case has a session of its own.
CallsOf(c, i) == calls[c][i]

CallId(c, call) == <<c, call.case, call.attempt>>

\* A line that can be read: both halves of one line, after the end of another.
IsLine(file, n) ==
    /\ file[n].half = 1 /\ n < Len(file)
    /\ file[n + 1] = [id |-> file[n].id, half |-> 2]
    /\ n = 1 \/ file[n - 1].half = 2

\* _trace_ids: the calls of a session that the lines of the trace tell of.
TraceIds(c, i) ==
    LET file == trace[Directory(c)]
        ids[n \in 0..Len(file)] ==
            IF n = 0 THEN <<>>
            ELSE IF IsLine(file, n) /\ file[n].id[1] = c /\ file[n].id[2] = i
                 THEN Append(ids[n - 1], file[n].id)
                 ELSE ids[n - 1]
    IN  ids[Len(file)]

\* The chat service answers with a message just if the last call gave a valid
\* artifact.
Answered(made) == made # <<>> /\ made[Len(made)].valid

Content(made) == IF Answered(made) THEN Normalized(made[Len(made)].answer.text) ELSE <<>>

Evidence(made) ==
    IF Answered(made) THEN made[Len(made)].answer ELSE [units |-> {}, citations |-> {}]

\* Mutant: an answer of another model counts as well.
HardPassedByAny(c, made) ==
    /\ Answered(made)
    /\ [k \in DOMAIN made |-> CallId(c, made[k])] = TraceIds(c, selected[c][at[c]])
    /\ Broken(ContextRules(Case(c).expected, Evidence(made))) = {}
    /\ Broken(ContentRules(Case(c).expected, Content(made))) = {}

\* The hard rules of score_case.
HardPassed(c, made) ==
    /\ Answered(made)
    /\ Len(made) = 1 /\ made[1].model = model[c]
    /\ [k \in DOMAIN made |-> CallId(c, made[k])] = TraceIds(c, selected[c][at[c]])
    /\ Broken(ContextRules(Case(c).expected, Evidence(made))) = {}
    /\ Broken(ContentRules(Case(c).expected, Content(made))) = {}

\* score_case, and the case is done.
Score(c, made) ==
    /\ results' = [results EXCEPT ![c] = Append(@,
            [case |-> selected[c][at[c]], hard |-> HardPassed(c, made),
             soft |-> SoftScore(Case(c).suggested, Content(made))])]
    /\ at' = [at EXCEPT ![c] = @ + 1]
    /\ Goto(c, "running")

\* A session is created, or the response is an error and the evidence empty.
OpenSession(c) ==
    /\ phase[c] = "running" /\ at[c] <= Len(selected[c])
    /\ \/ Goto(c, "calling") /\ UNCHANGED <<at, results, faults>>
       \/ Score(c, <<>>) /\ Fault
    /\ UNCHANGED <<model, selected, base, exit, calls, trace, fileVars, overlapped>>

Made(c) == CallsOf(c, selected[c][at[c]])

NextModel(c) == IF Made(c) = <<>> THEN model[c] ELSE Fallback[model[c]]

\* A call of a model, stored before it is traced.
CallModel(c) ==
    /\ phase[c] = "calling" /\ Len(Made(c)) < 2
    /\ \E outcome \in {"ok", "retryable", "fatal"} :
       \E answer \in IF outcome = "ok" THEN Answers[selected[c][at[c]]] ELSE {Nothing} :
        /\ IF outcome = "ok" THEN UNCHANGED faults ELSE Fault
        /\ calls' = [calls EXCEPT ![c][selected[c][at[c]]] = Append(@,
            [case |-> selected[c][at[c]], attempt |-> Len(Made(c)) + 1, model |-> NextModel(c),
             outcome |-> outcome, answer |-> answer,
             valid |-> outcome = "ok" /\
                ValidArtifact(Specs[Case(c).prompt], Normalized(answer.text))])]
    /\ Goto(c, "tracing")
    /\ UNCHANGED <<model, selected, at, base, results, exit, trace, fileVars, overlapped>>

\* The contexts of the turn cannot be built: an error response without a call.
TurnFails(c) ==
    /\ phase[c] = "calling" /\ Made(c) = <<>>
    /\ Goto(c, "responded") /\ Fault
    /\ UNCHANGED <<model, selected, at, base, results, exit, calls, trace, fileVars, overlapped>>

Current(c) == Made(c)[Len(Made(c))]

AfterTrace(c) ==
    IF Current(c).outcome = "retryable" /\ Len(Made(c)) < 2 THEN "calling" ELSE "responded"

AppendHalf(c, half) ==
    trace' = [trace EXCEPT ![Directory(c)] = Append(@, [id |-> CallId(c, Current(c)), half |-> half])]

\* _append_line: what is written may reach the file in two parts, and an error
\* before either of them is only logged.
BeginLine(c) ==
    /\ phase[c] = "tracing"
    /\ \/ AppendHalf(c, 1) /\ Goto(c, "appending") /\ UNCHANGED faults
       \/ Goto(c, AfterTrace(c)) /\ UNCHANGED trace /\ Fault
    /\ UNCHANGED <<model, selected, at, base, results, exit, calls, fileVars, overlapped>>

EndLine(c) ==
    /\ phase[c] = "appending"
    /\ \/ AppendHalf(c, 2) /\ UNCHANGED faults
       \/ UNCHANGED trace /\ Fault
    /\ Goto(c, AfterTrace(c))
    /\ UNCHANGED <<model, selected, at, base, results, exit, calls, fileVars, overlapped>>

ScoreCase(c) ==
    /\ phase[c] = "responded"
    /\ Score(c, Made(c))
    /\ UNCHANGED <<model, selected, base, exit, calls, trace, fileVars, faults, overlapped>>

-----------------------------------------------------------------------------
(* The end of a command.                                                   *)

SoftSum(scored) == FoldLeft(LAMBDA n, r : n + r.soft, 0, scored)

\* _run_gate_passed.
Passed(scored) ==
    /\ scored # <<>>
    /\ \A i \in DOMAIN scored : scored[i].hard
    /\ Rounded(SoftSum(scored), Len(scored)) >= MinimumSoft

Result(c) ==
    [by |-> c, baseline |-> base[c], cases |-> results[c], passed |-> Passed(results[c])]

\* write_run_report: each file is replaced at once, the result first.
WriteResult(c) ==
    /\ phase[c] = "running" /\ at[c] > Len(selected[c])
    /\ stored' = [stored EXCEPT ![Directory(c)] = Result(c)]
    /\ Goto(c, "reporting")
    /\ UNCHANGED <<model, selected, at, base, results, exit, calls, trace, report, comparison, faults, overlapped>>

WriteReport(c) ==
    /\ phase[c] = "reporting"
    /\ report' = [report EXCEPT ![Directory(c)] = Result(c)]
    /\ End(c, "done", IF Passed(results[c]) THEN "0" ELSE "1")
    /\ UNCHANGED <<model, selected, at, base, results, calls, trace, stored, comparison, faults, overlapped>>

\* An error that no handler expects: of the database in a turn or after it, of
\* the service, of a file.  It leaves the command.
Unexpected(c) ==
    /\ Live(c) /\ phase[c] \notin {"tracing", "appending"}
    /\ End(c, "aborted", "1") /\ Fault
    /\ UNCHANGED <<model, selected, at, base, results, calls, trace, fileVars, overlapped>>

Kill(c) ==
    /\ Live(c)
    /\ End(c, "killed", "killed") /\ Fault
    /\ UNCHANGED <<model, selected, at, base, results, calls, trace, fileVars, overlapped>>

-----------------------------------------------------------------------------
(* Comparisons.                                                            *)

\* Mutant: what the results were measured against is not looked at.
ComparableByCase(first, second) ==
    [i \in DOMAIN first.cases |-> first.cases[i].case] = [i \in DOMAIN second.cases |-> second.cases[i].case]

\* _validate_comparable.
Comparable(first, second) ==
    /\ first.baseline = second.baseline
    /\ [i \in DOMAIN first.cases |-> first.cases[i].case] = [i \in DOMAIN second.cases |-> second.cases[i].case]

\* write_comparison_report.
Compare(r) ==
    LET pair == [n \in DOMAIN ScoredModels |-> stored[<<r, ScoredModels[n]>>]]
    IN  /\ \A n \in DOMAIN pair : pair[n] # Nothing
        /\ Comparable(pair[1], pair[2])
        /\ comparison' = [comparison EXCEPT ![r] = pair]
        /\ UNCHANGED <<commandVars, calls, trace, stored, report, faults, overlapped>>

-----------------------------------------------------------------------------
Work(c) ==
    \/ OpenSession(c) \/ CallModel(c) \/ TurnFails(c) \/ BeginLine(c) \/ EndLine(c)
    \/ ScoreCase(c) \/ WriteResult(c) \/ WriteReport(c)

Next ==
    \/ \E c \in Commands : Refuse(c) \/ Start(c) \/ Work(c) \/ Unexpected(c) \/ Kill(c)
    \/ \E r \in Runs : Compare(r)

Spec == Init /\ [][Next]_vars

-----------------------------------------------------------------------------
(* Properties.                                                             *)

\* From this place of a file on both halves of a call, and before them nothing
\* but the end of a line.
WholeLine(file, n, id) ==
    /\ n + 1 \in DOMAIN file
    /\ \A half \in {1, 2} : file[n + half - 1].id = id /\ file[n + half - 1].half = half
    /\ \A m \in DOMAIN file : m + 1 = n => file[m].half = 2

\* The trace of a directory has a line of its own for a call.
HasLine(d, id) == \E n \in DOMAIN trace[d] : WholeLine(trace[d], n, id)

\* A stored result that passed was earned: behind every case stands just one
\* call, of the model under test, with a valid artifact that keeps the rules,
\* stored by the service and legible in the trace beside the result.
GateIsEarned ==
    \A d \in Directories : stored[d] # Nothing /\ stored[d].passed =>
        /\ stored[d].cases # <<>>
        /\ \A i \in DOMAIN stored[d].cases :
            LET c == stored[d].by
                k == stored[d].cases[i].case
            IN  \E call \in ToSet(CallsOf(c, k)) :
                    /\ CallsOf(c, k) = <<call>> /\ call.model = d[2] /\ call.valid
                    /\ HasLine(d, CallId(c, call))
                    /\ Broken(ContentRules(Dataset.cases[k].expected, Normalized(call.answer.text))) = {}

\* What has been told of a run agrees with its stored results, unless two
\* commands have run in one directory: the report, the exit code, and the
\* comparison, which is of results of the same cases under one baseline.
ReportsAgree ==
    /\ \A d \in Directories \ overlapped : report[d] # Nothing => report[d] = stored[d]
    /\ \A c \in Commands : Directory(c) \notin overlapped /\ exit[c] = "0" =>
        LET d == Directory(c)
        IN  stored[d] # Nothing /\ stored[d].by = c /\ stored[d].passed /\ report[d] = stored[d]
    /\ \A r \in Runs : comparison[r] # <<>> =>
        /\ \A n \in DOMAIN ScoredModels : LET d == <<r, ScoredModels[n]>>
                                          IN  d \notin overlapped => comparison[r][n] = stored[d]
        /\ \A m, n \in DOMAIN ScoredModels :
            /\ comparison[r][m].baseline = comparison[r][n].baseline
            /\ {x.case : x \in ToSet(comparison[r][m].cases)} = {x.case : x \in ToSet(comparison[r][n].cases)}

\* A stored result is never replaced, unless two commands have run in its
\* directory at a time.
ResultsAreKept ==
    [][\A d \in Directories \ overlapped' : stored[d] # Nothing => stored'[d] = stored[d]]_vars
===============================================================================
