------------------------------ MODULE AskLoop ------------------------------
(***************************************************************************)
(* One question to the console's assistant (src/console/ai.js, ask): the   *)
(* model is called round after round, each answer's tool calls are run in  *)
(* turn, and the last result and the chart drawn of it are shown.  The     *)
(* saved functions are those there were when the question was asked.       *)
(***************************************************************************)
EXTENDS Integers, Sequences

CONSTANTS ColumnSets,  \* the columns a query can return: sets of columns
          MaxSteps,    \* AI_MAX_STEPS
          MaxCalls     \* bound: tool calls in one answer of the model

\* The result of a query has a column.
ASSUME AskAssumption == MaxSteps \in Nat /\ MaxCalls \in Nat /\ {} \notin ColumnSets

VARIABLES round,     \* answers of the model so far
          turn,      \* "model", "tools", or "answered", "failed", "cancelled"
          calls,     \* tool calls of the last answer still to run
          functions, \* the saved functions read at the start, by their columns
          result,    \* columns of the last successful query, or {}
          chart,     \* columns the chart needs, or {}
          steps,     \* tool calls reported to the user
          left       \* the client has gone: the signal is aborted

askVars == <<round, turn, calls, functions, result, chart, steps, left>>

Tools == {"run_sql", "run_function", "chart", "describe_table", "unknown"}

AskTypeOK ==
    /\ round \in 0 .. MaxSteps + 1
    /\ turn \in {"model", "tools", "answered", "failed", "cancelled"}
    /\ calls \in Seq(Tools) /\ functions \subseteq ColumnSets
    /\ result \in ColumnSets \cup {{}} /\ chart \in SUBSET UNION ColumnSets
    /\ steps \in 0 .. MaxSteps * MaxCalls /\ left \in BOOLEAN

AskInit ==
    /\ round = 0 /\ turn = "model" /\ calls = << >>
    /\ functions \in SUBSET ColumnSets
    /\ result = {} /\ chart = {} /\ steps = 0 /\ left = FALSE

lastRound == round >= MaxSteps

\* run_function is offered only when a saved function is callable
Offered == Tools \ (IF functions = {} THEN {"run_function"} ELSE {})

-----------------------------------------------------------------------------
\* Mutant: the chart is shown as it was drawn.
KeptAll(c, columns) == c

\* a chart of an earlier query stands only if its columns survived
Kept(c, columns) == IF c \subseteq columns THEN c ELSE {}

\* no tool calls, or none is left: what the model says is the answer
ModelAnswers ==
    /\ turn = "model"
    /\ round' = round + 1
    /\ turn' = "answered"
    /\ chart' = IF result = {} THEN chart ELSE Kept(chart, result)
    /\ UNCHANGED <<calls, functions, result, steps, left>>

ModelCalls ==
    /\ turn = "model"
    /\ ~lastRound
    /\ round' = round + 1
    /\ \E n \in 1 .. MaxCalls : \E cs \in [1 .. n -> Tools] : calls' = cs
    /\ turn' = "tools"
    /\ UNCHANGED <<functions, result, chart, steps, left>>

\* an error of the API, a time-out, an answer without a message
ModelFails ==
    /\ turn = "model"
    /\ turn' = IF left THEN "cancelled" ELSE "failed"
    /\ UNCHANGED <<round, calls, functions, result, chart, steps, left>>

\* the step is reported and its tool message sent, also when the tool failed
Reported ==
    /\ steps' = steps + 1
    /\ calls' = Tail(calls)
    /\ turn' = IF Len(calls) = 1 THEN "model" ELSE "tools"
    /\ UNCHANGED <<round, functions, left>>

Calling(tools) == turn = "tools" /\ Head(calls) \in tools \cap Offered

RunSql ==
    /\ Calling({"run_sql"})
    /\ \E columns \in ColumnSets : result' = columns
    /\ UNCHANGED chart /\ Reported

\* the text read at the start is run, whatever the function is by now
RunFunction ==
    /\ Calling({"run_function"})
    /\ \E columns \in functions : result' = columns
    /\ UNCHANGED chart /\ Reported

DrawChart ==
    /\ Calling({"chart"})
    /\ result # {}
    /\ \E columns \in (SUBSET result) \ {{}} : chart' = columns
    /\ UNCHANGED result /\ Reported

DescribeTable == Calling({"describe_table"}) /\ UNCHANGED <<result, chart>> /\ Reported

\* a refused or failing call tells the model why
ToolFails == turn = "tools" /\ ~left /\ UNCHANGED <<result, chart>> /\ Reported

\* but a call that fails once the client has gone ends the question
ToolCancelled ==
    /\ turn = "tools" /\ left
    /\ turn' = "cancelled"
    /\ UNCHANGED <<round, calls, functions, result, chart, steps, left>>

ClientGoes ==
    /\ ~left /\ turn \in {"model", "tools"}
    /\ left' = TRUE
    /\ UNCHANGED <<round, turn, calls, functions, result, chart, steps>>

AskNext ==
    \/ ModelAnswers \/ ModelCalls \/ ModelFails \/ RunSql \/ RunFunction \/ DrawChart
    \/ DescribeTable \/ ToolFails \/ ToolCancelled \/ ClientGoes

AskSpec == AskInit /\ [][AskNext]_askVars

-----------------------------------------------------------------------------
(* What is shown fits together: the chart of an answer names only columns  *)
(* of the result it is shown with, though later queries and functions      *)
(* replaced the one it was drawn of, and without a result there is none    *)
(* (ai.js:960).                                                            *)
AnswerHolds ==
    turn = "answered" => chart \subseteq result /\ (result = {} => chart = {})
=============================================================================
