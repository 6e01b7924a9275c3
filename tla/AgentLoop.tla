----------------------------- MODULE AgentLoop -----------------------------
(***************************************************************************)
(* One agent run: the tool-use loop of run_agent with its Budget, the      *)
(* tools it dispatches (safe_dispatch) and the agent_runs row it finalizes.*)
(* The model's answers, the tools' outcomes and the failures of calls are  *)
(* chosen by the environment.  Costs are counted in an abstract unit.      *)
(***************************************************************************)
EXTENDS Integers, Sequences

CONSTANTS
    max_iterations,
    max_cost,        \* max_cost_usd
    MaxCallCost,     \* the most one model call or tool can cost
    MaxTools,        \* bound: tool_use blocks in one answer
    MaxPauses        \* bound: pause_turn answers in a run

BudgetAssumption ==
    /\ max_iterations \in Nat \ {0}
    /\ max_cost \in Nat \ {0}
    /\ MaxCallCost \in Nat
    /\ MaxTools \in Nat \ {0}
    /\ MaxPauses \in Nat

VARIABLES
    pc,          \* where run_agent is
    messages,    \* the conversation, one element per message
    tools,       \* tool_uses of this turn not yet dispatched
    attempts,    \* attempts of safe_dispatch at the current tool
    iterations,  \* budget.iterations
    cost,        \* budget.cost_usd
    status,      \* the local variable
    row,         \* agent_runs.status
    pauses,      \* pause_turn answers so far (history, bounded)
    calls,       \* model calls answered (history)
    logged,      \* rows of model_calls (history)
    late         \* model calls begun with the cost cap already reached (history)

budget == <<iterations, cost>>
history == <<pauses, calls, logged, late>>
vars == <<pc, messages, tools, attempts, iterations, cost, status, row,
          pauses, calls, logged, late>>

RunStatus == {"running", "completed", "budget_exceeded", "max_iterations", "error"}

\* A message: its author, the number of tool_use blocks (assistant) or of
\* tool_result blocks (user), and the stop reason of the assistant's answer, where
\* "other" is end_turn, max_tokens and whatever else the loop does not name.
Message == [role: {"user", "assistant"}, blocks: 0..MaxTools,
            stop: {"none", "tool_use", "pause_turn", "other"}]
user(n) == [role |-> "user", blocks |-> n, stop |-> "none"]
assistant(n, reason) == [role |-> "assistant", blocks |-> n, stop |-> reason]

Pc == {"iterate", "call", "log", "tools", "tool", "log_tool", "decide",
       "summary", "log_summary", "finalize", "except", "done", "dead"}

TypeOK ==
    /\ pc \in Pc
    /\ messages \in Seq(Message)
    /\ tools \in 0..MaxTools /\ attempts \in 0..2
    /\ iterations \in Nat /\ cost \in Nat
    /\ status \in RunStatus /\ row \in RunStatus
    /\ pauses \in 0..MaxPauses
    /\ calls \in Nat /\ logged \in Nat /\ late \in Nat

\* create_run and the user's message; the row may also be created by the caller.
Init ==
    /\ pc = "iterate"
    /\ messages = <<user(0)>>
    /\ tools = 0 /\ attempts = 0
    /\ iterations = 0 /\ cost = 0
    /\ status = "running" /\ row = "running"
    /\ pauses = 0 /\ calls = 0 /\ logged = 0 /\ late = 0

-----------------------------------------------------------------------------
iterations_exhausted == iterations >= max_iterations
cost_exceeded == cost >= max_cost
exceeded == iterations_exhausted \/ cost_exceeded

Last == messages[Len(messages)]

\* The top of the loop, up to the request to the model.
start_iteration ==
    /\ pc = "iterate"
    /\ iterations' = iterations + 1
    /\ late' = IF cost_exceeded THEN late + 1 ELSE late
    /\ pc' = "call"
    /\ UNCHANGED <<messages, tools, attempts, cost, status, row, pauses, calls, logged>>

\* The model answers: its usage is added to the budget at once.  (The message is
\* appended a step before run_agent does it; nothing reads it in between.)
\* An answer cut off by max_tokens may carry tool_use blocks, the last of them
\* truncated; one that pauses is over a server's tool, and asks for none of ours.
Answers == {assistant(n, "tool_use") : n \in 1..MaxTools}
           \cup {assistant(n, "other") : n \in 0..MaxTools}
           \cup (IF pauses < MaxPauses THEN {assistant(0, "pause_turn")} ELSE {})

answer(next) ==
    /\ \E c \in 0..MaxCallCost : cost' = cost + c
    /\ calls' = calls + 1
    /\ pc' = next
    /\ UNCHANGED <<tools, attempts, iterations, status, row, logged, late>>

call_model ==
    /\ pc = "call"
    /\ answer("log")
    /\ \E m \in Answers :
          /\ messages' = Append(messages, m)
          /\ pauses' = IF m.stop = "pause_turn" THEN pauses + 1 ELSE pauses

\* observer.model_call, then the branch on stop_reason.
log_model_call ==
    /\ pc = "log"
    /\ logged' = logged + 1
    /\ \/ /\ Last.stop = "pause_turn"
          /\ pc' = "iterate"
          /\ UNCHANGED <<tools, status>>
       \/ /\ Last.stop = "other"                \* whatever blocks it carries
          /\ pc' = "finalize" /\ status' = "completed"
          /\ UNCHANGED tools
       \/ /\ Last.stop = "tool_use"
          /\ pc' = "tools" /\ tools' = Last.blocks
          /\ UNCHANGED status
    /\ UNCHANGED <<messages, attempts, iterations, cost, row, pauses, calls, late>>

-----------------------------------------------------------------------------
\* _run_tools: the blocks are dispatched one after the other.
next_tool ==
    /\ pc = "tools"
    /\ IF tools = 0 THEN pc' = "decide" /\ UNCHANGED attempts
       ELSE pc' = "tool" /\ attempts' = 1
    /\ UNCHANGED <<messages, tools, iterations, cost, status, row, history>>

\* safe_dispatch: a timeout or a connection error is retried once; any other
\* outcome, an unknown tool and invalid input included, is the tool's result.
\* A tool that calls models itself adds to the run's budget.
safe_dispatch ==
    /\ pc = "tool"
    /\ \E c \in 0..MaxCallCost : cost' = cost + c
    /\ \/ attempts = 1 /\ attempts' = 2 /\ UNCHANGED pc
       \/ attempts' = 0 /\ pc' = "log_tool"
    /\ UNCHANGED <<messages, tools, iterations, status, row, history>>

log_tool_call ==
    /\ pc = "log_tool"
    /\ tools' = tools - 1
    /\ pc' = "tools"
    /\ UNCHANGED <<messages, attempts, budget, status, row, history>>

\* Mutant of decide: the summary is asked for without the tool results.
decide_unanswered ==
    /\ pc = "decide"
    /\ IF exceeded
       THEN /\ status' = "budget_exceeded" /\ pc' = "summary"
            /\ UNCHANGED messages
       ELSE /\ pc' = "iterate" /\ UNCHANGED status
            /\ messages' = Append(messages, user(Last.blocks))
    /\ UNCHANGED <<tools, attempts, budget, row, history>>

\* After the tools: another iteration, or the summary once a cap is reached.
decide ==
    /\ pc = "decide"
    /\ messages' = Append(messages, user(Last.blocks))
    /\ IF exceeded
       THEN /\ status' = IF cost_exceeded THEN "budget_exceeded" ELSE "max_iterations"
            /\ late' = IF cost_exceeded THEN late + 1 ELSE late
            /\ pc' = "summary"
       ELSE pc' = "iterate" /\ UNCHANGED <<status, late>>
    /\ UNCHANGED <<tools, attempts, budget, row, pauses, calls, logged>>

\* _summary_turn: one more call, with the tools off.
summary_call ==
    /\ pc = "summary"
    /\ answer("log_summary")
    /\ UNCHANGED <<messages, pauses>>

log_summary ==
    /\ pc = "log_summary"
    /\ logged' = logged + 1
    /\ messages' = Append(messages, assistant(0, "other"))
    /\ pc' = "finalize"
    /\ UNCHANGED <<tools, attempts, budget, status, row, pauses, calls, late>>

-----------------------------------------------------------------------------
finalize_run ==
    /\ pc = "finalize"
    /\ row' = status
    /\ pc' = "done"
    /\ UNCHANGED <<messages, tools, attempts, budget, status, history>>

\* An exception anywhere in the try block, the final write included.
raise ==
    /\ pc \in {"call", "log", "log_tool", "summary", "log_summary", "finalize"}
    /\ pc' = "except"
    /\ UNCHANGED <<messages, tools, attempts, budget, status, row, history>>

\* Mutant of finalize_error: the row is not written.
finalize_error_silent ==
    /\ pc = "except"
    /\ pc' = "done"
    /\ UNCHANGED <<messages, tools, attempts, budget, status, row, history>>

finalize_error ==
    /\ pc = "except"
    /\ row' = "error"
    /\ pc' = "done"
    /\ UNCHANGED <<messages, tools, attempts, budget, status, history>>

\* The task is cancelled or the process stops (neither is an Exception), or the
\* write of the error fails as well: the row is left as it is.
die ==
    /\ pc \notin {"done", "dead"}
    /\ pc' = "dead"
    /\ UNCHANGED <<messages, tools, attempts, budget, status, row, history>>

over == pc \in {"done", "dead"} /\ UNCHANGED vars

run_agent ==
    \/ start_iteration \/ call_model \/ log_model_call
    \/ next_tool \/ safe_dispatch \/ log_tool_call \/ decide
    \/ summary_call \/ log_summary \/ finalize_run \/ finalize_error

Next == run_agent \/ raise \/ die \/ over

Spec == Init /\ [][Next]_vars

\* The event loop resumes a task whose await is over; model calls and tools
\* end (client and tool timeouts).
FairSpec == Spec /\ WF_vars(run_agent)

-----------------------------------------------------------------------------
(***************************************************************************)
(* Properties                                                              *)
(***************************************************************************)

\* The conversation the model API accepts, at every request (the loop's and the
\* summary's): an answer that asked for tools is followed by the user message with
\* one result per block, whatever the tools did, and only a pause is sent back
\* without one.  An answer cut off over a tool_use block is therefore never sent.
ToolUsesAnswered ==
    /\ \A i \in 1..(Len(messages) - 1) :
          messages[i].role = "assistant" =>
             \/ messages[i].stop = "tool_use" /\ messages[i + 1] = user(messages[i].blocks)
             \/ messages[i].stop = "pause_turn" /\ messages[i].blocks = 0
    /\ pc \in {"call", "summary"} => Last.role = "user" \/ Last.stop = "pause_turn"

\* A run passes the iteration cap only by one iteration per pause_turn, and once
\* the cost cap is reached the model is called at most once more (the summary),
\* plus once per pause_turn.
CapsHoldUpToPauses == iterations <= max_iterations + pauses /\ late <= 1 + pauses

\* The status a reader of agent_runs sees is the reason the run ended, a run that
\* did not fail has a model_calls row for each of its calls, and its last answer
\* neither asked for a tool nor paused.  (It may have been cut off, and over tool
\* blocks: "completed" does not say that the answer is whole.)
RowIsHonest ==
    /\ row = "budget_exceeded" => cost_exceeded
    /\ row = "max_iterations" => iterations_exhausted
    /\ row \in {"completed", "budget_exceeded", "max_iterations"} =>
          /\ logged = calls
          /\ Last.role = "assistant" /\ Last.stop = "other"

\* A run, however its pauses, failures and caps fall, keeps the API's pairing of
\* tool calls and results, its caps, and the truth of its row.
RunIsSound == ToolUsesAnswered /\ CapsHoldUpToPauses /\ RowIsHonest

\* Every run ends with a final status, unless its task is cut off.
RunEnds == <>(row # "running" \/ pc = "dead")
=============================================================================
