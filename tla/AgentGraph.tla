---- MODULE AgentGraph ----
(***************************************************************************)
(* One run of the ordinary Agent: the LangGraph that                       *)
(* coding_rag/agent/graph_runtime.py compiles in build_unified_graph,      *)
(* invoked once by run_unified_query and again by resume_unified_query     *)
(* every time the user approves a pending write.                           *)
(*                                                                         *)
(* An action is one superstep: the whole node function plus the edge that  *)
(* LangGraph takes after it.  A tool call is a model value: what matters   *)
(* is whether it reads or writes and which exact call was approved.        *)
(***************************************************************************)
EXTENDS Naturals, Sequences, FiniteSets

CONSTANTS
    ReadCalls,    \* exact calls of search_code, read_file, trace_call_path, inspect_diff
    WriteCalls,   \* exact calls of apply_patch and run_command (one fingerprint each)
    MaxSteps,     \* config.max_steps
    None,         \* the Python None
    Answer        \* a pending decision whose action is "answer"

Calls == ReadCalls \cup WriteCalls

ASSUME CallsAssumption ==
    /\ ReadCalls \cap WriteCalls = {}
    /\ None \notin Calls \cup {Answer}
    /\ Answer \notin Calls

ASSUME MaxStepsAssumption == MaxSteps \in Nat \ {0}

VARIABLES
    node,            \* the node of the next superstep, or "END"
    status,          \* state["status"]
    pending,         \* state["pending_decision"]
    toolSteps,       \* state["tool_steps"]
    llmCalls,        \* state["llm_calls"]
    repairUsed,      \* state["repair_used"]
    observations,    \* state["observations"]: which call, and did it succeed
    hadToolFailure,  \* state["had_tool_failure"]
    writeExecuted,   \* state["write_executed"]
    approval,        \* state["approval"]: the call the user is asked to approve
    terminalError,   \* state["terminal_error"]: its code
    events,          \* state["trace_events"]: the steps they record
    supersteps,      \* nodes executed by the current graph.invoke
    grant,           \* AgentExecutor._write_approval of the current invoke
    grantUsed,       \* AgentExecutor._write_approval_consumed
    granted,         \* how often the user approved each write call
    applied          \* how often each write call took effect on the repository

graphVars == <<pending, toolSteps, llmCalls, repairUsed, observations,
               hadToolFailure, writeExecuted, events>>
executorVars == <<grant, grantUsed, applied>>
vars == <<node, status, approval, terminalError, supersteps, granted,
          graphVars, executorVars>>

Nodes == {"model", "tool", "request_approval", "finalize", "safe_fallback"}
Statuses == {"running", "success", "partial", "failed", "approval_required"}
Errors == {"model_failed", "invalid_decision", "tool_limit", "approval_request_invalid"}
Steps == {"model_decision", "tool", "approval_required", "approval_rejected",
          "final_answer", "safe_fallback", "tool_limit"}

\* The recursion_limit that run_unified_graph_query hands to graph.invoke.
RecursionLimit ==
    IF 12 > 2 * MaxSteps + 10 THEN 12 ELSE 2 * MaxSteps + 10
----
Init ==
    /\ node = "model"
    /\ status = "running"
    /\ pending = None
    /\ toolSteps = 0
    /\ llmCalls = 0
    /\ repairUsed = FALSE
    /\ observations = <<>>
    /\ hadToolFailure = FALSE
    /\ writeExecuted = FALSE
    /\ approval = None
    /\ terminalError = None
    /\ events = <<>>
    /\ supersteps = 0
    /\ grant = None
    /\ grantUsed = FALSE
    /\ granted = [c \in WriteCalls |-> 0]
    /\ applied = [c \in WriteCalls |-> 0]

Record(step) == events' = Append(events, step)

\* Run node n of the current invoke; GoTo is the edge taken after it.
Superstep(n) ==
    /\ node = n
    /\ supersteps' = supersteps + 1

GoTo(n) == node' = n
----
\* Mutant: the write tools are not singled out.
RouteToolDecision_NoApproval(call) ==
    IF toolSteps >= MaxSteps THEN "safe_fallback" ELSE "tool"

\* Mutant: the step limit is compared with > instead of >=.
RouteToolDecision_OneStepMore(call) ==
    IF toolSteps > MaxSteps THEN "safe_fallback"
    ELSE IF call \in WriteCalls THEN "request_approval"
    ELSE "tool"

\* route_after_model, for a decision that names a tool.
RouteToolDecision(call) ==
    IF toolSteps >= MaxSteps THEN "safe_fallback"
    ELSE IF call \in WriteCalls THEN "request_approval"
    ELSE "tool"

ModelCalled ==
    /\ Superstep("model")
    /\ llmCalls' = llmCalls + 1
    /\ Record("model_decision")
    /\ UNCHANGED <<status, approval, toolSteps, observations, hadToolFailure,
                   writeExecuted, granted, executorVars>>

\* client.complete raises.
ModelRaises ==
    /\ ModelCalled
    /\ terminalError' = "model_failed"
    /\ pending' = None
    /\ GoTo("safe_fallback")
    /\ UNCHANGED repairUsed

\* Mutant: repair_used is never set.
ModelRepairs_Forever ==
    /\ ModelCalled
    /\ ~repairUsed
    /\ pending' = None
    /\ GoTo("model")
    /\ UNCHANGED <<repairUsed, terminalError>>

\* parse_model_decision raises for the first time: ask the model to repair it.
ModelRepairs ==
    /\ ModelCalled
    /\ ~repairUsed
    /\ repairUsed' = TRUE
    /\ pending' = None
    /\ GoTo("model")
    /\ UNCHANGED terminalError

\* parse_model_decision raises again.
ModelInvalid ==
    /\ ModelCalled
    /\ repairUsed
    /\ terminalError' = "invalid_decision"
    /\ pending' = None
    /\ GoTo("safe_fallback")
    /\ UNCHANGED repairUsed

ModelAnswers ==
    /\ ModelCalled
    /\ pending' = Answer
    /\ GoTo("finalize")
    /\ UNCHANGED <<repairUsed, terminalError>>

ModelCallsTool ==
    /\ ModelCalled
    /\ \E call \in Calls :
        /\ pending' = call
        /\ GoTo(RouteToolDecision(call))
    /\ UNCHANGED <<repairUsed, terminalError>>
----
\* Mutant: the failure flag of an earlier tool is overwritten.
ToolReturns_ForgetsFailure(ok) ==
    /\ Superstep("tool")
    /\ toolSteps' = toolSteps + 1
    /\ observations' = Append(observations, [call |-> pending, ok |-> ok])
    /\ hadToolFailure' = ~ok
    /\ pending' = None
    /\ Record("tool")
    /\ GoTo("model")
    /\ UNCHANGED <<status, approval, terminalError, llmCalls, repairUsed,
                   grant, granted>>

\* Mutant: a failing tool leaves no observation.
ToolReturns_DropsFailure(ok) ==
    /\ Superstep("tool")
    /\ toolSteps' = toolSteps + 1
    /\ observations' = IF ok THEN Append(observations, [call |-> pending, ok |-> ok])
                       ELSE observations
    /\ hadToolFailure' = (hadToolFailure \/ ~ok)
    /\ pending' = None
    /\ Record("tool")
    /\ GoTo("model")
    /\ UNCHANGED <<status, approval, terminalError, llmCalls, repairUsed,
                   grant, granted>>

\* What every return of tool_node writes into the state.
ToolReturns(ok) ==
    /\ Superstep("tool")
    /\ toolSteps' = toolSteps + 1
    /\ observations' = Append(observations, [call |-> pending, ok |-> ok])
    /\ hadToolFailure' = (hadToolFailure \/ ~ok)
    /\ pending' = None
    /\ Record("tool")
    /\ GoTo("model")
    /\ UNCHANGED <<status, approval, terminalError, llmCalls, repairUsed,
                   grant, granted>>

ToolReads ==
    /\ pending \in ReadCalls
    /\ \E ok \in BOOLEAN : ToolReturns(ok)
    /\ UNCHANGED <<writeExecuted, grantUsed, applied>>

\* AgentExecutor._consume_write_approval accepts the call.
GrantCovers(call) == ~grantUsed /\ grant = call

TakesEffect(call) == applied' = [applied EXCEPT ![call] = @ + 1]

\* The executor raises before the approval is consumed: the policy or
\* git apply --check refuses, or the approval does not cover the call.
ToolWriteRefused ==
    /\ pending \in WriteCalls
    /\ ToolReturns(FALSE)
    /\ UNCHANGED <<writeExecuted, grantUsed, applied>>

\* The write runs and its result comes back.
ToolWrites ==
    /\ pending \in WriteCalls
    /\ GrantCovers(pending)
    /\ ToolReturns(TRUE)
    /\ grantUsed' = TRUE
    /\ TakesEffect(pending)
    /\ writeExecuted' = TRUE

\* The executor raises after the approval was consumed.  Either nothing was
\* written or it was rolled back, or the change stays (git apply timed out,
\* the rollback failed, or the diff or the compaction of the result raised).
ToolWriteBreaks ==
    /\ pending \in WriteCalls
    /\ GrantCovers(pending)
    /\ ToolReturns(FALSE)
    /\ grantUsed' = TRUE
    /\ \/ UNCHANGED applied
       \/ TakesEffect(pending)
    /\ UNCHANGED writeExecuted
----
\* finalize_node: the status of an answered run.
Finalize ==
    /\ Superstep("finalize")
    /\ status' = IF hadToolFailure THEN "partial" ELSE "success"
    /\ Record("final_answer")
    /\ GoTo("END")
    /\ UNCHANGED <<approval, terminalError, pending, toolSteps, llmCalls, repairUsed,
                   observations, hadToolFailure, writeExecuted, granted, executorVars>>

\* safe_fallback_node: no terminal error means the tool limit was reached.
SafeFallback ==
    /\ Superstep("safe_fallback")
    /\ terminalError' = IF terminalError = None THEN "tool_limit" ELSE terminalError
    /\ status' = IF terminalError' = "tool_limit" \/ observations # <<>>
                 THEN "partial" ELSE "failed"
    /\ Record(IF terminalError' = "tool_limit" THEN "tool_limit" ELSE "safe_fallback")
    /\ GoTo("END")
    /\ UNCHANGED <<approval, pending, toolSteps, llmCalls, repairUsed, observations,
                   hadToolFailure, writeExecuted, granted, executorVars>>

\* Mutant: the pending decision is cleared, as the tool node clears it.
RequestApproval_ClearsPending ==
    /\ Superstep("request_approval")
    /\ status' = "approval_required"
    /\ approval' = pending
    /\ pending' = None
    /\ Record("approval_required")
    /\ GoTo("END")
    /\ UNCHANGED <<terminalError, toolSteps, llmCalls, repairUsed, observations,
                   hadToolFailure, writeExecuted, granted, executorVars>>

\* request_approval_node when preview_write accepts the call.
RequestApproval ==
    /\ Superstep("request_approval")
    /\ status' = "approval_required"
    /\ approval' = pending
    /\ Record("approval_required")
    /\ GoTo("END")
    /\ UNCHANGED <<terminalError, pending, toolSteps, llmCalls, repairUsed, observations,
                   hadToolFailure, writeExecuted, granted, executorVars>>

\* request_approval_node when preview_write raises.
RejectApproval ==
    /\ Superstep("request_approval")
    /\ status' = "failed"
    /\ terminalError' = "approval_request_invalid"
    /\ Record("approval_rejected")
    /\ GoTo("END")
    /\ UNCHANGED <<approval, pending, toolSteps, llmCalls, repairUsed, observations,
                   hadToolFailure, writeExecuted, granted, executorVars>>

\* Mutant: the old approval envelope survives the resume.
Resume_KeepsApproval ==
    /\ node = "END"
    /\ status = "approval_required"
    /\ status' = "running"
    /\ terminalError' = None
    /\ supersteps' = 0
    /\ grant' = approval
    /\ grantUsed' = FALSE
    /\ granted' = [granted EXCEPT ![approval] = @ + 1]
    /\ GoTo("tool")
    /\ UNCHANGED <<approval, graphVars, applied>>

\* Mutant: every approval starts the repair allowance afresh.
Resume_FreshRepair ==
    /\ node = "END"
    /\ status = "approval_required"
    /\ status' = "running"
    /\ approval' = None
    /\ terminalError' = None
    /\ supersteps' = 0
    /\ grant' = approval
    /\ grantUsed' = FALSE
    /\ granted' = [granted EXCEPT ![approval] = @ + 1]
    /\ repairUsed' = FALSE
    /\ GoTo("tool")
    /\ UNCHANGED <<pending, toolSteps, llmCalls, observations, hadToolFailure,
                   writeExecuted, events, applied>>

\* resume_unified_query: the user approves the pending write; a new executor
\* holds its fingerprint and a new invoke of the saved state starts at tool.
Resume ==
    /\ node = "END"
    /\ status = "approval_required"
    /\ status' = "running"
    /\ approval' = None
    /\ terminalError' = None
    /\ supersteps' = 0
    /\ grant' = approval
    /\ grantUsed' = FALSE
    /\ granted' = [granted EXCEPT ![approval] = @ + 1]
    /\ GoTo("tool")
    /\ UNCHANGED <<graphVars, applied>>
----
Model == ModelRaises \/ ModelRepairs \/ ModelInvalid \/ ModelAnswers \/ ModelCallsTool
Tool == ToolReads \/ ToolWriteRefused \/ ToolWrites \/ ToolWriteBreaks
Ending == Finalize \/ SafeFallback \/ RequestApproval \/ RejectApproval

\* graph.invoke is a loop that runs nodes until END; the user is not obliged
\* to approve anything.
Invoke == Model \/ Tool \/ Ending
Next == Invoke \/ Resume

Spec == Init /\ [][Next]_vars
FairSpec == Spec /\ WF_vars(Invoke)
----
TypeOK ==
    /\ node \in Nodes \cup {"END"}
    /\ status \in Statuses
    /\ pending \in Calls \cup {Answer, None}
    /\ toolSteps \in 0..MaxSteps
    /\ llmCalls \in Nat
    /\ repairUsed \in BOOLEAN
    /\ observations \in Seq([call : Calls, ok : BOOLEAN])
    /\ hadToolFailure \in BOOLEAN
    /\ writeExecuted \in BOOLEAN
    /\ approval \in WriteCalls \cup {None}
    /\ terminalError \in Errors \cup {None}
    /\ events \in Seq(Steps)
    /\ supersteps \in Nat
    /\ grant \in WriteCalls \cup {None}
    /\ grantUsed \in BOOLEAN
    /\ granted \in [WriteCalls -> Nat]
    /\ applied \in [WriteCalls -> Nat]

\* A write tool reaches the tool node only in an invoke whose executor holds
\* an unused approval of exactly that call: the routing of the graph, the
\* resume and the executor's own fingerprint check agree.
WriteAtToolIsCovered ==
    node = "tool" /\ pending \in WriteCalls => GrantCovers(pending)

\* graph.invoke never runs into GraphRecursionError: whatever the model
\* returns, the repair and the step limit end the loop within the limit.
RecursionBudget == supersteps <= RecursionLimit

\* A run makes at most max_steps + 2 model calls over all its invokes, however
\* often it is approved and resumed: one per tool, one repair, one to end it.
LlmCallBudget == llmCalls <= MaxSteps + 2

\* Success is reported only when no tool of any invoke failed and each write
\* took effect exactly as often as the user approved it; "failed" is never
\* reported over gathered evidence, save when an approval request is invalid.
TerminalStatusIsHonest ==
    /\ node = "END" /\ status = "success" =>
        /\ terminalError = None
        /\ \A i \in DOMAIN observations : observations[i].ok
        /\ applied = granted
    /\ node = "END" /\ status = "failed" /\ terminalError # "approval_request_invalid" =>
        observations = <<>>

\* Every change of the repository is answered for by an observation of that
\* call, also when the tool reported a failure after the change.
AppliedIsRecorded ==
    \A c \in WriteCalls :
        applied[c] <= Cardinality({i \in DOMAIN observations : observations[i].call = c})

\* An approval envelope is offered exactly while the saved state can execute
\* it: the run has ended waiting, the pending decision is that very call, and
\* the tool it resumes at is within the step limit.
PendingApprovalIsExact ==
    /\ approval # None =>
        /\ node = "END"
        /\ status = "approval_required"
        /\ approval = pending
        /\ toolSteps < MaxSteps
    /\ status = "approval_required" => approval # None

\* No step, in particular no resume, gives back a budget, forgets a failure
\* or an executed write, or rewrites a recorded event.
BudgetsSurviveApproval ==
    [][/\ toolSteps' >= toolSteps
       /\ llmCalls' >= llmCalls
       /\ repairUsed => repairUsed'
       /\ hadToolFailure => hadToolFailure'
       /\ writeExecuted => writeExecuted'
       /\ Len(events') >= Len(events)
       /\ SubSeq(events', 1, Len(events)) = events]_vars

\* Every invoke ends, the first one and each resumed one.
EveryInvokeEnds == node # "END" ~> node = "END"

\* What the browser prints as write_executed= after an invoke is
\* execution.enabled, that is, whether an approval was supplied.
PageSaysWriteExecuted == node = "END" /\ grant # None

\* The page's write_executed=yes tells of a write that was executed.
PageClaimIsTrue == PageSaysWriteExecuted => writeExecuted
====
