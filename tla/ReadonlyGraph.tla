---- MODULE ReadonlyGraph ----
(***************************************************************************)
(* The read-only graph of coding_rag/agent/graph_runtime.py                *)
(* (build_readonly_graph, run_graph_query): a tool-calling chat model and  *)
(* three read tools.  As in AgentGraph an action is one superstep.         *)
(*                                                                         *)
(* Unlike the ordinary Agent it keeps no pending decision: each node and   *)
(* the router look up the last AIMessage again, and the reason for a       *)
(* fallback is found a second time after the router has refused.  So here  *)
(* a message keeps all that those functions ask of it.                     *)
(***************************************************************************)
EXTENDS Naturals, Sequences

CONSTANTS
    MaxSteps,  \* config.max_steps
    None       \* the Python None

ASSUME MaxStepsAssumption == MaxSteps \in Nat \ {0}

VARIABLES
    node,            \* the node of the next superstep, or "END"
    messages,        \* state["messages"] after the system and user message
    toolSteps,       \* state["tool_steps"]
    llmCalls,        \* state["llm_calls"]
    observations,    \* state["observations"]: did the tool succeed?
    hadToolFailure,  \* state["had_tool_failure"]
    terminalError,   \* state["terminal_error"]: its code
    status,          \* state["status"]
    supersteps       \* nodes executed by graph.invoke

vars == <<node, messages, toolSteps, llmCalls, observations, hadToolFailure,
          terminalError, status, supersteps>>

\* An AIMessage: has it text, unparsable tool calls, how many tool calls
\* (2 for more than one), and of the first: is its tool one of
\* READONLY_TOOL_NAMES, and has it an id?
AIMessages == [from : {"ai"}, text : BOOLEAN, invalidCalls : BOOLEAN,
               toolCalls : 0..2, known : BOOLEAN, id : BOOLEAN]
ToolMessages == [from : {"tool"}, ok : BOOLEAN]

Codes == {"model_failed", "invalid_tool_call", "empty_model_answer", "missing_ai_message",
          "multiple_tool_calls", "invalid_route", "unknown_tool", "missing_tool_call_id",
          "tool_limit"}

\* None is neither a message nor an error.
ASSUME NoneAssumption == None \notin AIMessages \cup Codes

\* The recursion_limit that run_graph_query hands to graph.invoke.
RecursionLimit == IF 10 > 2 * MaxSteps + 5 THEN 10 ELSE 2 * MaxSteps + 5

Init ==
    /\ node = "model"
    /\ messages = <<>>
    /\ toolSteps = 0
    /\ llmCalls = 0
    /\ observations = <<>>
    /\ hadToolFailure = FALSE
    /\ terminalError = None
    /\ status = "running"
    /\ supersteps = 0

\* last_ai_message.  A tool message always follows the message that called it.
LastAI(msgs) ==
    IF msgs = <<>> THEN None
    ELSE IF msgs[Len(msgs)].from = "ai" THEN msgs[Len(msgs)]
    ELSE IF Len(msgs) > 1 THEN msgs[Len(msgs) - 1]
    ELSE None

Superstep(n) ==
    /\ node = n
    /\ supersteps' = supersteps + 1
----
\* validate_ai_message
Validate(message) ==
    IF message.invalidCalls THEN "invalid_tool_call"
    ELSE IF message.toolCalls = 0 /\ ~message.text THEN "empty_model_answer"
    ELSE None

\* Mutant: the number of tool calls is not looked at.
RouteAfterModel_AnyNumber(error, message, steps) ==
    IF error # None \/ message = None THEN "safe_fallback"
    ELSE IF message.toolCalls = 0 THEN "finalize"
    ELSE IF ~message.known \/ ~message.id \/ steps >= MaxSteps THEN "safe_fallback"
    ELSE "tool"

\* Mutant: the step limit is compared with > instead of >=.
RouteAfterModel_OneStepMore(error, message, steps) ==
    IF error # None \/ message = None THEN "safe_fallback"
    ELSE IF message.toolCalls = 0 THEN "finalize"
    ELSE IF message.toolCalls # 1 \/ ~message.known \/ ~message.id \/ steps > MaxSteps
         THEN "safe_fallback"
    ELSE "tool"

\* Mutant: the error of the model node is not looked at.
RouteAfterModel_NoError(error, message, steps) ==
    IF message = None THEN "safe_fallback"
    ELSE IF message.toolCalls = 0 THEN "finalize"
    ELSE IF message.toolCalls # 1 \/ ~message.known \/ ~message.id \/ steps >= MaxSteps
         THEN "safe_fallback"
    ELSE "tool"

\* route_after_model
RouteAfterModel(error, message, steps) ==
    IF error # None \/ message = None THEN "safe_fallback"
    ELSE IF message.toolCalls = 0 THEN "finalize"
    ELSE IF message.toolCalls # 1 \/ ~message.known \/ ~message.id \/ steps >= MaxSteps
         THEN "safe_fallback"
    ELSE "tool"

\* model_node, when the model returns a message.
ModelReturns ==
    /\ Superstep("model")
    /\ llmCalls' = llmCalls + 1
    /\ \E message \in AIMessages :
        /\ messages' = Append(messages, message)
        /\ terminalError' = Validate(message)
        /\ node' = RouteAfterModel(terminalError', message, toolSteps)
    /\ UNCHANGED <<toolSteps, observations, hadToolFailure, status>>

\* model_node, when the model raises: the messages stay as they are.
ModelRaises ==
    /\ Superstep("model")
    /\ llmCalls' = llmCalls + 1
    /\ terminalError' = "model_failed"
    /\ node' = RouteAfterModel(terminalError', LastAI(messages), toolSteps)
    /\ UNCHANGED <<messages, toolSteps, observations, hadToolFailure, status>>

\* tool_node: whether it succeeds or raises, the call is answered.
Tool ==
    /\ Superstep("tool")
    /\ LastAI(messages) # None
    /\ LastAI(messages).toolCalls = 1
    /\ \E ok \in BOOLEAN :
        /\ messages' = Append(messages, [from |-> "tool", ok |-> ok])
        /\ observations' = Append(observations, ok)
        /\ hadToolFailure' = (hadToolFailure \/ ~ok)
    /\ toolSteps' = toolSteps + 1
    /\ node' = "model"
    /\ UNCHANGED <<llmCalls, terminalError, status>>

Finalize ==
    /\ Superstep("finalize")
    /\ status' = IF hadToolFailure THEN "partial" ELSE "success"
    /\ node' = "END"
    /\ UNCHANGED <<messages, toolSteps, llmCalls, observations, hadToolFailure, terminalError>>

\* Mutant: an invalid number of tool calls has no code of its own.
FallbackError_NoMultiple(error, message, steps) ==
    IF error # None THEN error
    ELSE IF message = None THEN "missing_ai_message"
    ELSE IF message.invalidCalls THEN "invalid_tool_call"
    ELSE IF message.toolCalls = 0 THEN "invalid_route"
    ELSE IF ~message.known THEN "unknown_tool"
    ELSE IF ~message.id THEN "missing_tool_call_id"
    ELSE IF steps >= MaxSteps THEN "tool_limit"
    ELSE "invalid_route"

\* fallback_error_for_state
FallbackError(error, message, steps) ==
    IF error # None THEN error
    ELSE IF message = None THEN "missing_ai_message"
    ELSE IF message.invalidCalls THEN "invalid_tool_call"
    ELSE IF message.toolCalls > 1 THEN "multiple_tool_calls"
    ELSE IF message.toolCalls = 0 THEN "invalid_route"
    ELSE IF ~message.known THEN "unknown_tool"
    ELSE IF ~message.id THEN "missing_tool_call_id"
    ELSE IF steps >= MaxSteps THEN "tool_limit"
    ELSE "invalid_route"

\* Mutant: only the observations of the last tool count.
FallbackStatus_Failure(code) ==
    IF code = "tool_limit" \/ hadToolFailure THEN "partial" ELSE "failed"

\* fallback_status
FallbackStatus(code) ==
    IF code = "tool_limit" \/ toolSteps > 0 \/ observations # <<>> \/ hadToolFailure
    THEN "partial" ELSE "failed"

SafeFallback ==
    /\ Superstep("safe_fallback")
    /\ terminalError' = FallbackError(terminalError, LastAI(messages), toolSteps)
    /\ status' = FallbackStatus(terminalError')
    /\ node' = "END"
    /\ UNCHANGED <<messages, toolSteps, llmCalls, observations, hadToolFailure>>

Next == ModelReturns \/ ModelRaises \/ Tool \/ Finalize \/ SafeFallback

Spec == Init /\ [][Next]_vars
FairSpec == Spec /\ WF_vars(Next)
----
TypeOK ==
    /\ node \in {"model", "tool", "finalize", "safe_fallback", "END"}
    /\ messages \in Seq(AIMessages \cup ToolMessages)
    /\ toolSteps \in 0..MaxSteps
    /\ llmCalls \in Nat
    /\ observations \in Seq(BOOLEAN)
    /\ hadToolFailure \in BOOLEAN
    /\ terminalError \in Codes \cup {None}
    /\ status \in {"running", "success", "partial", "failed"}
    /\ supersteps \in Nat

\* GraphRecursionError is never raised, and the model is called at most once
\* more than the tools.
BudgetsSuffice == supersteps <= RecursionLimit /\ llmCalls <= MaxSteps + 1

\* The conversation stays one that a provider accepts: every message that
\* calls a tool, except one that the run ended on, is followed by the result
\* of exactly that one call, and no result stands alone.
CallsAreAnswered ==
    \A i \in DOMAIN messages :
        /\ messages[i].from = "tool" =>
            i > 1 /\ messages[i - 1].from = "ai" /\ messages[i - 1].toolCalls = 1
        /\ messages[i].from = "ai" /\ i < Len(messages) =>
            /\ messages[i + 1].from = "tool"
            /\ messages[i].known /\ messages[i].id /\ ~messages[i].invalidCalls

\* For whatever reason route_after_model refuses, fallback_error_for_state
\* finds a reason of its own: the two never disagree into "invalid_route".
RefusalsAreExplained == terminalError \notin {"invalid_route", "missing_ai_message"}

\* Success means that every tool succeeded and the last message is an answer;
\* a run that ends without an answer is "failed" only if it has no evidence.
StatusIsHonest ==
    node = "END" =>
        /\ status = "success" => \A i \in DOMAIN observations : observations[i]
        /\ status # "running"
        /\ terminalError = None =>
            LastAI(messages).toolCalls = 0 /\ LastAI(messages).text
        /\ terminalError # None =>
            status = (IF observations = <<>> THEN "failed" ELSE "partial")

\* Every run of the graph ends.
RunEnds == <>(node = "END")
====
