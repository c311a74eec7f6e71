---- MODULE ReadonlyGraph_proofs ----
(***************************************************************************)
(* The safety properties of ReadonlyGraph for every MaxSteps.  RInv says   *)
(* what each node may rely on about the last message, the error and the    *)
(* counters; the theorems are read off it.                                 *)
(***************************************************************************)
EXTENDS ReadonlyGraph, TLAPS

Newest == messages[Len(messages)]
NewestIsAI == messages # <<>> /\ Newest \in AIMessages

\* Each tool is paid for by a model call, and each superstep by one of both.
Spent ==
    /\ llmCalls = toolSteps + (IF node = "model" THEN 0 ELSE 1)
    /\ supersteps = llmCalls + toolSteps + (IF node = "END" THEN 1 ELSE 0)

\* A message that fallback_error_for_state finds a fault with.
Faulty(message) ==
    /\ ~message.invalidCalls
    /\ \/ message.toolCalls > 1
       \/ message.toolCalls = 1 /\ (~message.known \/ ~message.id \/ toolSteps >= MaxSteps)

IsCall(message) ==
    message.toolCalls = 1 /\ message.known /\ message.id /\ ~message.invalidCalls

\* What the node that comes next may rely on.
Routed ==
    /\ node = "model" => terminalError = None
    /\ node = "model" /\ messages # <<>> => Newest.from = "tool"
    /\ node = "tool" => /\ terminalError = None /\ toolSteps < MaxSteps
                        /\ NewestIsAI /\ IsCall(Newest)
    /\ node = "finalize" => /\ terminalError = None
                            /\ NewestIsAI /\ Newest.toolCalls = 0 /\ Newest.text
    /\ node = "safe_fallback" => terminalError # "tool_limit"
    /\ node = "safe_fallback" /\ terminalError = None => NewestIsAI /\ Faulty(Newest)
    /\ node = "END" /\ terminalError = None =>
        NewestIsAI /\ Newest.toolCalls = 0 /\ Newest.text

\* The tools that ran are the observations, and a failure is remembered.
Evidence ==
    /\ toolSteps > 0 <=> observations # <<>>
    /\ ~hadToolFailure => \A i \in DOMAIN observations : observations[i]
    /\ hadToolFailure => observations # <<>>

\* The status of a run that has ended.
Ended ==
    node = "END" =>
        /\ terminalError = None => status = IF hadToolFailure THEN "partial" ELSE "success"
        /\ terminalError # None =>
            status = (IF observations = <<>> THEN "failed" ELSE "partial")

RInv == TypeOK /\ Spent /\ Routed /\ Evidence /\ Ended /\ RefusalsAreExplained
           /\ CallsAreAnswered

\* The last message, when the model has sent it, is the last message of the model.
LEMMA LastAIIsNewest ==
    ASSUME TypeOK, NewestIsAI
    PROVE  LastAI(messages) = Newest
BY DEF TypeOK, NewestIsAI, Newest, LastAI, AIMessages, ToolMessages

\* Appending a message keeps the ones before it and puts it last.
LEMMA Appended ==
    ASSUME NEW S, NEW s \in Seq(S), NEW m \in S
    PROVE  /\ Append(s, m) \in Seq(S)
           /\ Append(s, m) # <<>>
           /\ Len(Append(s, m)) = Len(s) + 1
           /\ Append(s, m)[Len(s) + 1] = m
           /\ \A i \in 1..Len(s) : Append(s, m)[i] = s[i]
           /\ DOMAIN Append(s, m) = 1..(Len(s) + 1)
           /\ DOMAIN s = 1..Len(s)
           /\ Len(s) \in Nat
OBVIOUS

\* The initial state satisfies the invariant.
LEMMA InitRInv == Init => RInv
<1> SUFFICES ASSUME Init PROVE RInv
  OBVIOUS
<1> USE DEF Init
<1>1. TypeOK
  <2>1. messages \in Seq(AIMessages \cup ToolMessages)
    OBVIOUS
  <2>2. observations \in Seq(BOOLEAN)
    OBVIOUS
  <2>4. hadToolFailure \in BOOLEAN
    OBVIOUS
  <2>3. toolSteps \in 0..MaxSteps /\ llmCalls \in Nat /\ supersteps \in Nat
    BY MaxStepsAssumption
  <2> QED
    BY <2>1, <2>2, <2>3, <2>4 DEF TypeOK
<1>2. Spent /\ Evidence /\ Ended
  BY DEF Spent, Evidence, Ended
<1>3. Routed
  BY DEF Routed
<1>5. CallsAreAnswered
  <2>1. DOMAIN messages = {}
    BY DEF Init
  <2> QED
    BY <2>1 DEF CallsAreAnswered
<1>4. RefusalsAreExplained
  BY NoneAssumption DEF RefusalsAreExplained, Codes
<1> QED
  BY <1>1, <1>2, <1>3, <1>4, <1>5 DEF RInv

\* What validate_ai_message and the router make of a message.
LEMMA RouteOfMessage ==
    ASSUME NEW message \in AIMessages, NEW steps \in 0..MaxSteps
    PROVE  LET error == Validate(message)
               next == RouteAfterModel(error, message, steps)
           IN  /\ error \in {"invalid_tool_call", "empty_model_answer", None}
               /\ next \in {"tool", "finalize", "safe_fallback"}
               /\ next = "tool" => error = None /\ steps < MaxSteps /\ IsCall(message)
               /\ next = "finalize" => error = None /\ message.toolCalls = 0 /\ message.text
               /\ next = "safe_fallback" /\ error = None =>
                    /\ ~message.invalidCalls
                    /\ \/ message.toolCalls > 1
                       \/ /\ message.toolCalls = 1
                          /\ ~message.known \/ ~message.id \/ steps >= MaxSteps
<1>1. message # None
  BY NoneAssumption
<1> QED
  BY <1>1, MaxStepsAssumption, NoneAssumption
  DEF Validate, RouteAfterModel, AIMessages, IsCall, Codes

\* A message of the model is added: the conversation stays one that a provider
\* accepts.
LEMMA AIAppended ==
    ASSUME TypeOK, CallsAreAnswered, Routed, node = "model",
           NEW message \in AIMessages, messages' = Append(messages, message)
    PROVE  /\ messages' \in Seq(AIMessages \cup ToolMessages)
           /\ NewestIsAI'
           /\ Newest' = message
           /\ CallsAreAnswered'
<1> DEFINE M == AIMessages \cup ToolMessages
<1>1. messages \in Seq(M) /\ message \in M
  BY DEF TypeOK
<1>2. /\ messages' \in Seq(M) /\ messages' # <<>> /\ Len(messages') = Len(messages) + 1
      /\ messages'[Len(messages) + 1] = message
      /\ \A i \in 1..Len(messages) : messages'[i] = messages[i]
      /\ DOMAIN messages' = 1..(Len(messages) + 1)
      /\ DOMAIN messages = 1..Len(messages)
      /\ Len(messages) \in Nat
  <2> HIDE DEF M
  <2> QED
    BY <1>1, Appended
<1>3. Newest' = message /\ NewestIsAI'
  BY <1>2 DEF Newest, NewestIsAI
<1>4. message.from = "ai"
  BY DEF AIMessages
<1>5. ASSUME messages # <<>> PROVE messages[Len(messages)].from = "tool"
  BY <1>5 DEF Routed, Newest
<1>6. CallsAreAnswered'
  <2> SUFFICES ASSUME NEW i \in 1..(Len(messages) + 1)
               PROVE  /\ messages'[i].from = "tool" =>
                           /\ i > 1 /\ messages'[i - 1].from = "ai"
                           /\ messages'[i - 1].toolCalls = 1
                      /\ messages'[i].from = "ai" /\ i < Len(messages') =>
                           /\ messages'[i + 1].from = "tool"
                           /\ messages'[i].known /\ messages'[i].id
                           /\ ~messages'[i].invalidCalls
    BY <1>2 DEF CallsAreAnswered
  <2>1. CASE i = Len(messages) + 1
    BY <2>1, <1>2, <1>4
  <2>2. CASE i = Len(messages)
    <3>1. messages # <<>> /\ messages[i].from = "tool"
      BY <2>2, <1>2, <1>5
    <3>2. i > 1 => i - 1 \in 1..Len(messages)
      BY <2>2, <1>2
    <3> QED
      BY <2>2, <3>1, <3>2, <1>2 DEF CallsAreAnswered
  <2>3. CASE i < Len(messages)
    <3>1. i + 1 \in 1..Len(messages) /\ (i > 1 => i - 1 \in 1..Len(messages))
      BY <2>3, <1>2
    <3> QED
      BY <2>3, <3>1, <1>2 DEF CallsAreAnswered
  <2>4. i = Len(messages) + 1 \/ i = Len(messages) \/ i < Len(messages)
    <3>1. Len(messages) \in Nat
      BY <1>2
    <3> QED
      BY <3>1
  <2> QED
    BY <2>1, <2>2, <2>3, <2>4
<1> QED
  BY <1>2, <1>3, <1>6

\* The result of the tool is added after the message that called it.
LEMMA ToolAppended ==
    ASSUME TypeOK, CallsAreAnswered, NewestIsAI, IsCall(Newest),
           NEW message \in ToolMessages, messages' = Append(messages, message)
    PROVE  /\ messages' \in Seq(AIMessages \cup ToolMessages)
           /\ Newest'.from = "tool"
           /\ CallsAreAnswered'
<1> DEFINE M == AIMessages \cup ToolMessages
<1>1. messages \in Seq(M) /\ message \in M
  BY DEF TypeOK
<1>2. /\ messages' \in Seq(M) /\ messages' # <<>> /\ Len(messages') = Len(messages) + 1
      /\ messages'[Len(messages) + 1] = message
      /\ \A i \in 1..Len(messages) : messages'[i] = messages[i]
      /\ DOMAIN messages' = 1..(Len(messages) + 1)
      /\ DOMAIN messages = 1..Len(messages)
      /\ Len(messages) \in Nat
  <2> HIDE DEF M
  <2> QED
    BY <1>1, Appended
<1>3. message.from = "tool" /\ Newest' = message
  BY <1>2 DEF Newest, ToolMessages
<1>4. /\ Len(messages) \in 1..Len(messages)
      /\ messages[Len(messages)].from = "ai" /\ IsCall(messages[Len(messages)])
  BY <1>1, <1>2 DEF NewestIsAI, Newest, AIMessages
<1>6. CallsAreAnswered'
  <2> SUFFICES ASSUME NEW i \in 1..(Len(messages) + 1)
               PROVE  /\ messages'[i].from = "tool" =>
                           /\ i > 1 /\ messages'[i - 1].from = "ai"
                           /\ messages'[i - 1].toolCalls = 1
                      /\ messages'[i].from = "ai" /\ i < Len(messages') =>
                           /\ messages'[i + 1].from = "tool"
                           /\ messages'[i].known /\ messages'[i].id
                           /\ ~messages'[i].invalidCalls
    BY <1>2 DEF CallsAreAnswered
  <2>1. CASE i = Len(messages) + 1
    BY <2>1, <1>2, <1>3, <1>4 DEF IsCall
  <2>2. CASE i = Len(messages)
    BY <2>2, <1>2, <1>3, <1>4 DEF IsCall
  <2>3. CASE i < Len(messages)
    <3>1. i + 1 \in 1..Len(messages) /\ (i > 1 => i - 1 \in 1..Len(messages))
      BY <2>3, <1>2
    <3> QED
      BY <2>3, <3>1, <1>2 DEF CallsAreAnswered
  <2>4. i = Len(messages) + 1 \/ i = Len(messages) \/ i < Len(messages)
    <3>1. Len(messages) \in Nat
      BY <1>2
    <3> QED
      BY <3>1
  <2> QED
    BY <2>1, <2>2, <2>3, <2>4
<1> QED
  BY <1>2, <1>3, <1>6

\* model_node keeps the invariant when the model returns a message.
LEMMA ModelReturnsStep == RInv /\ ModelReturns => RInv'
<1> SUFFICES ASSUME RInv, ModelReturns PROVE RInv'
  OBVIOUS
<1>1. PICK message \in AIMessages :
        /\ messages' = Append(messages, message)
        /\ terminalError' = Validate(message)
        /\ node' = RouteAfterModel(terminalError', message, toolSteps)
  BY DEF ModelReturns
<1>2. /\ node = "model" /\ llmCalls' = llmCalls + 1 /\ supersteps' = supersteps + 1
      /\ toolSteps' = toolSteps /\ observations' = observations
      /\ hadToolFailure' = hadToolFailure /\ status' = status
  BY DEF ModelReturns, Superstep
<1>3. TypeOK /\ Routed /\ CallsAreAnswered /\ Spent /\ Evidence
  BY DEF RInv
<1>4. /\ messages' \in Seq(AIMessages \cup ToolMessages)
      /\ NewestIsAI' /\ Newest' = message /\ CallsAreAnswered'
  BY <1>1, <1>2, <1>3, AIAppended
<1>5. toolSteps \in 0..MaxSteps
  BY <1>3 DEF TypeOK
<1>6. /\ terminalError' \in {"invalid_tool_call", "empty_model_answer", None}
      /\ node' \in {"tool", "finalize", "safe_fallback"}
      /\ node' = "tool" => terminalError' = None /\ toolSteps < MaxSteps /\ IsCall(message)
      /\ node' = "finalize" => terminalError' = None /\ message.toolCalls = 0 /\ message.text
      /\ node' = "safe_fallback" /\ terminalError' = None =>
            /\ ~message.invalidCalls
            /\ \/ message.toolCalls > 1
               \/ /\ message.toolCalls = 1
                  /\ ~message.known \/ ~message.id \/ toolSteps >= MaxSteps
  BY <1>1, <1>5, RouteOfMessage
<1>7. TypeOK'
  BY <1>2, <1>3, <1>4, <1>6 DEF TypeOK, Codes
<1>8. Spent'
  BY <1>2, <1>3, <1>6 DEF Spent, TypeOK
<1>9. Routed'
  <2>1. terminalError' # "tool_limit"
    BY <1>6, NoneAssumption DEF Codes
  <2> QED
    BY <1>2, <1>4, <1>6, <2>1 DEF Routed, Faulty, IsCall
<1>10. Evidence' /\ Ended'
  BY <1>2, <1>3, <1>6 DEF Evidence, Ended
<1>11. RefusalsAreExplained'
  BY <1>6, NoneAssumption DEF RefusalsAreExplained, Codes
<1> QED
  BY <1>4, <1>7, <1>8, <1>9, <1>10, <1>11 DEF RInv

\* model_node keeps the invariant when the model raises.
LEMMA ModelRaisesStep == RInv /\ ModelRaises => RInv'
<1> SUFFICES ASSUME RInv, ModelRaises PROVE RInv'
  OBVIOUS
<1>1. /\ node = "model" /\ llmCalls' = llmCalls + 1 /\ supersteps' = supersteps + 1
      /\ terminalError' = "model_failed" /\ messages' = messages
      /\ toolSteps' = toolSteps /\ observations' = observations
      /\ hadToolFailure' = hadToolFailure /\ status' = status
  BY DEF ModelRaises, Superstep
<1>2. "model_failed" # None
  BY NoneAssumption DEF Codes
<1>3. node' = "safe_fallback"
  BY <1>1, <1>2 DEF ModelRaises, RouteAfterModel
<1>4. TypeOK'
  BY <1>1, <1>3 DEF RInv, TypeOK, Codes
<1>5. Spent'
  BY <1>1, <1>3 DEF RInv, Spent, TypeOK
<1>6. Routed'
  BY <1>1, <1>2, <1>3 DEF Routed
<1>7. Evidence' /\ Ended'
  BY <1>1, <1>3 DEF RInv, Evidence, Ended
<1>8. RefusalsAreExplained' /\ CallsAreAnswered'
  BY <1>1 DEF RInv, RefusalsAreExplained, CallsAreAnswered
<1> QED
  BY <1>4, <1>5, <1>6, <1>7, <1>8 DEF RInv

\* tool_node keeps the invariant, whether the tool succeeds or fails.
LEMMA ToolStep == RInv /\ Tool => RInv'
<1> SUFFICES ASSUME RInv, Tool PROVE RInv'
  OBVIOUS
<1>1. PICK ok \in BOOLEAN :
        /\ messages' = Append(messages, [from |-> "tool", ok |-> ok])
        /\ observations' = Append(observations, ok)
        /\ hadToolFailure' = (hadToolFailure \/ ~ok)
  BY DEF Tool
<1>2. /\ node = "tool" /\ node' = "model" /\ supersteps' = supersteps + 1
      /\ toolSteps' = toolSteps + 1 /\ llmCalls' = llmCalls
      /\ terminalError' = terminalError /\ status' = status
  BY DEF Tool, Superstep
<1>3. TypeOK /\ Routed /\ CallsAreAnswered /\ Spent /\ Evidence /\ RefusalsAreExplained
  BY DEF RInv
<1>4. terminalError = None /\ toolSteps < MaxSteps /\ NewestIsAI /\ IsCall(Newest)
  BY <1>2, <1>3 DEF Routed
<1>5. [from |-> "tool", ok |-> ok] \in ToolMessages
  BY DEF ToolMessages
<1>6. /\ messages' \in Seq(AIMessages \cup ToolMessages)
      /\ Newest'.from = "tool" /\ CallsAreAnswered'
  BY <1>1, <1>3, <1>4, <1>5, ToolAppended
<1>7. observations \in Seq(BOOLEAN)
  BY <1>3 DEF TypeOK
<1>8. /\ observations' \in Seq(BOOLEAN) /\ observations' # <<>>
      /\ observations'[Len(observations) + 1] = ok
      /\ \A i \in 1..Len(observations) : observations'[i] = observations[i]
      /\ DOMAIN observations' = 1..(Len(observations) + 1)
      /\ DOMAIN observations = 1..Len(observations)
      /\ Len(observations) \in Nat
  BY <1>1, <1>7, Appended
<1>9. TypeOK'
  <2>1. toolSteps' \in 0..MaxSteps
    BY <1>2, <1>3, <1>4, MaxStepsAssumption DEF TypeOK
  <2>2. hadToolFailure' \in BOOLEAN
    BY <1>1, <1>3 DEF TypeOK
  <2> QED
    BY <1>2, <1>3, <1>6, <1>8, <2>1, <2>2 DEF TypeOK
<1>10. Spent'
  BY <1>2, <1>3 DEF Spent, TypeOK
<1>11. Routed'
  BY <1>2, <1>4, <1>6 DEF Routed
<1>12. Evidence'
  <2>1. toolSteps' > 0
    BY <1>2, <1>3, MaxStepsAssumption DEF TypeOK
  <2>2. ASSUME ~hadToolFailure', NEW i \in DOMAIN observations'
        PROVE  observations'[i]
    <3>1. ok /\ ~hadToolFailure
      BY <1>1, <2>2
    <3>2. CASE i = Len(observations) + 1
      BY <3>1, <3>2, <1>8
    <3>3. CASE i # Len(observations) + 1
      <4>1. i \in 1..Len(observations)
        BY <2>2, <3>3, <1>8
      <4> QED
        BY <3>1, <4>1, <1>3, <1>8 DEF Evidence
    <3> QED
      BY <3>2, <3>3
  <2> QED
    BY <2>1, <2>2, <1>8 DEF Evidence
<1>13. Ended' /\ RefusalsAreExplained'
  BY <1>2, <1>3 DEF Ended, RefusalsAreExplained
<1> QED
  BY <1>6, <1>9, <1>10, <1>11, <1>12, <1>13 DEF RInv

\* finalize_node keeps the invariant.
LEMMA FinalizeStep == RInv /\ Finalize => RInv'
<1> SUFFICES ASSUME RInv, Finalize PROVE RInv'
  OBVIOUS
<1>1. /\ node = "finalize" /\ node' = "END" /\ supersteps' = supersteps + 1
      /\ status' = IF hadToolFailure THEN "partial" ELSE "success"
      /\ messages' = messages /\ toolSteps' = toolSteps /\ llmCalls' = llmCalls
      /\ observations' = observations /\ hadToolFailure' = hadToolFailure
      /\ terminalError' = terminalError
  BY DEF Finalize, Superstep
<1>2. terminalError = None /\ NewestIsAI /\ Newest.toolCalls = 0 /\ Newest.text
  BY <1>1 DEF RInv, Routed
<1>3. TypeOK'
  BY <1>1 DEF RInv, TypeOK
<1>4. Spent'
  BY <1>1 DEF RInv, Spent, TypeOK
<1>5. Routed'
  BY <1>1, <1>2 DEF Routed, NewestIsAI, Newest
<1>6. Evidence' /\ Ended'
  BY <1>1, <1>2 DEF RInv, Evidence, Ended
<1>7. RefusalsAreExplained' /\ CallsAreAnswered'
  BY <1>1 DEF RInv, RefusalsAreExplained, CallsAreAnswered
<1> QED
  BY <1>3, <1>4, <1>5, <1>6, <1>7 DEF RInv

\* safe_fallback_node keeps the invariant: the reason it finds is a real one.
LEMMA SafeFallbackStep == RInv /\ SafeFallback => RInv'
<1> SUFFICES ASSUME RInv, SafeFallback PROVE RInv'
  OBVIOUS
<1>1. /\ node = "safe_fallback" /\ node' = "END" /\ supersteps' = supersteps + 1
      /\ terminalError' = FallbackError(terminalError, LastAI(messages), toolSteps)
      /\ status' = FallbackStatus(terminalError')
      /\ messages' = messages /\ toolSteps' = toolSteps /\ llmCalls' = llmCalls
      /\ observations' = observations /\ hadToolFailure' = hadToolFailure
  BY DEF SafeFallback, Superstep
<1>2. TypeOK /\ Routed /\ Evidence /\ RefusalsAreExplained
  BY DEF RInv
<1>3. /\ terminalError' \in Codes \ {"invalid_route", "missing_ai_message"}
      /\ terminalError' = "tool_limit" => toolSteps >= MaxSteps
  <2>1. CASE terminalError # None
    <3>1. terminalError' = terminalError
      BY <1>1, <2>1 DEF FallbackError
    <3>2. terminalError # "tool_limit"
      BY <1>1, <1>2 DEF Routed
    <3> QED
      BY <1>2, <2>1, <3>1, <3>2 DEF TypeOK, RefusalsAreExplained
  <2>2. CASE terminalError = None
    <3>1. NewestIsAI /\ Faulty(Newest)
      BY <1>1, <1>2, <2>2 DEF Routed
    <3>2. LastAI(messages) = Newest
      BY <1>2, <3>1, LastAIIsNewest
    <3>3. Newest \in AIMessages /\ Newest # None
      BY <3>1, NoneAssumption DEF NewestIsAI
    <3>4. toolSteps \in Nat
      BY <1>2 DEF TypeOK
    <3> QED
      BY <1>1, <2>2, <3>1, <3>2, <3>3, <3>4, MaxStepsAssumption
      DEF FallbackError, Faulty, AIMessages, Codes
  <2> QED
    BY <2>1, <2>2
<1>4. terminalError' # None
  BY <1>3, NoneAssumption
<1>5. status' = (IF observations = <<>> THEN "failed" ELSE "partial")
  <2>1. terminalError' = "tool_limit" => toolSteps > 0
    BY <1>2, <1>3, MaxStepsAssumption DEF TypeOK
  <2> QED
    BY <1>1, <1>2, <2>1 DEF FallbackStatus, Evidence
<1>6. TypeOK'
  BY <1>1, <1>2, <1>3, <1>5 DEF TypeOK
<1>7. Spent'
  BY <1>1 DEF RInv, Spent, TypeOK
<1>8. Routed'
  BY <1>1, <1>4 DEF Routed
<1>9. Evidence' /\ Ended'
  BY <1>1, <1>2, <1>4, <1>5 DEF Evidence, Ended
<1>10. RefusalsAreExplained' /\ CallsAreAnswered'
  BY <1>1, <1>3 DEF RInv, RefusalsAreExplained, CallsAreAnswered
<1> QED
  BY <1>6, <1>7, <1>8, <1>9, <1>10 DEF RInv

\* RInv is inductive.
LEMMA RInductive == Spec => []RInv
<1>1. Init => RInv
  BY InitRInv
<1>2. RInv /\ [Next]_vars => RInv'
  <2> SUFFICES ASSUME RInv, [Next]_vars PROVE RInv'
    OBVIOUS
  <2>1. CASE Next
    BY <2>1, ModelReturnsStep, ModelRaisesStep, ToolStep, FinalizeStep, SafeFallbackStep
    DEF Next
  <2>2. CASE UNCHANGED vars
    BY <2>2 DEF vars, RInv, TypeOK, Spent, Routed, Evidence, Ended, RefusalsAreExplained,
       CallsAreAnswered, NewestIsAI, Newest, Faulty
  <2> QED
    BY <2>1, <2>2
<1> QED
  BY <1>1, <1>2, PTL DEF Spec

\* Every variable keeps its type; in particular tool_steps stays within max_steps.
THEOREM ReadonlyTypes == Spec => []TypeOK
<1>1. RInv => TypeOK
  BY DEF RInv
<1> QED
  BY <1>1, RInductive, PTL

\* The recursion limit of run_graph_query suffices for every max_steps, and the
\* model is called at most once more than the tools.
THEOREM ReadonlyBudgets == Spec => []BudgetsSuffice
<1>1. RInv => BudgetsSuffice
  BY MaxStepsAssumption DEF RInv, TypeOK, Spent, BudgetsSuffice, RecursionLimit
<1> QED
  BY <1>1, RInductive, PTL

\* The conversation of the read-only graph pairs each tool call with its result.
THEOREM ReadonlyConversation == Spec => []CallsAreAnswered
<1>1. RInv => CallsAreAnswered
  BY DEF RInv
<1> QED
  BY <1>1, RInductive, PTL

\* Each refusal of route_after_model has a reason that fallback_error_for_state finds.
THEOREM ReadonlyRefusals == Spec => []RefusalsAreExplained
<1>1. RInv => RefusalsAreExplained
  BY DEF RInv
<1> QED
  BY <1>1, RInductive, PTL

\* The status of a run of the read-only graph agrees with its tools and its answer.
THEOREM ReadonlyStatus == Spec => []StatusIsHonest
<1>1. RInv => StatusIsHonest
  <2> SUFFICES ASSUME RInv, node = "END" PROVE StatusIsHonest
    BY DEF StatusIsHonest
  <2>1. TypeOK /\ Routed /\ Evidence /\ Ended
    BY DEF RInv
  <2>2. terminalError = None => LastAI(messages).toolCalls = 0 /\ LastAI(messages).text
    BY <2>1, LastAIIsNewest DEF Routed
  <2>3. status = "success" => ~hadToolFailure
    BY <2>1 DEF Ended
  <2> QED
    BY <2>1, <2>2, <2>3 DEF StatusIsHonest, Ended, Evidence
<1> QED
  BY <1>1, RInductive, PTL
====
