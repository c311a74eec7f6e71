---- MODULE Agent_proofs ----
(***************************************************************************)
(* Proofs about the ordinary Agent: about AgentGraph for every set of      *)
(* calls and every max_steps, and, below, about WriteExecution, the work   *)
(* of its executor, for every set of files and approved writes, and        *)
(* whatever files they declare.                                            *)
(***************************************************************************)
EXTENDS AgentGraph, WriteExecution, FiniteSetTheorems, SequenceTheorems, TLAPS

\* The one repair that a run may have spent.
Repairs == IF repairUsed THEN 1 ELSE 0

\* Supersteps of the invoke and model calls of the run against its tool steps.
\* A resume sets the supersteps back to 0 and starts at the tool node.
Budget ==
    /\ node = "model" =>
        /\ supersteps <= 2 * toolSteps + Repairs
        /\ llmCalls <= toolSteps + Repairs
    /\ node # "model" =>
        /\ supersteps <= 2 * toolSteps + 1 + Repairs + (IF node = "END" THEN 1 ELSE 0)
        /\ llmCalls <= toolSteps + 1 + Repairs

\* What the routing guarantees about the decision a node is about to handle.
Routed ==
    /\ node # "END" => status = "running"
    /\ node \in {"tool", "request_approval"} =>
        /\ pending \in Calls
        /\ toolSteps < MaxSteps
    /\ node = "request_approval" => pending \in WriteCalls
    /\ WriteAtToolIsCovered
    /\ status = "approval_required" =>
        /\ approval = pending
        /\ pending \in WriteCalls
        /\ toolSteps < MaxSteps
    /\ approval # None => status = "approval_required"

\* A write happened at most as often as it was approved, and an approval that
\* is still unused pays for the next one.
Granted ==
    \A c \in WriteCalls :
        applied[c] + (IF GrantCovers(c) THEN 1 ELSE 0) <= granted[c]

\* While no tool has failed, the only approved write that has not happened is
\* the one about to be executed.
Faultless ==
    ~hadToolFailure =>
        /\ \A i \in DOMAIN observations : observations[i].ok
        /\ \A c \in WriteCalls :
              granted[c] = applied[c] + (IF node = "tool" /\ pending = c THEN 1 ELSE 0)

\* How the terminal statuses come about.
Ended ==
    /\ node \notin {"safe_fallback", "END"} => terminalError = None
    /\ status = "success" => ~hadToolFailure /\ terminalError = None
    /\ node = "END" /\ status = "failed" /\ terminalError # "approval_request_invalid" =>
          observations = <<>>

IInv == TypeOK /\ Budget /\ Routed

HInv == IInv /\ Granted /\ Faultless /\ Ended

USE CallsAssumption, MaxStepsAssumption

\* A run begins in the invariant.
LEMMA InitInv == Init => HInv
<1> SUFFICES ASSUME Init PROVE HInv
  OBVIOUS
<1>1. TypeOK
  <2>1. granted \in [WriteCalls -> Nat] /\ applied \in [WriteCalls -> Nat]
    BY DEF Init
  <2>2. observations \in Seq([call : Calls, ok : BOOLEAN]) /\ events \in Seq(Steps)
    BY DEF Init
  <2>3. toolSteps \in 0..MaxSteps /\ llmCalls \in Nat /\ supersteps \in Nat
    BY DEF Init
  <2>4. /\ repairUsed \in BOOLEAN /\ hadToolFailure \in BOOLEAN
        /\ writeExecuted \in BOOLEAN /\ grantUsed \in BOOLEAN
    BY DEF Init
  <2>5. /\ node \in Nodes \cup {"END"} /\ status \in Statuses
        /\ pending \in Calls \cup {Answer, None} /\ approval \in WriteCalls \cup {None}
        /\ terminalError \in Errors \cup {None} /\ grant \in WriteCalls \cup {None}
    BY DEF Init, Nodes, Statuses
  <2>6. QED
    BY <2>1, <2>2, <2>3, <2>4, <2>5 DEF TypeOK
<1>2. Budget /\ Routed
  BY DEF Init, Budget, Repairs, Routed, WriteAtToolIsCovered
<1>3. Granted
  <2>1. \A c \in WriteCalls : ~GrantCovers(c)
    BY DEF Init, GrantCovers, Calls
  <2>2. QED
    BY <2>1 DEF Init, Granted
<1>4. Faultless /\ Ended
  BY DEF Init, Faultless, Ended
<1>5. QED
  BY <1>1, <1>2, <1>3, <1>4 DEF HInv, IInv

\* Every step keeps the types.
LEMMA TypeStep == IInv /\ Next => TypeOK'
<1> SUFFICES ASSUME IInv, Next PROVE TypeOK'
  OBVIOUS
<1>1. CASE ModelRaises
  BY <1>1
     DEF IInv, TypeOK, Routed, ModelRaises, ModelCalled, Superstep, GoTo, Record,
         executorVars, Nodes, Statuses, Errors, Steps, Calls
<1>2. CASE ModelRepairs
  BY <1>2
     DEF IInv, TypeOK, Routed, ModelRepairs, ModelCalled, Superstep, GoTo, Record,
         executorVars, Nodes, Statuses, Errors, Steps, Calls
<1>3. CASE ModelInvalid
  BY <1>3
     DEF IInv, TypeOK, Routed, ModelInvalid, ModelCalled, Superstep, GoTo, Record,
         executorVars, Nodes, Statuses, Errors, Steps, Calls
<1>4. CASE ModelAnswers
  BY <1>4
     DEF IInv, TypeOK, Routed, ModelAnswers, ModelCalled, Superstep, GoTo, Record,
         executorVars, Nodes, Statuses, Errors, Steps, Calls
<1>5. CASE ModelCallsTool
  BY <1>5
     DEF IInv, TypeOK, Routed, ModelCallsTool, ModelCalled, Superstep, GoTo, Record,
         executorVars, RouteToolDecision, Nodes, Statuses, Errors, Steps, Calls
<1>6. CASE ToolReads
  BY <1>6
     DEF IInv, TypeOK, Routed, ToolReads, ToolReturns, Superstep, GoTo, Record,
         GrantCovers, TakesEffect, Nodes, Statuses, Errors, Steps, Calls
<1>7. CASE ToolWriteRefused
  BY <1>7
     DEF IInv, TypeOK, Routed, ToolWriteRefused, ToolReturns, Superstep, GoTo, Record,
         GrantCovers, TakesEffect, Nodes, Statuses, Errors, Steps, Calls
<1>8. CASE ToolWrites
  BY <1>8
     DEF IInv, TypeOK, Routed, ToolWrites, ToolReturns, Superstep, GoTo, Record,
         GrantCovers, TakesEffect, Nodes, Statuses, Errors, Steps, Calls
<1>9. CASE ToolWriteBreaks
  <2>1. applied' \in [WriteCalls -> Nat]
    <3>1. CASE UNCHANGED applied
      BY <3>1 DEF IInv, TypeOK
    <3>2. CASE TakesEffect(pending)
      BY <1>9, <3>2 DEF IInv, TypeOK, ToolWriteBreaks, TakesEffect
    <3>3. QED
      BY <1>9, <3>1, <3>2 DEF ToolWriteBreaks
  <2>2. QED
    BY <1>9, <2>1
       DEF IInv, TypeOK, Routed, ToolWriteBreaks, ToolReturns, Superstep, GoTo, Record,
           Nodes, Steps, Calls
<1>10. CASE Finalize
  BY <1>10
     DEF IInv, TypeOK, Routed, Finalize, Superstep, GoTo, Record, executorVars, Nodes,
         Statuses, Errors, Steps, Calls
<1>11. CASE SafeFallback
  BY <1>11
     DEF IInv, TypeOK, Routed, SafeFallback, Superstep, GoTo, Record, executorVars,
         Nodes, Statuses, Errors, Steps, Calls
<1>12. CASE RequestApproval
  BY <1>12
     DEF IInv, TypeOK, Routed, RequestApproval, Superstep, GoTo, Record, executorVars,
         Nodes, Statuses, Errors, Steps, Calls
<1>13. CASE RejectApproval
  BY <1>13
     DEF IInv, TypeOK, Routed, RejectApproval, Superstep, GoTo, Record, executorVars,
         Nodes, Statuses, Errors, Steps, Calls
<1>14. CASE Resume
  <2>1. approval \in WriteCalls
    BY <1>14 DEF IInv, Routed, Resume
  <2>2. granted' \in [WriteCalls -> Nat]
    BY <1>14, <2>1 DEF IInv, TypeOK, Resume
  <2>3. QED
    BY <1>14, <2>1, <2>2
       DEF IInv, TypeOK, Resume, GoTo, graphVars, Nodes, Statuses
<1>15. QED
  BY <1>1, <1>2, <1>3, <1>4, <1>5, <1>6, <1>7, <1>8, <1>9, <1>10, <1>11, <1>12, <1>13, <1>14
     DEF Next, Invoke, Model, Tool, Ending

\* Every step pays for its superstep and its model call.
LEMMA BudgetStep == IInv /\ Next => Budget'
<1> SUFFICES ASSUME IInv, Next PROVE Budget'
  OBVIOUS
<1>1. CASE ModelRaises
  BY <1>1
     DEF IInv, TypeOK, Budget, Repairs, ModelRaises, ModelCalled, Superstep, GoTo,
         Record, executorVars, Nodes
<1>2. CASE ModelRepairs
  BY <1>2
     DEF IInv, TypeOK, Budget, Repairs, ModelRepairs, ModelCalled, Superstep, GoTo,
         Record, executorVars, Nodes
<1>3. CASE ModelInvalid
  BY <1>3
     DEF IInv, TypeOK, Budget, Repairs, ModelInvalid, ModelCalled, Superstep, GoTo,
         Record, executorVars, Nodes
<1>4. CASE ModelAnswers
  BY <1>4
     DEF IInv, TypeOK, Budget, Repairs, ModelAnswers, ModelCalled, Superstep, GoTo,
         Record, executorVars, Nodes
<1>5. CASE ModelCallsTool
  BY <1>5
     DEF IInv, TypeOK, Budget, Repairs, ModelCallsTool, ModelCalled, Superstep, GoTo,
         Record, executorVars, RouteToolDecision, Nodes
<1>6. CASE ToolReads
  BY <1>6
     DEF IInv, TypeOK, Budget, Repairs, ToolReads, ToolReturns, Superstep, GoTo,
         Record, GrantCovers, TakesEffect, Nodes
<1>7. CASE ToolWriteRefused
  BY <1>7
     DEF IInv, TypeOK, Budget, Repairs, ToolWriteRefused, ToolReturns, Superstep, GoTo,
         Record, GrantCovers, TakesEffect, Nodes
<1>8. CASE ToolWrites
  BY <1>8
     DEF IInv, TypeOK, Budget, Repairs, ToolWrites, ToolReturns, Superstep, GoTo,
         Record, GrantCovers, TakesEffect, Nodes
<1>9. CASE ToolWriteBreaks
  BY <1>9
     DEF IInv, TypeOK, Budget, Repairs, ToolWriteBreaks, ToolReturns, Superstep, GoTo,
         Record, GrantCovers, TakesEffect, Nodes
<1>10. CASE Finalize
  BY <1>10
     DEF IInv, TypeOK, Budget, Repairs, Finalize, Superstep, GoTo, Record,
         executorVars, Nodes
<1>11. CASE SafeFallback
  BY <1>11
     DEF IInv, TypeOK, Budget, Repairs, SafeFallback, Superstep, GoTo, Record,
         executorVars, Nodes
<1>12. CASE RequestApproval
  BY <1>12
     DEF IInv, TypeOK, Budget, Repairs, RequestApproval, Superstep, GoTo, Record,
         executorVars, Nodes
<1>13. CASE RejectApproval
  BY <1>13
     DEF IInv, TypeOK, Budget, Repairs, RejectApproval, Superstep, GoTo, Record,
         executorVars, Nodes
<1>14. CASE Resume
  BY <1>14
     DEF IInv, TypeOK, Budget, Repairs, Resume, GoTo, graphVars, Nodes
<1>15. QED
  BY <1>1, <1>2, <1>3, <1>4, <1>5, <1>6, <1>7, <1>8, <1>9, <1>10, <1>11, <1>12, <1>13, <1>14
     DEF Next, Invoke, Model, Tool, Ending

\* Every step leaves a decision its next node can handle.
LEMMA RoutedStep == IInv /\ Next => Routed'
<1> SUFFICES ASSUME IInv, Next PROVE Routed'
  OBVIOUS
<1>1. CASE ModelRaises
  BY <1>1
     DEF IInv, TypeOK, Routed, WriteAtToolIsCovered, GrantCovers, ModelRaises,
         ModelCalled, Superstep, GoTo, Record, executorVars, Calls
<1>2. CASE ModelRepairs
  BY <1>2
     DEF IInv, TypeOK, Routed, WriteAtToolIsCovered, GrantCovers, ModelRepairs,
         ModelCalled, Superstep, GoTo, Record, executorVars, Calls
<1>3. CASE ModelInvalid
  BY <1>3
     DEF IInv, TypeOK, Routed, WriteAtToolIsCovered, GrantCovers, ModelInvalid,
         ModelCalled, Superstep, GoTo, Record, executorVars, Calls
<1>4. CASE ModelAnswers
  BY <1>4
     DEF IInv, TypeOK, Routed, WriteAtToolIsCovered, GrantCovers, ModelAnswers,
         ModelCalled, Superstep, GoTo, Record, executorVars, Calls
<1>5. CASE ModelCallsTool
  BY <1>5
     DEF IInv, TypeOK, Routed, WriteAtToolIsCovered, GrantCovers, ModelCallsTool,
         ModelCalled, Superstep, GoTo, Record, executorVars, RouteToolDecision, Calls
<1>6. CASE ToolReads
  BY <1>6
     DEF IInv, TypeOK, Routed, WriteAtToolIsCovered, GrantCovers, ToolReads,
         ToolReturns, Superstep, GoTo, Record, TakesEffect, Calls
<1>7. CASE ToolWriteRefused
  BY <1>7
     DEF IInv, TypeOK, Routed, WriteAtToolIsCovered, GrantCovers, ToolWriteRefused,
         ToolReturns, Superstep, GoTo, Record, TakesEffect, Calls
<1>8. CASE ToolWrites
  BY <1>8
     DEF IInv, TypeOK, Routed, WriteAtToolIsCovered, GrantCovers, ToolWrites,
         ToolReturns, Superstep, GoTo, Record, TakesEffect, Calls
<1>9. CASE ToolWriteBreaks
  BY <1>9
     DEF IInv, TypeOK, Routed, WriteAtToolIsCovered, GrantCovers, ToolWriteBreaks,
         ToolReturns, Superstep, GoTo, Record, TakesEffect, Calls
<1>10. CASE Finalize
  BY <1>10
     DEF IInv, TypeOK, Routed, WriteAtToolIsCovered, GrantCovers, Finalize, Superstep,
         GoTo, Record, executorVars, Calls
<1>11. CASE SafeFallback
  BY <1>11
     DEF IInv, TypeOK, Routed, WriteAtToolIsCovered, GrantCovers, SafeFallback,
         Superstep, GoTo, Record, executorVars, Calls
<1>12. CASE RequestApproval
  BY <1>12
     DEF IInv, TypeOK, Routed, WriteAtToolIsCovered, GrantCovers, RequestApproval,
         Superstep, GoTo, Record, executorVars, Calls
<1>13. CASE RejectApproval
  BY <1>13
     DEF IInv, TypeOK, Routed, WriteAtToolIsCovered, GrantCovers, RejectApproval,
         Superstep, GoTo, Record, executorVars, Calls
<1>14. CASE Resume
  BY <1>14
     DEF IInv, TypeOK, Routed, WriteAtToolIsCovered, GrantCovers, Resume, GoTo,
         graphVars, Calls
<1>15. QED
  BY <1>1, <1>2, <1>3, <1>4, <1>5, <1>6, <1>7, <1>8, <1>9, <1>10, <1>11, <1>12, <1>13, <1>14
     DEF Next, Invoke, Model, Tool, Ending

\* What Granted says of the calls alone.
LEMMA GrantedBound ==
    HInv => \A c \in WriteCalls :
                /\ granted[c] \in Nat /\ applied[c] \in Nat
                /\ applied[c] <= granted[c]
                /\ GrantCovers(c) => applied[c] + 1 <= granted[c]
<1> SUFFICES ASSUME HInv, NEW c \in WriteCalls
             PROVE  /\ granted[c] \in Nat /\ applied[c] \in Nat
                    /\ applied[c] <= granted[c]
                    /\ GrantCovers(c) => applied[c] + 1 <= granted[c]
  OBVIOUS
<1>1. granted[c] \in Nat /\ applied[c] \in Nat
  BY DEF HInv, IInv, TypeOK
<1>2. applied[c] + (IF GrantCovers(c) THEN 1 ELSE 0) <= granted[c]
  BY DEF HInv, Granted
<1>3. CASE GrantCovers(c)
  BY <1>1, <1>2, <1>3
<1>4. CASE ~GrantCovers(c)
  BY <1>1, <1>2, <1>4
<1>5. QED
  BY <1>1, <1>3, <1>4

\* No step writes without an approval that pays for it.
LEMMA GrantedStep == HInv /\ Next => Granted'
<1> SUFFICES ASSUME HInv, Next PROVE Granted'
  OBVIOUS
<1>1. CASE ModelRaises
  BY <1>1
     DEF HInv, Granted, GrantCovers, ModelRaises, ModelCalled, Superstep, GoTo, Record,
         executorVars
<1>2. CASE ModelRepairs
  BY <1>2
     DEF HInv, Granted, GrantCovers, ModelRepairs, ModelCalled, Superstep, GoTo,
         Record, executorVars
<1>3. CASE ModelInvalid
  BY <1>3
     DEF HInv, Granted, GrantCovers, ModelInvalid, ModelCalled, Superstep, GoTo,
         Record, executorVars
<1>4. CASE ModelAnswers
  BY <1>4
     DEF HInv, Granted, GrantCovers, ModelAnswers, ModelCalled, Superstep, GoTo,
         Record, executorVars
<1>5. CASE ModelCallsTool
  BY <1>5
     DEF HInv, Granted, GrantCovers, ModelCallsTool, ModelCalled, Superstep, GoTo,
         Record, executorVars, RouteToolDecision
<1>6. CASE ToolReads
  BY <1>6
     DEF HInv, Granted, GrantCovers, ToolReads, ToolReturns, Superstep, GoTo, Record,
         TakesEffect
<1>7. CASE ToolWriteRefused
  BY <1>7
     DEF HInv, Granted, GrantCovers, ToolWriteRefused, ToolReturns, Superstep, GoTo,
         Record, TakesEffect
<1>8. CASE ToolWrites
  <2>1. pending \in WriteCalls /\ applied[pending] + 1 <= granted[pending]
    BY <1>8 DEF HInv, IInv, TypeOK, Granted, ToolWrites
  <2>2. applied' = [applied EXCEPT ![pending] = @ + 1] /\ granted' = granted /\ grantUsed'
    BY <1>8 DEF ToolWrites, ToolReturns, TakesEffect
  <2>3. \A c \in WriteCalls : ~GrantCovers(c)'
    BY <2>2 DEF GrantCovers
  <2>4. QED
    BY <2>1, <2>2, <2>3 DEF HInv, IInv, TypeOK, Granted
<1>9. CASE ToolWriteBreaks
  <2>1. pending \in WriteCalls /\ applied[pending] + 1 <= granted[pending]
    BY <1>9 DEF HInv, IInv, TypeOK, Granted, ToolWriteBreaks
  <2>2. granted' = granted /\ grantUsed'
    BY <1>9 DEF ToolWriteBreaks, ToolReturns
  <2>3. \A c \in WriteCalls : ~GrantCovers(c)'
    BY <2>2 DEF GrantCovers
  <2>4. \A c \in WriteCalls : applied[c] <= granted[c]
    BY GrantedBound
  <2>5. CASE applied' = applied
    BY <2>2, <2>3, <2>5, GrantedBound DEF Granted
  <2>6. CASE applied' = [applied EXCEPT ![pending] = @ + 1]
    BY <2>1, <2>2, <2>3, <2>4, <2>6 DEF HInv, IInv, TypeOK, Granted
  <2>7. QED
    BY <1>9, <2>5, <2>6 DEF ToolWriteBreaks, TakesEffect
<1>10. CASE Finalize
  BY <1>10
     DEF HInv, Granted, GrantCovers, Finalize, Superstep, GoTo, Record, executorVars
<1>11. CASE SafeFallback
  BY <1>11
     DEF HInv, Granted, GrantCovers, SafeFallback, Superstep, GoTo, Record,
         executorVars
<1>12. CASE RequestApproval
  BY <1>12
     DEF HInv, Granted, GrantCovers, RequestApproval, Superstep, GoTo, Record,
         executorVars
<1>13. CASE RejectApproval
  BY <1>13
     DEF HInv, Granted, GrantCovers, RejectApproval, Superstep, GoTo, Record,
         executorVars
<1>14. CASE Resume
  <2>1. approval \in WriteCalls
    BY <1>14 DEF HInv, IInv, Routed, Resume
  <2>2. /\ granted' = [granted EXCEPT ![approval] = @ + 1]
        /\ grant' = approval /\ applied' = applied
    BY <1>14 DEF Resume
  <2>3. \A c \in WriteCalls : c # approval => ~GrantCovers(c)'
    BY <2>2 DEF GrantCovers
  <2>4. \A c \in WriteCalls : applied[c] <= granted[c]
    BY GrantedBound
  <2>5. \A c \in WriteCalls : granted[c] \in Nat /\ applied[c] \in Nat
    BY DEF HInv, IInv, TypeOK
  <2>6. granted \in [WriteCalls -> Nat]
    BY DEF HInv, IInv, TypeOK
  <2>7. QED
    BY <2>1, <2>2, <2>3, <2>4, <2>5, <2>6 DEF Granted
<1>15. QED
  BY <1>1, <1>2, <1>3, <1>4, <1>5, <1>6, <1>7, <1>8, <1>9, <1>10, <1>11, <1>12, <1>13,
     <1>14
     DEF Next, Invoke, Model, Tool, Ending

\* An observation of a successful call added to successful ones.
LEMMA AppendOk ==
    ASSUME NEW obs \in Seq([call : Calls, ok : BOOLEAN]),
           NEW call,
           \A i \in DOMAIN obs : obs[i].ok
    PROVE  LET more == Append(obs, [call |-> call, ok |-> TRUE])
           IN  \A i \in DOMAIN more : more[i].ok
<1> DEFINE more == Append(obs, [call |-> call, ok |-> TRUE])
<1> SUFFICES ASSUME NEW i \in DOMAIN more PROVE more[i].ok
  OBVIOUS
<1>1. DOMAIN more = 1..(Len(obs) + 1) /\ DOMAIN obs = 1..Len(obs) /\ Len(obs) \in Nat
  OBVIOUS
<1>2. CASE i = Len(obs) + 1
  <2>1. more[i] = [call |-> call, ok |-> TRUE]
    BY <1>2
  <2>2. QED
    BY <2>1
<1>3. CASE i # Len(obs) + 1
  <2>1. i \in 1..Len(obs)
    BY <1>1, <1>3
  <2>2. more[i] = obs[i]
    BY <2>1
  <2>3. QED
    BY <2>1, <2>2, <1>1
<1>4. QED
  BY <1>2, <1>3

\* A step that leaves a run faultless leaves no approved write behind.
LEMMA FaultlessStep == HInv /\ Next => Faultless'
<1> SUFFICES ASSUME HInv, Next PROVE Faultless'
  OBVIOUS
<1>1. CASE ModelRaises
  BY <1>1
     DEF HInv, IInv, TypeOK, Faultless, ModelRaises, ModelCalled, Superstep, GoTo,
         Record, executorVars
<1>2. CASE ModelRepairs
  BY <1>2
     DEF HInv, IInv, TypeOK, Faultless, ModelRepairs, ModelCalled, Superstep, GoTo,
         Record, executorVars
<1>3. CASE ModelInvalid
  BY <1>3
     DEF HInv, IInv, TypeOK, Faultless, ModelInvalid, ModelCalled, Superstep, GoTo,
         Record, executorVars
<1>4. CASE ModelAnswers
  BY <1>4
     DEF HInv, IInv, TypeOK, Faultless, ModelAnswers, ModelCalled, Superstep, GoTo,
         Record, executorVars
<1>5. CASE ModelCallsTool
  <2>1. node = "model" /\ (node' = "tool" => pending' \notin WriteCalls)
    BY <1>5 DEF ModelCallsTool, ModelCalled, Superstep, GoTo, RouteToolDecision
  <2>2. UNCHANGED <<observations, hadToolFailure, granted, applied>>
    BY <1>5 DEF ModelCallsTool, ModelCalled, executorVars
  <2>3. QED
    BY <2>1, <2>2 DEF HInv, IInv, TypeOK, Faultless
<1>6. CASE ToolReads
  <2>1. pending \notin WriteCalls /\ node = "tool" /\ node' = "model"
    BY <1>6 DEF ToolReads, ToolReturns, Superstep, GoTo
  <2>2. granted' = granted /\ applied' = applied
    BY <1>6 DEF ToolReads, ToolReturns
  <2>3. ASSUME ~hadToolFailure'
        PROVE  ~hadToolFailure /\ observations' = Append(observations, [call |-> pending, ok |-> TRUE])
    BY <1>6, <2>3 DEF HInv, IInv, TypeOK, ToolReads, ToolReturns
  <2>4. ASSUME ~hadToolFailure'
        PROVE  \A i \in DOMAIN observations' : observations'[i].ok
    BY <2>3, <2>4, AppendOk DEF HInv, IInv, TypeOK, Faultless
  <2>5. ASSUME ~hadToolFailure', NEW c \in WriteCalls
        PROVE  granted'[c] = applied'[c] /\ ~(node' = "tool")
    <3>1. pending # c
      BY <2>1
    <3>2. granted[c] = applied[c] + 0
      BY <2>3, <2>5, <3>1 DEF HInv, Faultless
    <3>3. QED
      BY <2>1, <2>2, <3>2 DEF HInv, IInv, TypeOK
  <2>6. QED
    BY <2>2, <2>4, <2>5 DEF Faultless, HInv, IInv, TypeOK
<1>7. CASE ToolWriteRefused
  BY <1>7 DEF ToolWriteRefused, ToolReturns, Faultless
<1>8. CASE ToolWrites
  <2>1. pending \in WriteCalls /\ node = "tool" /\ node' = "model"
    BY <1>8 DEF ToolWrites, ToolReturns, Superstep, GoTo
  <2>2. granted' = granted /\ applied' = [applied EXCEPT ![pending] = @ + 1]
    BY <1>8 DEF ToolWrites, ToolReturns, TakesEffect
  <2>3. ASSUME ~hadToolFailure'
        PROVE  ~hadToolFailure /\ observations' = Append(observations, [call |-> pending, ok |-> TRUE])
    BY <1>8, <2>3 DEF ToolWrites, ToolReturns
  <2>4. ASSUME ~hadToolFailure'
        PROVE  \A i \in DOMAIN observations' : observations'[i].ok
    BY <2>3, <2>4, AppendOk DEF HInv, IInv, TypeOK, Faultless
  <2>5. ASSUME ~hadToolFailure', NEW c \in WriteCalls
        PROVE  granted'[c] = applied'[c] /\ ~(node' = "tool")
    <3>1. granted[c] = applied[c] + (IF pending = c THEN 1 ELSE 0)
      BY <2>1, <2>3, <2>5 DEF HInv, Faultless
    <3>2. applied'[c] = applied[c] + (IF pending = c THEN 1 ELSE 0)
      BY <2>1, <2>2 DEF HInv, IInv, TypeOK
    <3>3. QED
      BY <2>1, <2>2, <3>1, <3>2
  <2>6. QED
    BY <2>2, <2>4, <2>5 DEF Faultless, HInv, IInv, TypeOK
<1>9. CASE ToolWriteBreaks
  BY <1>9 DEF ToolWriteBreaks, ToolReturns, Faultless
<1>10. CASE Finalize
  BY <1>10
     DEF HInv, IInv, TypeOK, Faultless, Finalize, Superstep, GoTo, Record, executorVars
<1>11. CASE SafeFallback
  BY <1>11
     DEF HInv, IInv, TypeOK, Faultless, SafeFallback, Superstep, GoTo, Record,
         executorVars
<1>12. CASE RequestApproval
  BY <1>12
     DEF HInv, IInv, TypeOK, Faultless, RequestApproval, Superstep, GoTo, Record,
         executorVars
<1>13. CASE RejectApproval
  BY <1>13
     DEF HInv, IInv, TypeOK, Faultless, RejectApproval, Superstep, GoTo, Record,
         executorVars
<1>14. CASE Resume
  <2>1. approval \in WriteCalls /\ pending = approval /\ pending' = pending
    BY <1>14 DEF HInv, IInv, Routed, Resume, graphVars
  <2>2. /\ granted' = [granted EXCEPT ![approval] = @ + 1] /\ applied' = applied
        /\ node = "END" /\ node' = "tool"
        /\ UNCHANGED <<observations, hadToolFailure>>
    BY <1>14 DEF Resume, graphVars, GoTo
  <2>3. QED
    BY <2>1, <2>2 DEF HInv, IInv, TypeOK, Faultless
<1>15. QED
  BY <1>1, <1>2, <1>3, <1>4, <1>5, <1>6, <1>7, <1>8, <1>9, <1>10, <1>11, <1>12, <1>13,
     <1>14
     DEF Next, Invoke, Model, Tool, Ending

\* Every terminal status is earned by the state it is reported in.
LEMMA EndedStep == HInv /\ Next => Ended'
<1> SUFFICES ASSUME HInv, Next PROVE Ended'
  OBVIOUS
<1>1. CASE ModelRaises
  BY <1>1
     DEF HInv, IInv, TypeOK, Routed, Ended, ModelRaises, ModelCalled, Superstep, GoTo,
         Record, executorVars, Errors
<1>2. CASE ModelRepairs
  BY <1>2
     DEF HInv, IInv, TypeOK, Routed, Ended, ModelRepairs, ModelCalled, Superstep, GoTo,
         Record, executorVars, Errors
<1>3. CASE ModelInvalid
  BY <1>3
     DEF HInv, IInv, TypeOK, Routed, Ended, ModelInvalid, ModelCalled, Superstep, GoTo,
         Record, executorVars, Errors
<1>4. CASE ModelAnswers
  BY <1>4
     DEF HInv, IInv, TypeOK, Routed, Ended, ModelAnswers, ModelCalled, Superstep, GoTo,
         Record, executorVars, Errors
<1>5. CASE ModelCallsTool
  BY <1>5
     DEF HInv, IInv, TypeOK, Routed, Ended, ModelCallsTool, ModelCalled, Superstep,
         GoTo, Record, executorVars, RouteToolDecision, Errors
<1>6. CASE ToolReads
  BY <1>6
     DEF HInv, IInv, TypeOK, Routed, Ended, ToolReads, ToolReturns, Superstep, GoTo,
         Record, GrantCovers, TakesEffect, Errors
<1>7. CASE ToolWriteRefused
  BY <1>7
     DEF HInv, IInv, TypeOK, Routed, Ended, ToolWriteRefused, ToolReturns, Superstep,
         GoTo, Record, GrantCovers, TakesEffect, Errors
<1>8. CASE ToolWrites
  BY <1>8
     DEF HInv, IInv, TypeOK, Routed, Ended, ToolWrites, ToolReturns, Superstep, GoTo,
         Record, GrantCovers, TakesEffect, Errors
<1>9. CASE ToolWriteBreaks
  BY <1>9
     DEF HInv, IInv, TypeOK, Routed, Ended, ToolWriteBreaks, ToolReturns, Superstep,
         GoTo, Record, GrantCovers, TakesEffect, Errors
<1>10. CASE Finalize
  BY <1>10
     DEF HInv, IInv, TypeOK, Routed, Ended, Finalize, Superstep, GoTo, Record,
         executorVars, Errors
<1>11. CASE SafeFallback
  BY <1>11
     DEF HInv, IInv, TypeOK, Routed, Ended, SafeFallback, Superstep, GoTo, Record,
         executorVars, Errors
<1>12. CASE RequestApproval
  BY <1>12
     DEF HInv, IInv, TypeOK, Routed, Ended, RequestApproval, Superstep, GoTo, Record,
         executorVars, Errors
<1>13. CASE RejectApproval
  BY <1>13
     DEF HInv, IInv, TypeOK, Routed, Ended, RejectApproval, Superstep, GoTo, Record,
         executorVars, Errors
<1>14. CASE Resume
  BY <1>14
     DEF HInv, IInv, TypeOK, Routed, Ended, Resume, GoTo, graphVars, Errors
<1>15. QED
  BY <1>1, <1>2, <1>3, <1>4, <1>5, <1>6, <1>7, <1>8, <1>9, <1>10, <1>11, <1>12, <1>13,
     <1>14
     DEF Next, Invoke, Model, Tool, Ending

----
\* A step that changes nothing disturbs nothing.
LEMMA Stutter == HInv /\ UNCHANGED vars => HInv'
BY DEF HInv, IInv, TypeOK, Budget, Repairs, Routed, WriteAtToolIsCovered, GrantCovers,
       Granted, Faultless, Ended, vars, graphVars, executorVars

\* HInv is inductive.
LEMMA Inductive == Spec => []HInv
<1>1. HInv /\ [Next]_vars => HInv'
  BY TypeStep, BudgetStep, RoutedStep, GrantedStep, FaultlessStep, EndedStep, Stutter
     DEF HInv, IInv
<1>2. QED
  BY InitInv, <1>1, PTL DEF Spec

\* Every variable of a run of the graph keeps its type; in particular the tool
\* steps stay within max_steps, whatever the model decides.
THEOREM TypeCorrect == Spec => []TypeOK
<1>1. HInv => TypeOK
  BY DEF HInv, IInv
<1>2. QED
  BY Inductive, <1>1, PTL

\* tool_node never holds a write call that its executor's approval does not cover.
THEOREM WritesAreCovered == Spec => []WriteAtToolIsCovered
<1>1. HInv => WriteAtToolIsCovered
  BY DEF HInv, IInv, Routed
<1>2. QED
  BY Inductive, <1>1, PTL

\* No invoke of the graph raises GraphRecursionError, for any max_steps.
THEOREM RecursionBudgetHolds == Spec => []RecursionBudget
<1>1. HInv => RecursionBudget
  <2> SUFFICES ASSUME HInv PROVE RecursionBudget
    OBVIOUS
  <2>1. toolSteps \in Nat /\ toolSteps <= MaxSteps /\ supersteps \in Nat /\ MaxSteps \in Nat
    BY DEF HInv, IInv, TypeOK
  <2>2. Repairs \in 0..1
    BY DEF Repairs
  <2>3. supersteps <= 2 * toolSteps + 2 + Repairs
    BY <2>1, <2>2 DEF HInv, IInv, Budget
  <2>4. QED
    BY <2>1, <2>2, <2>3 DEF RecursionBudget, RecursionLimit
<1>2. QED
  BY Inductive, <1>1, PTL

\* A run makes at most max_steps + 2 model calls over all its invokes.
THEOREM LlmCallBudgetHolds == Spec => []LlmCallBudget
<1>1. HInv => LlmCallBudget
  <2> SUFFICES ASSUME HInv PROVE LlmCallBudget
    OBVIOUS
  <2>1. toolSteps \in Nat /\ toolSteps <= MaxSteps /\ llmCalls \in Nat /\ MaxSteps \in Nat
    BY DEF HInv, IInv, TypeOK
  <2>2. Repairs \in 0..1
    BY DEF Repairs
  <2>3. llmCalls <= toolSteps + 1 + Repairs
    BY <2>1, <2>2 DEF HInv, IInv, Budget
  <2>4. QED
    BY <2>1, <2>2, <2>3 DEF LlmCallBudget
<1>2. QED
  BY Inductive, <1>1, PTL

\* An approval envelope is offered exactly while resume_unified_query can
\* execute the call it names.
THEOREM ApprovalIsExact == Spec => []PendingApprovalIsExact
<1>1. HInv => PendingApprovalIsExact
  BY DEF HInv, IInv, TypeOK, Routed, PendingApprovalIsExact, Calls
<1>2. QED
  BY Inductive, <1>1, PTL

\* However the executor fails, and however often the run is resumed, a write
\* call takes effect at most as often as the user approved that call.
THEOREM WritesAreApproved == Spec => [](\A c \in WriteCalls : applied[c] <= granted[c])
<1>1. HInv => \A c \in WriteCalls : applied[c] <= granted[c]
  BY GrantedBound
<1>2. QED
  BY Inductive, <1>1, PTL

\* A run that reports success had no tool failure, and every approved write,
\* in whichever invoke, took effect; "failed" is not reported over evidence.
THEOREM StatusIsHonest == Spec => []TerminalStatusIsHonest
<1>1. HInv => TerminalStatusIsHonest
  <2> SUFFICES ASSUME HInv PROVE TerminalStatusIsHonest
    OBVIOUS
  <2>1. ASSUME node = "END", status = "success"
        PROVE  /\ terminalError = None
               /\ \A i \in DOMAIN observations : observations[i].ok
               /\ applied = granted
    <3>1. ~hadToolFailure /\ terminalError = None
      BY <2>1 DEF HInv, Ended
    <3>2. \A c \in WriteCalls : granted[c] = applied[c] + 0
      BY <2>1, <3>1 DEF HInv, Faultless
    <3>3. \A c \in WriteCalls : applied[c] = granted[c]
      BY <3>2, GrantedBound
    <3>4. applied = granted
      BY <3>3 DEF HInv, IInv, TypeOK
    <3>5. QED
      BY <3>1, <3>4 DEF HInv, Faultless
  <2>2. QED
    BY <2>1 DEF HInv, Ended, TerminalStatusIsHonest
<1>2. QED
  BY Inductive, <1>1, PTL

\* Recording an event leaves the earlier ones where they are.
LEMMA AppendKeeps ==
    ASSUME NEW S, NEW s \in Seq(S), NEW e \in S
    PROVE  /\ Len(Append(s, e)) >= Len(s)
           /\ SubSeq(Append(s, e), 1, Len(s)) = s
<1>1. Len(s) \in Nat /\ Len(Append(s, e)) = Len(s) + 1 /\ Append(s, e) \in Seq(S)
  OBVIOUS
<1> DEFINE front == SubSeq(Append(s, e), 1, Len(s))
<1>2. front \in Seq(S) /\ Len(front) = Len(s)
  BY <1>1
<1>3. \A i \in 1..Len(s) : front[i] = s[i]
  BY <1>1
<1>4. front = s
  BY <1>2, <1>3
<1>5. QED
  BY <1>1, <1>4

\* No step of a run, and no resume of it, gives back a budget, forgets a
\* failure or an executed write, or rewrites a recorded event.
THEOREM BudgetsSurvive == Spec => BudgetsSurviveApproval
<1> DEFINE Kept ==
        /\ toolSteps' >= toolSteps
        /\ llmCalls' >= llmCalls
        /\ repairUsed => repairUsed'
        /\ hadToolFailure => hadToolFailure'
        /\ writeExecuted => writeExecuted'
        /\ Len(events') >= Len(events)
        /\ SubSeq(events', 1, Len(events)) = events
<1>1. HInv /\ Next => Kept
  <2> SUFFICES ASSUME HInv, Next PROVE Kept
    OBVIOUS
  <2>1. /\ toolSteps \in Nat /\ llmCalls \in Nat
        /\ events \in Seq(Steps) /\ Len(events) \in Nat
    BY DEF HInv, IInv, TypeOK
  <2>2. CASE Model
    <3>1. ModelCalled
      BY <2>2 DEF Model, ModelRaises, ModelRepairs, ModelInvalid, ModelAnswers,
                  ModelCallsTool
    <3>2. events' = Append(events, "model_decision") /\ llmCalls' = llmCalls + 1
          /\ UNCHANGED <<toolSteps, hadToolFailure, writeExecuted>>
      BY <3>1 DEF ModelCalled, Record
    <3>3. repairUsed => repairUsed'
      BY <2>2 DEF Model, ModelRaises, ModelRepairs, ModelInvalid, ModelAnswers,
                  ModelCallsTool
    <3>4. QED
      BY <2>1, <3>2, <3>3, AppendKeeps DEF Steps
  <2>3. CASE Tool
    <3>1. \E ok \in BOOLEAN : ToolReturns(ok)
      BY <2>3 DEF Tool, ToolReads, ToolWriteRefused, ToolWrites, ToolWriteBreaks
    <3>2. events' = Append(events, "tool") /\ toolSteps' = toolSteps + 1
          /\ UNCHANGED <<llmCalls, repairUsed>> /\ (hadToolFailure => hadToolFailure')
      BY <3>1 DEF ToolReturns, Record
    <3>3. writeExecuted => writeExecuted'
      BY <2>3 DEF Tool, ToolReads, ToolWriteRefused, ToolWrites, ToolWriteBreaks
    <3>4. QED
      BY <2>1, <3>2, <3>3, AppendKeeps DEF Steps
  <2>4. CASE Ending
    <3>1. UNCHANGED <<toolSteps, llmCalls, repairUsed, hadToolFailure, writeExecuted>>
      BY <2>4 DEF Ending, Finalize, SafeFallback, RequestApproval, RejectApproval
    <3>2. \E step \in Steps : events' = Append(events, step)
      BY <2>4 DEF Ending, Finalize, SafeFallback, RequestApproval, RejectApproval,
                  Record, Steps
    <3>3. QED
      BY <2>1, <3>1, <3>2, AppendKeeps
  <2>5. CASE Resume
    <3>1. UNCHANGED graphVars
      BY <2>5 DEF Resume
    <3>2. SubSeq(events, 1, Len(events)) = events
      BY <2>1
    <3>3. QED
      BY <2>1, <3>1, <3>2 DEF graphVars
  <2>6. QED
    BY <2>2, <2>3, <2>4, <2>5 DEF Next, Invoke
<1>2. Spec => [][Kept]_vars
  BY Inductive, <1>1, PTL DEF Spec
<1>3. QED
  BY <1>2 DEF BudgetsSurviveApproval
----
\* The observations of one call.
ObservationsOf(obs, c) == {i \in DOMAIN obs : obs[i].call = c}

\* One more observation counts for its own call and for no other.
LEMMA CountedOnce ==
    ASSUME NEW obs \in Seq([call : Calls, ok : BOOLEAN]), NEW c \in Calls,
           NEW entry \in [call : Calls, ok : BOOLEAN]
    PROVE  /\ Cardinality(ObservationsOf(obs, c)) \in Nat
           /\ Cardinality(ObservationsOf(Append(obs, entry), c)) =
                Cardinality(ObservationsOf(obs, c)) + (IF entry.call = c THEN 1 ELSE 0)
<1> DEFINE more == Append(obs, entry)
           earlier == ObservationsOf(obs, c)
           after == ObservationsOf(more, c)
           last == Len(obs) + 1
<1>1. /\ Len(obs) \in Nat /\ DOMAIN obs = 1 .. Len(obs)
      /\ DOMAIN more = 1 .. last
      /\ \A i \in 1 .. Len(obs) : more[i] = obs[i]
      /\ more[last] = entry
  OBVIOUS
<1>2. earlier \in SUBSET (1 .. Len(obs)) /\ last \notin earlier
  BY <1>1 DEF ObservationsOf
<1>3. after = IF entry.call = c THEN earlier \cup {last} ELSE earlier
  <2>1. 1 .. last = (1 .. Len(obs)) \cup {last}
    BY <1>1
  <2> HIDE DEF more, last
  <2>2. QED
    BY <1>1, <2>1 DEF ObservationsOf
<1> HIDE DEF earlier, after, last
<1>4. IsFiniteSet(earlier) /\ Cardinality(earlier) \in Nat
  <2>1. IsFiniteSet(1 .. Len(obs))
    BY <1>1, FS_Interval
  <2>2. IsFiniteSet(earlier)
    BY <1>2, <2>1, FS_Subset
  <2>3. QED
    BY <2>2, FS_CardinalityType
<1>5. Cardinality(earlier \cup {last}) = Cardinality(earlier) + 1
  BY <1>2, <1>4, FS_AddElement
<1>6. Cardinality(after) = Cardinality(earlier) + (IF entry.call = c THEN 1 ELSE 0)
  <2>1. CASE entry.call = c
    BY <1>3, <1>5, <2>1
  <2>2. CASE entry.call # c
    BY <1>3, <1>4, <2>2
  <2>3. QED
    BY <2>1, <2>2
<1>7. QED
  BY <1>4, <1>6 DEF earlier, after

\* A tool node records the call whose change of the repository it makes.
LEMMA RecordedStep == HInv /\ AppliedIsRecorded /\ Next => AppliedIsRecorded'
<1> SUFFICES ASSUME HInv, AppliedIsRecorded, Next PROVE AppliedIsRecorded'
  OBVIOUS
<1>1. CASE Tool
  <2>1. PICK ok \in BOOLEAN : ToolReturns(ok)
    BY <1>1 DEF Tool, ToolReads, ToolWriteRefused, ToolWrites, ToolWriteBreaks
  <2> DEFINE entry == [call |-> pending, ok |-> ok]
  <2>2. observations' = Append(observations, entry)
    BY <2>1 DEF ToolReturns
  <2>3. /\ pending \in Calls
        /\ applied' = applied \/ (pending \in WriteCalls /\ TakesEffect(pending))
    BY <1>1 DEF Tool, ToolReads, ToolWriteRefused, ToolWrites, ToolWriteBreaks, Calls
  <2>4. entry \in [call : Calls, ok : BOOLEAN] /\ entry.call = pending
    BY <2>3
  <2> HIDE DEF entry
  <2> SUFFICES ASSUME NEW c \in WriteCalls
               PROVE  applied'[c] <= Cardinality(ObservationsOf(observations', c))
    BY DEF AppliedIsRecorded, ObservationsOf
  <2>5. observations \in Seq([call : Calls, ok : BOOLEAN]) /\ c \in Calls
    BY DEF HInv, IInv, TypeOK, Calls
  <2>6. /\ Cardinality(ObservationsOf(observations, c)) \in Nat
        /\ Cardinality(ObservationsOf(observations', c)) =
             Cardinality(ObservationsOf(observations, c)) + (IF pending = c THEN 1 ELSE 0)
    BY <2>2, <2>4, <2>5, CountedOnce
  <2>7. applied[c] \in Nat /\ applied[c] <= Cardinality(ObservationsOf(observations, c))
    BY DEF HInv, IInv, TypeOK, AppliedIsRecorded, ObservationsOf
  <2>8. applied'[c] = applied[c] \/ (pending = c /\ applied'[c] = applied[c] + 1)
    BY <2>3 DEF HInv, IInv, TypeOK, TakesEffect
  <2>9. QED
    BY <2>6, <2>7, <2>8
<1>2. CASE Model \/ Ending \/ Resume
  <2>1. UNCHANGED <<observations, applied>>
    BY <1>2 DEF Model, ModelRaises, ModelRepairs, ModelInvalid, ModelAnswers,
                ModelCallsTool, ModelCalled, Ending, Finalize, SafeFallback,
                RequestApproval, RejectApproval, Resume, graphVars, executorVars
  <2>2. QED
    BY <2>1 DEF AppliedIsRecorded
<1>3. QED
  BY <1>1, <1>2 DEF Next, Invoke

\* AppliedIsRecorded: no write tool changes the repository without an
\* observation of that call, not even one that reports a failure afterwards.
THEOREM ChangesAreRecorded == Spec => []AppliedIsRecorded
<1>1. Init => AppliedIsRecorded
  <2> SUFFICES ASSUME Init, NEW c \in WriteCalls
               PROVE  applied[c]
                        <= Cardinality({i \in DOMAIN observations : observations[i].call = c})
    BY DEF AppliedIsRecorded
  <2>1. {i \in DOMAIN observations : observations[i].call = c} = {}
    BY DEF Init
  <2>2. applied[c] = 0
    BY DEF Init
  <2>3. QED
    BY <2>1, <2>2, FS_EmptySet
<1>2. HInv /\ AppliedIsRecorded /\ [Next]_vars => AppliedIsRecorded'
  <2>1. AppliedIsRecorded /\ UNCHANGED vars => AppliedIsRecorded'
    BY DEF AppliedIsRecorded, vars, graphVars, executorVars
  <2>2. QED
    BY <2>1, RecordedStep
<1>3. QED
  BY <1>1, <1>2, Inductive, PTL DEF Spec

----
(***************************************************************************)
(* WriteExecution.                                                         *)
(***************************************************************************)
USE WritesAssumption

\* A step of one write, of its executor or of a rollback of its snapshot.
Acts(w) == Snapshot(w) \/ Execute(w) \/ Report(w) \/ Rollback(w) \/ Crash(w)

\* The manifest is written last, before the first change of a file, and no
\* snapshot can be rolled back without it.
SnapshotFirst ==
    \A w \in Writes :
        /\ Len(backups[w]) <= Len(Declared[w])
        /\ manifest[w] => Len(backups[w]) = Len(Declared[w])
        /\ at[w] \in {"new", "backup"} => ~manifest[w]
        /\ at[w] \in {"write", "restore", "diff", "undo"} => manifest[w]
        /\ told[w] \in {"done", "stuck", "undone"} => manifest[w]

\* A change of w in file f can be undone by the snapshot of w, or was made by a
\* command that has changed more than it declares.
Traced(w, f) ==
    /\ manifest[w]
    /\ f \in Affected(w) \/ w \notin Patches
    /\ Len(backups[w]) = Len(Declared[w])
    /\ \A i \in DOMAIN backups[w] : w \notin backups[w][i]

\* The same of the changes that other writes have backed up: a rollback of
\* theirs puts them back into the file, long after w itself was rolled back.
BackupsTraced ==
    \A v \in Writes : \A i \in DOMAIN backups[v] :
        \A w \in backups[v][i] : Traced(w, Declared[v][i])

\* The stages of a write: when its snapshot is empty, when nothing of it has been
\* written or rolled back, and that a write which began later has seen it end.
StagesSoFar ==
    \A w \in Writes :
        /\ at[w] = "new" => backups[w] = <<>>
        /\ at[w] \in {"new", "backup"} => wrote[w] = {}
        /\ at[w] \in {"new", "backup", "write", "diff"} \/ Reported(w) => ~RolledBack(w)
        /\ told[w] \in {"restored", "stuck", "undone"} => at[w] \in {"ended", "undo"}
        /\ \A v \in Writes : w \in before[v] => at[w] \in {"ended", "undo"}

\* A rollback leaves the files clean that it has passed.
RestoredSoFar ==
    \A w \in Writes : \A i \in DOMAIN Declared[w] : OthersStay(w, Declared[w][i]) =>
        /\ Restoring(w) /\ i < cursor[w] => w \notin repo[Declared[w][i]]
        /\ at[w] = "ended" /\ told[w] \in {"restored", "undone"} =>
              w \notin repo[Declared[w][i]]

\* The change of w in file f is there, or the process of another write has overwritten it.
Kept(w, f) == w \in repo[f] \/ <<w, f>> \in lost

\* From the moment git apply writes a file, the patch is in it; ...
PatchSoFar ==
    \A w \in Patches : at[w] \in {"write", "diff"} \/ Reported(w) =>
        \A f \in wrote[w] : f \in Affected(w) /\ Undisturbed(w, f) => Kept(w, f)

\* ... when git apply has ended, it is in every file it declares; ...
PatchIsWhole ==
    \A w \in Patches : at[w] = "diff" \/ Reported(w) => wrote[w] = Affected(w)

\* ... and it is in the backups of every write that began later: their rollbacks
\* put it back.
BackupsKeep ==
    \A w \in Patches, v \in Writes : Reported(w) /\ v # w /\ w \in before[v] =>
        \A i \in DOMAIN backups[v] :
            Declared[v][i] \in Affected(w) /\ Undisturbed(w, Declared[v][i]) =>
                w \in backups[v][i] \/ <<w, Declared[v][i]>> \in lost

\* The inductive invariant.
WInv ==
    /\ WriteTypeOK
    /\ SnapshotFirst
    /\ ChangesAreRecoverable
    /\ BackupsTraced
    /\ StagesSoFar
    /\ RestoredSoFar
    /\ PatchSoFar
    /\ PatchIsWhole
    /\ BackupsKeep

----
\* The declared files of a write.
LEMMA DeclaredIs ==
    ASSUME NEW w \in Writes
    PROVE  /\ Declared[w] \in Seq(Files)
           /\ Len(Declared[w]) \in Nat
           /\ DOMAIN Declared[w] = 1 .. Len(Declared[w])
           /\ \A i \in DOMAIN Declared[w] : Declared[w][i] \in Files /\ Declared[w][i] \in Affected(w)
           /\ \A f \in Affected(w) : f \in Files /\ \E i \in DOMAIN Declared[w] : f = Declared[w][i]
<1>1. Declared[w] \in Seq(Files)
  OBVIOUS
<1>2. /\ Len(Declared[w]) \in Nat
      /\ DOMAIN Declared[w] = 1 .. Len(Declared[w])
      /\ \A i \in DOMAIN Declared[w] : Declared[w][i] \in Files
  BY <1>1, LenProperties
<1>3. QED
  BY <1>1, <1>2 DEF Affected, ToSet

\* The backups of a write.
LEMMA BackupsAre ==
    ASSUME WriteTypeOK, NEW w \in Writes
    PROVE  /\ backups[w] \in Seq(Content)
           /\ Len(backups[w]) \in Nat
           /\ DOMAIN backups[w] = 1 .. Len(backups[w])
           /\ \A i \in DOMAIN backups[w] : backups[w][i] \in Content
<1>1. backups[w] \in Seq(Content)
  BY DEF WriteTypeOK
<1>2. QED
  BY <1>1, LenProperties

\* Copying one more declared file.
LEMMA OneMoreBackup ==
    ASSUME WriteTypeOK, NEW w \in Writes, Backup(w), Len(backups[w]) <= Len(Declared[w])
    PROVE  LET f == Declared[w][Len(backups[w]) + 1]
           IN  /\ f \in Files /\ f \in Affected(w)
               /\ backups' \in [Writes -> Seq(Content)]
               /\ Len(backups'[w]) = Len(backups[w]) + 1
               /\ Len(backups'[w]) <= Len(Declared[w])
               /\ DOMAIN backups'[w] = 1 .. Len(backups[w]) + 1
               /\ \A i \in 1 .. Len(backups[w]) : backups'[w][i] = backups[w][i]
               /\ backups'[w][Len(backups[w]) + 1] = repo[f]
               /\ \A v \in Writes \ {w} : backups'[v] = backups[v]
<1> DEFINE f == Declared[w][Len(backups[w]) + 1]
<1>1. Len(backups[w]) + 1 \in DOMAIN Declared[w]
  BY BackupsAre, DeclaredIs DEF Backup
<1>2. f \in Files /\ f \in Affected(w) /\ repo[f] \in Content
  BY <1>1, DeclaredIs DEF WriteTypeOK
<1>3. backups' = [backups EXCEPT ![w] = Append(backups[w], repo[f])]
  BY DEF Backup, WriteTypeOK
<1> HIDE DEF f
<1>4. /\ Append(backups[w], repo[f]) \in Seq(Content)
      /\ Len(Append(backups[w], repo[f])) = Len(backups[w]) + 1
      /\ DOMAIN Append(backups[w], repo[f]) = 1 .. Len(backups[w]) + 1
      /\ \A i \in 1 .. Len(backups[w]) : Append(backups[w], repo[f])[i] = backups[w][i]
      /\ Append(backups[w], repo[f])[Len(backups[w]) + 1] = repo[f]
  BY <1>2, BackupsAre, AppendProperties, LenProperties
<1>5. backups'[w] = Append(backups[w], repo[f]) /\ \A v \in Writes \ {w} : backups'[v] = backups[v]
  BY <1>3 DEF WriteTypeOK
<1>6. Len(backups[w]) + 1 <= Len(Declared[w])
  BY <1>1, DeclaredIs
<1>7. backups' \in [Writes -> Seq(Content)]
  BY <1>3, <1>4 DEF WriteTypeOK
<1>8. QED
  BY <1>2, <1>4, <1>5, <1>6, <1>7 DEF f
----
\* Every step keeps the types.
LEMMA WriteTypeStep ==
    ASSUME WInv, NEW w \in Writes, Acts(w)
    PROVE  WriteTypeOK'
<1> USE DEF WInv, WriteTypeOK, Move, Tell, Stages, Answers, Content, history
<1>1. CASE Refuse(w)
  BY <1>1 DEF Refuse
<1>2. CASE Begin(w)
  BY <1>2 DEF Begin
<1>3. CASE Backup(w)
  BY <1>3, OneMoreBackup DEF Backup, SnapshotFirst
<1>4. CASE BackupFails(w)
  BY <1>4 DEF BackupFails
<1>5. CASE WriteManifest(w)
  BY <1>5 DEF WriteManifest
<1>6. CASE ChangeFile(w)
  <2>1. PICK f \in Reach(w) : \E content \in Outcomes(w, f) :
           /\ repo' = [repo EXCEPT ![f] = content]
           /\ wrote' = [wrote EXCEPT ![w] = IF w \in Patches THEN @ \cup {f} ELSE @]
           /\ lost' = lost \cup (repo[f] \ content) \X {f}
    BY <1>6 DEF ChangeFile
  <2>2. PICK content \in Outcomes(w, f) :
           /\ repo' = [repo EXCEPT ![f] = content]
           /\ wrote' = [wrote EXCEPT ![w] = IF w \in Patches THEN @ \cup {f} ELSE @]
           /\ lost' = lost \cup (repo[f] \ content) \X {f}
    BY <2>1
  <2>3. f \in Files
    BY DeclaredIs DEF Reach
  <2>4. content \in Content /\ repo[f] \in Content
    BY <2>3 DEF Outcomes
  <2>5. repo' \in [Files -> Content] /\ wrote' \in [Writes -> SUBSET Files]
    BY <2>2, <2>3, <2>4
  <2>6. lost' \subseteq Writes \X Files
    BY <2>2, <2>3, <2>4
  <2>7. QED
    BY <1>6, <2>5, <2>6 DEF ChangeFile
<1>7. CASE WriteEnds(w)
  BY <1>7 DEF WriteEnds
<1>8. CASE WriteFails(w)
  BY <1>8 DEF WriteFails
<1>9. CASE ApplyTimesOut(w)
  BY <1>9 DEF ApplyTimesOut
<1>10. CASE ReturnDiff(w)
  BY <1>10 DEF ReturnDiff
<1>11. CASE DiffFails(w)
  BY <1>11 DEF DiffFails
<1>12. CASE Undo(w)
  BY <1>12 DEF Undo
<1>13. CASE Restore(w)
  <2>1. cursor[w] \in DOMAIN Declared[w] /\ cursor[w] \in DOMAIN backups[w]
    BY <1>13, DeclaredIs, BackupsAre DEF Restore, Restoring, SnapshotFirst
  <2>2. Declared[w][cursor[w]] \in Files /\ backups[w][cursor[w]] \in Content
    BY <2>1, DeclaredIs, BackupsAre
  <2>3. repo' \in [Files -> Content]
    BY <1>13, <2>2 DEF Restore
  <2>4. QED
    BY <1>13, <2>3 DEF Restore
<1>14. CASE RestoreEnds(w)
  BY <1>14 DEF RestoreEnds
<1>15. CASE RestoreFails(w)
  BY <1>15 DEF RestoreFails
<1>16. CASE Crash(w)
  BY <1>16 DEF Crash
<1>17. QED
  BY <1>1, <1>2, <1>3, <1>4, <1>5, <1>6, <1>7, <1>8, <1>9, <1>10, <1>11, <1>12, <1>13, <1>14, <1>15, <1>16
     DEF Acts, Snapshot, Execute, Report, Rollback

\* No step changes a file, or lets one be restored, before the snapshot is complete.
LEMMA FirstStep ==
    ASSUME WInv, NEW w \in Writes, Acts(w)
    PROVE  SnapshotFirst'
<1> USE DEF WInv, SnapshotFirst, WriteTypeOK, Move, Tell, Stages, Answers, Restoring
<1>1. CASE Refuse(w)
  BY <1>1 DEF Refuse
<1>2. CASE Begin(w)
  BY <1>2 DEF Begin
<1>3. CASE Backup(w)
  BY <1>3, OneMoreBackup DEF Backup
<1>4. CASE BackupFails(w)
  <2>1. \A v \in Writes : Len(backups[v]) \in Nat /\ Len(Declared[v]) \in Nat
    BY DeclaredIs, BackupsAre
  <2>2. Len(backups'[w]) = 0
    BY <1>4 DEF BackupFails
  <2>3. QED
    BY <1>4, <2>1, <2>2, DeclaredIs DEF BackupFails
<1>5. CASE WriteManifest(w)
  BY <1>5 DEF WriteManifest
<1>6. CASE ChangeFile(w)
  BY <1>6 DEF ChangeFile
<1>7. CASE WriteEnds(w)
  BY <1>7 DEF WriteEnds
<1>8. CASE WriteFails(w)
  BY <1>8 DEF WriteFails
<1>9. CASE ApplyTimesOut(w)
  BY <1>9 DEF ApplyTimesOut
<1>10. CASE ReturnDiff(w)
  BY <1>10 DEF ReturnDiff
<1>11. CASE DiffFails(w)
  BY <1>11 DEF DiffFails
<1>12. CASE Undo(w)
  BY <1>12 DEF Undo
<1>13. CASE Restore(w)
  BY <1>13 DEF Restore
<1>14. CASE RestoreEnds(w)
  BY <1>14 DEF RestoreEnds
<1>15. CASE RestoreFails(w)
  BY <1>15 DEF RestoreFails
<1>16. CASE Crash(w)
  BY <1>16 DEF Crash
<1>17. QED
  BY <1>1, <1>2, <1>3, <1>4, <1>5, <1>6, <1>7, <1>8, <1>9, <1>10, <1>11, <1>12, <1>13, <1>14, <1>15, <1>16
     DEF Acts, Snapshot, Execute, Report, Rollback

\* What a snapshot says of a change stays true: its backups are not touched
\* once its manifest is written.
LEMMA TracedStays ==
    ASSUME WInv, NEW w \in Writes, Acts(w), NEW v \in Writes, NEW f, Traced(v, f)
    PROVE  Traced(v, f)'
<1>1. manifest[v] /\ at[v] \notin {"new", "backup"}
  BY DEF Traced, WInv, SnapshotFirst
<1>2. /\ manifest'[v]
      /\ backups'[v] = backups[v]
  BY <1>1 DEF WInv, WriteTypeOK, Acts, Snapshot, Execute, Report, Rollback, Refuse, Begin, Backup,
              BackupFails, WriteManifest, ChangeFile, WriteEnds, WriteFails, ApplyTimesOut,
              ReturnDiff, DiffFails, Undo, Restore, RestoreEnds, RestoreFails, Crash, Move
<1>3. QED
  BY <1>2 DEF Traced

\* A step of one write leaves what belongs to the others alone.
LEMMA OthersUntouched ==
    ASSUME WInv, NEW w \in Writes, Acts(w), NEW v \in Writes \ {w}
    PROVE  /\ at'[v] = at[v] /\ told'[v] = told[v] /\ cursor'[v] = cursor[v]
           /\ backups'[v] = backups[v] /\ wrote'[v] = wrote[v] /\ before'[v] = before[v]
<1>1. CASE Snapshot(w)
  BY <1>1 DEF Snapshot, Begin, Backup, BackupFails, WriteManifest, Move, Tell, history, WInv, WriteTypeOK
<1>2. CASE Execute(w)
  BY <1>2 DEF Execute, ChangeFile, WriteEnds, WriteFails, ApplyTimesOut, Move, Tell, history,
              WInv, WriteTypeOK
<1>3. CASE Report(w)
  BY <1>3 DEF Report, Refuse, ReturnDiff, DiffFails, Move, Tell, history, WInv, WriteTypeOK
<1>4. CASE Rollback(w) \/ Crash(w)
  BY <1>4 DEF Rollback, Undo, Restore, RestoreEnds, RestoreFails, Crash, Move, Tell, history,
              WInv, WriteTypeOK
<1>5. QED
  BY <1>1, <1>2, <1>3, <1>4 DEF Acts

\* What has been overwritten stays known.
LEMMA LostStays ==
    ASSUME NEW w \in Writes, Acts(w)
    PROVE  lost \subseteq lost'
BY DEF Acts, Snapshot, Execute, Report, Rollback, Refuse, Begin, Backup, BackupFails,
         WriteManifest, ChangeFile, WriteEnds, WriteFails, ApplyTimesOut, ReturnDiff, DiffFails,
         Undo, Restore, RestoreEnds, RestoreFails, Crash, Move, Tell, history

\* Only the first step of a write changes what it has seen end.
LEMMA BeforeStays ==
    ASSUME WInv, NEW w \in Writes, Acts(w)
    PROVE  \/ before' = before
           \/ /\ at[w] = "new" /\ backups' = backups
              /\ before' = [before EXCEPT ![w] = {v \in Writes : at[v] = "ended"}]
BY DEF Acts, Snapshot, Execute, Report, Rollback, Refuse, Begin, Backup, BackupFails,
         WriteManifest, ChangeFile, WriteEnds, WriteFails, ApplyTimesOut, ReturnDiff, DiffFails,
         Undo, Restore, RestoreEnds, RestoreFails, Crash, Move, Tell, history

\* What has been rolled back remains so, and a restored file makes it so.
LEMMA RolledBackStays ==
    ASSUME WInv, NEW w \in Writes, Acts(w)
    PROVE  /\ \A v \in Writes : RolledBack(v) => RolledBack(v)'
           /\ Restore(w) => RolledBack(w)'
<1> USE DEF WInv, WriteTypeOK
<1>1. ASSUME NEW v \in Writes \ {w}
      PROVE  RolledBack(v)' <=> RolledBack(v)
  BY <1>1, OthersUntouched DEF RolledBack
<1>2. ASSUME RolledBack(w)
      PROVE  RolledBack(w)'
  <2>1. at[w] \notin {"new", "backup", "write", "diff"} /\ ~Reported(w)
    BY <1>2 DEF StagesSoFar
  <2>2. CASE Undo(w)
    BY <1>2, <2>1, <2>2 DEF Undo, Move, Reported, RolledBack
  <2>3. CASE Restore(w)
    BY <1>2, <2>3 DEF Restore, RolledBack
  <2>4. CASE RestoreEnds(w) \/ RestoreFails(w)
    BY <2>4 DEF RestoreEnds, RestoreFails, Tell, RolledBack
  <2>5. CASE Crash(w)
    <3>1. cursor' = cursor /\ told' = [told EXCEPT ![w] = IF at[w] = "undo" THEN "stuck" ELSE "crashed"]
      BY <2>5 DEF Crash, Tell
    <3>2. CASE at[w] = "undo"
      BY <3>1, <3>2 DEF RolledBack
    <3>3. CASE at[w] # "undo"
      <4>1. told[w] \notin {"restored", "stuck", "undone"}
        BY <2>5, <3>3 DEF Crash, StagesSoFar
      <4>2. QED
        BY <1>2, <3>1, <4>1 DEF RolledBack
    <3>4. QED
      BY <3>2, <3>3
  <2>6. QED
    BY <2>1, <2>2, <2>3, <2>4, <2>5
       DEF Acts, Snapshot, Execute, Report, Rollback, Refuse, Begin, Backup, BackupFails,
           WriteManifest, ChangeFile, WriteEnds, WriteFails, ApplyTimesOut, ReturnDiff,
           DiffFails, Move
<1>3. ASSUME Restore(w)
      PROVE  RolledBack(w)'
  BY <1>3 DEF Restore, RolledBack
<1>4. QED
  BY <1>1, <1>2, <1>3

\* Whoever is undisturbed after a step was so before it.
LEMMA WasUndisturbed ==
    ASSUME WInv, NEW w \in Writes, Acts(w), NEW v \in Writes, NEW f
    PROVE  /\ Undisturbed(v, f)' => Undisturbed(v, f)
           /\ OthersStay(v, f)' => OthersStay(v, f)
<1>1. ASSUME Undisturbed(v, f)', NEW u \in Writes \ {v}, f \in Affected(u), RolledBack(u)
      PROVE  v \in before[u]
  <2>1. v \in before'[u]
    BY <1>1, RolledBackStays DEF Undisturbed
  <2>2. at[u] # "new"
    BY <1>1 DEF WInv, StagesSoFar
  <2>3. before'[u] = before[u]
    BY <2>2, BeforeStays DEF WInv, WriteTypeOK
  <2>4. QED
    BY <2>1, <2>3
<1>2. ASSUME OthersStay(v, f)', NEW u \in Writes \ {v}, f \in Affected(u)
      PROVE  ~RolledBack(u)
  BY <1>2, RolledBackStays DEF OthersStay
<1>3. QED
  BY <1>1, <1>2 DEF Undisturbed, OthersStay

\* Which steps change a file, and to what.
LEMMA FileStep ==
    ASSUME WInv, NEW w \in Writes, Acts(w), NEW f \in Files
    PROVE  \/ repo'[f] = repo[f]
           \/ /\ ChangeFile(w) /\ f \in Reach(w)
              /\ repo'[f] \subseteq repo[f] \cup {w}
              /\ \A v \in repo[f] \ repo'[f] : <<v, f>> \in lost'
              /\ w \in Patches => w \in repo'[f]
           \/ /\ Restore(w)
              /\ f = Declared[w][cursor[w]]
              /\ cursor[w] \in DOMAIN Declared[w] /\ cursor[w] \in DOMAIN backups[w]
              /\ repo'[f] = backups[w][cursor[w]]
<1>1. CASE ChangeFile(w)
  <2>1. PICK g \in Reach(w) : \E content \in Outcomes(w, g) :
           /\ repo' = [repo EXCEPT ![g] = content]
           /\ lost' = lost \cup (repo[g] \ content) \X {g}
    BY <1>1 DEF ChangeFile
  <2>2. PICK content \in Outcomes(w, g) :
           /\ repo' = [repo EXCEPT ![g] = content]
           /\ lost' = lost \cup (repo[g] \ content) \X {g}
    BY <2>1
  <2>3. g \in Files
    BY DeclaredIs DEF Reach
  <2>4. /\ content \subseteq repo[g] \cup {w}
        /\ w \in Patches => w \in content
    BY <2>2 DEF Outcomes
  <2>5. \A v \in repo[g] \ content : <<v, g>> \in lost'
    BY <2>2
  <2>6. CASE f = g
    BY <1>1, <2>2, <2>3, <2>4, <2>5, <2>6 DEF WInv, WriteTypeOK
  <2>7. CASE f # g
    BY <2>2, <2>3, <2>7 DEF WInv, WriteTypeOK
  <2>8. QED
    BY <2>6, <2>7
<1>2. CASE Restore(w)
  <2>1. cursor[w] \in DOMAIN Declared[w] /\ cursor[w] \in DOMAIN backups[w]
    BY <1>2, DeclaredIs, BackupsAre DEF Restore, Restoring, WInv, WriteTypeOK, SnapshotFirst
  <2>2. QED
    BY <1>2, <2>1 DEF Restore, WInv, WriteTypeOK
<1>3. CASE UNCHANGED repo
  BY <1>3
<1>4. QED
  BY <1>1, <1>2, <1>3
     DEF Acts, Snapshot, Execute, Report, Rollback, Refuse, Begin, Backup, BackupFails,
         WriteManifest, WriteEnds, WriteFails, ApplyTimesOut, ReturnDiff, DiffFails, Undo,
         RestoreEnds, RestoreFails, Crash

\* Every change that a step leaves in a file has its snapshot.
LEMMA RecoverableStep ==
    ASSUME WInv, NEW w \in Writes, Acts(w)
    PROVE  ChangesAreRecoverable'
<1> SUFFICES ASSUME NEW v \in Writes, NEW f \in Files, v \in repo'[f]
             PROVE  Traced(v, f)'
  BY DEF ChangesAreRecoverable, Traced
<1>1. Traced(v, f)
  <2>1. CASE v \in repo[f]
    BY <2>1 DEF WInv, ChangesAreRecoverable, Traced
  <2>2. CASE v \notin repo[f] /\ ChangeFile(w) /\ v = w /\ f \in Reach(w)
    <3>1. manifest[w] /\ Len(backups[w]) = Len(Declared[w])
      BY <2>2 DEF ChangeFile, WInv, SnapshotFirst
    <3>2. \A i \in DOMAIN backups[w] : w \notin backups[w][i]
      BY DEF WInv, BackupsTraced, Traced
    <3>3. f \in Affected(w) \/ w \notin Patches
      BY <2>2 DEF Reach
    <3>4. QED
      BY <2>2, <3>1, <3>2, <3>3 DEF Traced
  <2>3. CASE /\ f = Declared[w][cursor[w]]
             /\ cursor[w] \in DOMAIN backups[w]
             /\ v \in backups[w][cursor[w]]
    BY <2>3 DEF WInv, BackupsTraced
  <2>4. QED
    BY <2>1, <2>2, <2>3, FileStep
<1>2. QED
  BY <1>1, TracedStays

\* Every change that a step backs up has its snapshot.
LEMMA BackupsStep ==
    ASSUME WInv, NEW w \in Writes, Acts(w)
    PROVE  BackupsTraced'
<1> SUFFICES ASSUME NEW v \in Writes, NEW i \in DOMAIN backups'[v], NEW u \in backups'[v][i]
             PROVE  Traced(u, Declared[v][i])'
  BY DEF BackupsTraced, Traced
<1>1. /\ WriteTypeOK /\ Len(backups[v]) <= Len(Declared[v])
      /\ DOMAIN backups[v] = 1 .. Len(backups[v]) /\ Len(backups[v]) \in Nat
  BY BackupsAre DEF WInv, SnapshotFirst
<1>2. u \in Writes /\ Traced(u, Declared[v][i])
  <2>1. CASE i \in DOMAIN backups[v] /\ backups'[v][i] = backups[v][i]
    BY <1>1, <2>1, BackupsAre DEF WInv, BackupsTraced, Content
  <2>2. CASE v = w /\ Backup(w) /\ i = Len(backups[w]) + 1
    <3> DEFINE f == Declared[w][Len(backups[w]) + 1]
    <3>1. f \in Files /\ backups'[w][Len(backups[w]) + 1] = repo[f]
      BY <1>1, <2>2, OneMoreBackup
    <3>2. u \in repo[f] /\ repo[f] \in Content
      BY <1>1, <2>2, <3>1 DEF WriteTypeOK
    <3>3. QED
      BY <2>2, <3>1, <3>2 DEF WInv, ChangesAreRecoverable, Traced, Content
  <2>3. CASE v = w /\ Backup(w) /\ i # Len(backups[w]) + 1
    BY <1>1, <2>1, <2>3, OneMoreBackup
  <2>4. CASE v = w /\ BackupFails(w)
    BY <2>4 DEF BackupFails, WInv, WriteTypeOK
  <2>5. CASE ~(v = w /\ (Backup(w) \/ BackupFails(w)))
    <3>1. backups'[v] = backups[v]
      BY <2>5 DEF WInv, WriteTypeOK, Acts, Snapshot, Execute, Report, Rollback, Refuse, Begin, Backup,
              BackupFails, WriteManifest, ChangeFile, WriteEnds, WriteFails, ApplyTimesOut,
              ReturnDiff, DiffFails, Undo, Restore, RestoreEnds, RestoreFails, Crash
    <3>2. QED
      BY <2>1, <3>1
  <2>6. QED
    BY <2>2, <2>3, <2>4, <2>5
<1>3. QED
  BY <1>2, TracedStays

\* The stages go on as they should.
LEMMA StagesStep ==
    ASSUME WInv, NEW w \in Writes, Acts(w)
    PROVE  StagesSoFar'
<1> USE DEF WInv, WriteTypeOK
<1> DEFINE Sound(v) ==
      /\ at[v] = "new" => backups[v] = <<>>
      /\ at[v] \in {"new", "backup"} => wrote[v] = {}
      /\ at[v] \in {"new", "backup", "write", "diff"} \/ Reported(v) => ~RolledBack(v)
      /\ told[v] \in {"restored", "stuck", "undone"} => at[v] \in {"ended", "undo"}
<1>1. ASSUME NEW v \in Writes
      PROVE  Sound(v)'
  <2>1. Sound(v)
    BY DEF StagesSoFar
  <2>2. CASE v # w
    BY <2>1, <2>2, OthersUntouched DEF Reported, RolledBack
  <2>3. CASE v = w
    <3> USE <2>1, <2>3 DEF Move, Tell, Reported, RolledBack, history
    <3>1. CASE Refuse(w)
      BY <3>1 DEF Refuse
    <3>2. CASE Begin(w)
      BY <3>2 DEF Begin
    <3>3. CASE Backup(w)
      BY <3>3 DEF Backup
    <3>4. CASE BackupFails(w)
      BY <3>4 DEF BackupFails
    <3>5. CASE WriteManifest(w)
      BY <3>5 DEF WriteManifest
    <3>6. CASE ChangeFile(w)
      BY <3>6 DEF ChangeFile
    <3>7. CASE WriteEnds(w)
      BY <3>7 DEF WriteEnds
    <3>8. CASE WriteFails(w)
      BY <3>8 DEF WriteFails
    <3>9. CASE ApplyTimesOut(w)
      BY <3>9 DEF ApplyTimesOut
    <3>10. CASE ReturnDiff(w)
      BY <3>10 DEF ReturnDiff
    <3>11. CASE DiffFails(w)
      BY <3>11 DEF DiffFails
    <3>12. CASE Undo(w)
      BY <3>12 DEF Undo
    <3>13. CASE Restore(w)
      BY <3>13 DEF Restore, Restoring
    <3>14. CASE RestoreEnds(w)
      BY <3>14 DEF RestoreEnds, Restoring
    <3>15. CASE RestoreFails(w)
      BY <3>15 DEF RestoreFails
    <3>16. CASE Crash(w)
      BY <3>16 DEF Crash
    <3>17. QED
      BY <3>1, <3>2, <3>3, <3>4, <3>5, <3>6, <3>7, <3>8, <3>9, <3>10, <3>11, <3>12, <3>13,
         <3>14, <3>15, <3>16 DEF Acts, Snapshot, Execute, Report, Rollback
  <2>4. QED
    BY <2>2, <2>3
<1>2. ASSUME NEW v \in Writes, NEW u \in Writes, v \in before'[u]
      PROVE  at'[v] \in {"ended", "undo"}
  <2>1. at[v] \in {"ended", "undo"}
    <3>1. CASE before' = before
      BY <1>2, <3>1 DEF StagesSoFar
    <3>2. CASE before' = [before EXCEPT ![w] = {x \in Writes : at[x] = "ended"}]
      <4>1. before'[u] = IF u = w THEN {x \in Writes : at[x] = "ended"} ELSE before[u]
        BY <3>2
      <4>2. QED
        BY <1>2, <4>1 DEF StagesSoFar
    <3>3. QED
      BY <3>1, <3>2, BeforeStays
  <2>2. CASE v # w
    BY <2>1, <2>2, OthersUntouched
  <2>3. CASE v = w
    BY <2>1, <2>3
       DEF Acts, Snapshot, Execute, Report, Rollback, Refuse, Begin, Backup, BackupFails,
           WriteManifest, ChangeFile, WriteEnds, WriteFails, ApplyTimesOut, ReturnDiff,
           DiffFails, Undo, Restore, RestoreEnds, RestoreFails, Crash, Move
  <2>4. QED
    BY <2>2, <2>3
<1>3. QED
  BY <1>1, <1>2 DEF StagesSoFar

\* A rollback makes progress through its files, and its files stay clean.
LEMMA RestoredStep ==
    ASSUME WInv, NEW w \in Writes, Acts(w)
    PROVE  RestoredSoFar'
<1> SUFFICES ASSUME NEW v \in Writes, NEW i \in DOMAIN Declared[v],
                    OthersStay(v, Declared[v][i])',
                    \/ Restoring(v)' /\ i < cursor'[v]
                    \/ at'[v] = "ended" /\ told'[v] \in {"restored", "undone"}
             PROVE  v \notin repo'[Declared[v][i]]
  BY DEF RestoredSoFar
<1>1. Declared[v][i] \in Files /\ Declared[v][i] \in Affected(v)
  BY DeclaredIs
<1>2. OthersStay(v, Declared[v][i])
  BY WasUndisturbed
<1>3. CASE v # w
  <2>1. v \notin repo[Declared[v][i]]
    BY <1>2, <1>3, OthersUntouched DEF WInv, RestoredSoFar, Restoring
  <2>2. ~(Restore(w) /\ Declared[v][i] = Declared[w][cursor[w]] /\ cursor[w] \in DOMAIN Declared[w])
    BY <1>3, DeclaredIs, RolledBackStays DEF OthersStay
  <2>3. QED
    BY <1>1, <1>3, <2>1, <2>2, FileStep
<1>4. CASE v = w
  <2>1. CASE Restore(w)
    <3>1. /\ cursor' = [cursor EXCEPT ![w] = cursor[w] + 1]
          /\ at' = at /\ Restoring(w)
          /\ cursor[w] \in Nat /\ i \in Nat
      BY <1>4, <2>1, DeclaredIs DEF Restore, WInv, WriteTypeOK
    <3>2. i < cursor[w] + 1
      BY <1>4, <3>1 DEF WInv, WriteTypeOK, Restoring
    <3>3. CASE i < cursor[w]
      <4>1. w \notin repo[Declared[w][i]]
        BY <1>2, <1>4, <3>1, <3>3 DEF WInv, RestoredSoFar
      <4>2. \A j \in DOMAIN backups[w] : w \notin backups[w][j]
        BY DEF WInv, BackupsTraced, Traced
      <4>3. ~ChangeFile(w)
        BY <2>1 DEF Restore, Restoring, ChangeFile
      <4>4. QED
        BY <1>1, <1>4, <4>1, <4>2, <4>3, FileStep
    <3>4. CASE i = cursor[w]
      <4>1. \A j \in DOMAIN backups[w] : w \notin backups[w][j]
        BY DEF WInv, BackupsTraced, Traced
      <4>2. i \in DOMAIN backups[w]
        BY <1>4, <3>1, DeclaredIs, BackupsAre DEF WInv, SnapshotFirst, Restoring
      <4>3. repo'[Declared[w][i]] = backups[w][i]
        BY <1>1, <1>4, <2>1, <3>4 DEF Restore, WInv, WriteTypeOK
      <4>4. QED
        BY <1>4, <4>1, <4>2, <4>3
    <3>5. QED
      BY <3>1, <3>2, <3>3, <3>4
  <2>2. CASE RestoreEnds(w)
    <3>1. /\ Restoring(w) /\ cursor[w] > Len(Declared[w]) /\ repo' = repo
      BY <2>2 DEF RestoreEnds
    <3>2. i < cursor[w]
      BY <1>4, <3>1, DeclaredIs DEF WInv, WriteTypeOK
    <3>3. QED
      BY <1>2, <1>4, <3>1, <3>2 DEF WInv, RestoredSoFar
  <2>3. CASE ~Restore(w) /\ ~RestoreEnds(w)
    <3>1. /\ ~(Restoring(v)' /\ i < cursor'[v])
          /\ ~(at'[v] = "ended" /\ told'[v] \in {"restored", "undone"})
      <4>1. i \in Nat /\ i >= 1
        BY DeclaredIs
      <4>2. QED
        BY <1>4, <2>3, <4>1
           DEF WInv, WriteTypeOK, Acts, Snapshot, Execute, Report, Rollback, Refuse, Begin,
               Backup, BackupFails, WriteManifest, ChangeFile, WriteEnds, WriteFails,
               ApplyTimesOut, ReturnDiff, DiffFails, Undo, RestoreFails, Crash, Move, Tell,
               Restoring
    <3>2. QED
      BY <3>1
  <2>4. QED
    BY <2>1, <2>2, <2>3
<1>5. QED
  BY <1>3, <1>4

\* How a patch comes to be written or reported: it was so before, or git apply
\* has just begun, written a file or ended, or the diff was taken, or failed.
LEMMA OwnPatchStep ==
    ASSUME WInv, NEW w \in Writes, Acts(w)
    PROVE  /\ at'[w] = "write" =>
                 \/ at[w] = "backup" /\ wrote' = wrote
                 \/ at[w] = "write" /\ ChangeFile(w)
           /\ at'[w] = "diff" => WriteEnds(w)
           /\ Reported(w)' => at[w] = "diff" /\ UNCHANGED <<repo, wrote, backups, before, lost>>
<1> USE DEF WInv, WriteTypeOK, Move, Tell, Reported, history
<1>1. CASE Snapshot(w)
  BY <1>1 DEF Snapshot, Begin, Backup, BackupFails, WriteManifest
<1>2. CASE Execute(w)
  BY <1>2 DEF Execute, ChangeFile, WriteEnds, WriteFails, ApplyTimesOut
<1>3. CASE Report(w)
  BY <1>3 DEF Report, Refuse, ReturnDiff, DiffFails
<1>4. CASE Rollback(w) \/ Crash(w)
  BY <1>4 DEF Rollback, Undo, Restore, RestoreEnds, RestoreFails, Crash, Restoring
<1>5. QED
  BY <1>1, <1>2, <1>3, <1>4 DEF Acts

\* A file that git apply writes is dealt with.
LEMMA WrittenFiles ==
    ASSUME WInv, NEW w \in Patches, ChangeFile(w), NEW f \in wrote'[w]
    PROVE  \/ f \in wrote[w]
           \/ f \in Files /\ w \in repo'[f]
<1>1. w \in Writes
  OBVIOUS
<1>2. PICK g \in Reach(w) : \E content \in Outcomes(w, g) :
         /\ repo' = [repo EXCEPT ![g] = content]
         /\ wrote' = [wrote EXCEPT ![w] = IF w \in Patches THEN @ \cup {g} ELSE @]
  BY DEF ChangeFile
<1>3. PICK content \in Outcomes(w, g) :
         /\ repo' = [repo EXCEPT ![g] = content]
         /\ wrote' = [wrote EXCEPT ![w] = IF w \in Patches THEN @ \cup {g} ELSE @]
  BY <1>2
<1>4. g \in Files
  BY <1>1, DeclaredIs DEF Reach
<1>5. w \in content
  BY <1>3 DEF Outcomes
<1>6. wrote'[w] = wrote[w] \cup {g} /\ repo'[g] = content
  BY <1>1, <1>3, <1>4 DEF WInv, WriteTypeOK
<1>7. QED
  BY <1>4, <1>5, <1>6

\* What a step of w leaves of another patch in a file, if it does not restore it.
LEMMA KeptStays ==
    ASSUME WInv, NEW w \in Writes, Acts(w), NEW v \in Writes, NEW f \in Files, Kept(v, f),
           ~(Restore(w) /\ f = Declared[w][cursor[w]] /\ cursor[w] \in DOMAIN backups[w])
    PROVE  Kept(v, f)'
BY FileStep, LostStays DEF Kept

\* A patch stays where git apply has written it.
LEMMA PatchStep ==
    ASSUME WInv, NEW w \in Writes, Acts(w)
    PROVE  PatchSoFar'
<1> SUFFICES ASSUME NEW v \in Patches, at'[v] \in {"write", "diff"} \/ Reported(v)',
                    NEW f \in wrote'[v], f \in Affected(v), Undisturbed(v, f)'
             PROVE  Kept(v, f)'
  BY DEF PatchSoFar
<1>1. v \in Writes /\ f \in Files
  BY DeclaredIs
<1>2. Undisturbed(v, f)
  BY <1>1, WasUndisturbed
<1>3. CASE v # w
  <2>1. at[v] \in {"write", "diff"} \/ Reported(v)
    BY <1>1, <1>3, OthersUntouched DEF Reported
  <2>2. f \in wrote[v]
    BY <1>1, <1>3, OthersUntouched
  <2>3. Kept(v, f)
    BY <1>2, <2>1, <2>2 DEF WInv, PatchSoFar
  <2>4. CASE Restore(w) /\ f = Declared[w][cursor[w]] /\ cursor[w] \in DOMAIN backups[w]
    <3>1. cursor[w] \in DOMAIN Declared[w]
      BY <2>4, DeclaredIs DEF Restore, WInv, WriteTypeOK
    <3>2. f \in Affected(w) /\ RolledBack(w)'
      BY <2>4, <3>1, DeclaredIs, RolledBackStays
    <3>3. v \in before'[w] /\ before' = before
      BY <1>1, <1>3, <2>4, <3>2 DEF Undisturbed, Restore, history
    <3>4. Reported(v)
      BY <1>1, <2>1, <3>3 DEF WInv, StagesSoFar
    <3>5. v \in backups[w][cursor[w]] \/ <<v, f>> \in lost
      BY <1>2, <1>3, <2>4, <3>3, <3>4 DEF WInv, BackupsKeep
    <3>6. repo'[f] = backups[w][cursor[w]] /\ lost' = lost
      BY <1>1, <2>4 DEF Restore, history, WInv, WriteTypeOK
    <3>7. QED
      BY <3>5, <3>6 DEF Kept
  <2>5. QED
    BY <1>1, <2>3, <2>4, KeptStays
<1>4. CASE v = w
  <2>1. CASE at[w] = "backup" /\ wrote' = wrote
    BY <1>1, <1>4, <2>1 DEF WInv, StagesSoFar
  <2>2. CASE at[w] = "write" /\ ChangeFile(w)
    <3>1. CASE f \in wrote[w]
      <4>1. Kept(v, f)
        BY <1>2, <1>4, <2>2, <3>1 DEF WInv, PatchSoFar
      <4>2. ~Restore(w)
        BY <2>2 DEF Restore, Restoring
      <4>3. QED
        BY <1>1, <1>4, <4>1, <4>2, KeptStays
    <3>2. CASE w \in repo'[f]
      BY <1>4, <3>2 DEF Kept
    <3>3. QED
      BY <1>4, <2>2, <3>1, <3>2, WrittenFiles
  <2>3. CASE (WriteEnds(w) \/ at[w] = "diff") /\ UNCHANGED <<repo, wrote, lost>>
    BY <1>2, <1>4, <2>3 DEF WriteEnds, Move, WInv, PatchSoFar, Kept
  <2>4. QED
    BY <1>4, <2>1, <2>2, <2>3, OwnPatchStep DEF WriteEnds, history
<1>5. QED
  BY <1>3, <1>4

\* When git apply has ended it has written every file that the patch declares.
LEMMA WholeStep ==
    ASSUME WInv, NEW w \in Writes, Acts(w)
    PROVE  PatchIsWhole'
<1> SUFFICES ASSUME NEW v \in Patches, at'[v] = "diff" \/ Reported(v)'
             PROVE  wrote'[v] = Affected(v)
  BY DEF PatchIsWhole, Affected
<1>1. v \in Writes
  OBVIOUS
<1>2. CASE v # w
  BY <1>1, <1>2, OthersUntouched DEF WInv, PatchIsWhole, Reported
<1>3. CASE v = w
  BY <1>3, OwnPatchStep DEF WriteEnds, WInv, PatchIsWhole
<1>4. QED
  BY <1>2, <1>3

\* Who begins after a patch has ended copies it with the files it shares.
LEMMA BackupsKeepStep ==
    ASSUME WInv, NEW w \in Writes, Acts(w)
    PROVE  BackupsKeep'
<1> SUFFICES ASSUME NEW v \in Patches, NEW u \in Writes \ {v}, Reported(v)', v \in before'[u],
                    NEW i \in DOMAIN backups'[u], Declared[u][i] \in Affected(v),
                    Undisturbed(v, Declared[u][i])'
             PROVE  v \in backups'[u][i] \/ <<v, Declared[u][i]>> \in lost'
  BY DEF BackupsKeep, Affected
<1>1. v \in Writes /\ Declared[u][i] \in Files
  BY DeclaredIs
<1>2. Undisturbed(v, Declared[u][i])
  BY <1>1, WasUndisturbed
<1>3. v # w
  <2>1. SUFFICES ASSUME v = w
                 PROVE  FALSE
    OBVIOUS
  <2>2. at[v] = "diff" /\ before' = before
    BY <2>1, OwnPatchStep
  <2>3. QED
    BY <1>1, <2>2 DEF WInv, StagesSoFar
<1>4. Reported(v)
  BY <1>1, <1>3, OthersUntouched DEF Reported
<1>5. CASE i \in DOMAIN backups[u] /\ backups'[u][i] = backups[u][i] /\ v \in before[u]
  BY <1>2, <1>4, <1>5, LostStays DEF WInv, BackupsKeep
<1>6. CASE u # w
  BY <1>5, <1>6, OthersUntouched
<1>7. CASE u = w
  <2>1. CASE at[w] = "new" /\ backups' = backups
    BY <1>7, <2>1 DEF WInv, StagesSoFar
  <2>2. CASE Backup(w) /\ before' = before
    <3>1. WriteTypeOK /\ Len(backups[w]) <= Len(Declared[w])
      BY DEF WInv, SnapshotFirst
    <3>2. DOMAIN backups[w] = 1 .. Len(backups[w]) /\ Len(backups[w]) \in Nat
      BY <3>1, BackupsAre
    <3>3. CASE i \in DOMAIN backups[w]
      BY <1>5, <1>7, <2>2, <3>1, <3>2, <3>3, OneMoreBackup
    <3>4. CASE i = Len(backups[w]) + 1
      <4>1. backups'[w][i] = repo[Declared[w][i]]
        BY <2>2, <3>1, <3>4, OneMoreBackup
      <4>2. Kept(v, Declared[w][i])
        BY <1>2, <1>4, <1>7 DEF WInv, PatchSoFar, PatchIsWhole
      <4>3. QED
        BY <1>7, <4>1, <4>2, LostStays DEF Kept
    <3>5. QED
      BY <1>7, <2>2, <3>1, <3>2, <3>3, <3>4, OneMoreBackup
  <2>3. CASE BackupFails(w)
    BY <1>7, <2>3 DEF BackupFails, WInv, WriteTypeOK
  <2>4. CASE before' = before /\ ~Backup(w) /\ ~BackupFails(w)
    <3>1. backups' = backups
      BY <2>4
         DEF Acts, Snapshot, Execute, Report, Rollback, Refuse, Begin, Backup, BackupFails,
             WriteManifest, ChangeFile, WriteEnds, WriteFails, ApplyTimesOut, ReturnDiff,
             DiffFails, Undo, Restore, RestoreEnds, RestoreFails, Crash
    <3>2. QED
      BY <1>5, <1>7, <2>4, <3>1
  <2>5. QED
    BY <2>1, <2>2, <2>3, <2>4, BeforeStays
<1>8. QED
  BY <1>6, <1>7
----
\* The invariant holds at all times.
LEMMA Invariance ==
    WriteSpec => []WInv
<1>1. WriteInit => WInv
  <2> SUFFICES ASSUME WriteInit
               PROVE  WInv
    OBVIOUS
  <2>1. WriteTypeOK
    BY DEF WriteInit, WriteTypeOK, Stages, Answers, Content
  <2>2. SnapshotFirst
    BY DeclaredIs DEF WriteInit, SnapshotFirst
  <2>3. ChangesAreRecoverable /\ BackupsTraced
    BY DEF WriteInit, ChangesAreRecoverable, BackupsTraced
  <2>4. StagesSoFar
    BY DEF WriteInit, StagesSoFar, Reported, RolledBack
  <2>5. RestoredSoFar
    BY DEF WriteInit, RestoredSoFar, Restoring
  <2>6. PatchSoFar /\ PatchIsWhole /\ BackupsKeep
    BY DEF WriteInit, PatchSoFar, PatchIsWhole, BackupsKeep, Reported
  <2>7. QED
    BY <2>1, <2>2, <2>3, <2>4, <2>5, <2>6 DEF WInv
<1>2. WInv /\ [WriteNext]_writeVars => WInv'
  <2>1. ASSUME WInv, NEW w \in Writes, Acts(w)
        PROVE  WInv'
    <3>1. WriteTypeOK' /\ SnapshotFirst'
      BY <2>1, WriteTypeStep, FirstStep
    <3>2. ChangesAreRecoverable' /\ BackupsTraced'
      BY <2>1, RecoverableStep, BackupsStep
    <3>3. StagesSoFar' /\ RestoredSoFar'
      BY <2>1, StagesStep, RestoredStep
    <3>4. PatchSoFar' /\ PatchIsWhole' /\ BackupsKeep'
      BY <2>1, PatchStep, WholeStep, BackupsKeepStep
    <3>5. QED
      BY <3>1, <3>2, <3>3, <3>4 DEF WInv
  <2>2. ASSUME WInv, UNCHANGED writeVars
        PROVE  WInv'
    <3> USE <2>2 DEF writeVars, history, WInv
    <3>1. WriteTypeOK'
      BY DEF WriteTypeOK
    <3>2. SnapshotFirst'
      BY DEF SnapshotFirst
    <3>3. ChangesAreRecoverable'
      BY DEF ChangesAreRecoverable
    <3>4. BackupsTraced'
      BY DEF BackupsTraced, Traced
    <3>5. StagesSoFar'
      BY DEF StagesSoFar, Reported, RolledBack
    <3>6. RestoredSoFar'
      BY DEF RestoredSoFar, Restoring, OthersStay, RolledBack
    <3>7. PatchSoFar'
      BY DEF PatchSoFar, Reported, Undisturbed, RolledBack, Kept
    <3>8. PatchIsWhole'
      BY DEF PatchIsWhole, Reported, Affected
    <3>9. BackupsKeep'
      BY DEF BackupsKeep, Reported, Undisturbed, RolledBack
    <3>10. QED
      BY <3>1, <3>2, <3>3, <3>4, <3>5, <3>6, <3>7, <3>8, <3>9
  <2>3. QED
    BY <2>1, <2>2 DEF WriteNext, Acts
<1>3. QED
  BY <1>1, <1>2, PTL DEF WriteSpec

\* WriteTypeOK: every value that a write or a rollback leaves has its type; in
\* particular a rollback never reads past the backups of its snapshot.
THEOREM WriteTypesHold ==
    WriteSpec => []WriteTypeOK
<1>1. WInv => WriteTypeOK
  BY DEF WInv
<1>2. QED
  BY <1>1, Invariance, PTL

\* ChangesAreRecoverable: whatever writes and rollbacks run at the same time,
\* fail or crash, a change that is in the working tree can be rolled back.
THEOREM ChangesAreAlwaysRecoverable ==
    WriteSpec => []ChangesAreRecoverable
<1>1. WInv => ChangesAreRecoverable
  BY DEF WInv
<1>2. QED
  BY <1>1, Invariance, PTL

\* RestoredLeavesNoTrace: the executor that says it has restored the declared
\* files, and the rollback that reports success, tell the truth for good.
THEOREM RestoredFilesAreClean ==
    WriteSpec => []RestoredLeavesNoTrace
<1>1. WInv => RestoredLeavesNoTrace
  BY DeclaredIs DEF WInv, RestoredSoFar, RestoredLeavesNoTrace, OthersStay
<1>2. QED
  BY <1>1, Invariance, PTL

\* AppliedStaysApplied: a patch that was reported, with or without its diff, stays
\* in each of its files until it is rolled back, or the process of another write
\* overwrites it there, or a write that did not begin after it is rolled back.
THEOREM AppliedPatchesStay ==
    WriteSpec => []AppliedStaysApplied
<1>1. WInv => AppliedStaysApplied
  BY DEF WInv, PatchSoFar, PatchIsWhole, Kept, AppliedStaysApplied
<1>2. QED
  BY <1>1, Invariance, PTL
====
