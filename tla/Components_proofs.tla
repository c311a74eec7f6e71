------------------------- MODULE Components_proofs -------------------------
(***************************************************************************)
(* Proofs about the other components of module Components, for all values  *)
(* of their constants.  The invariant that carries a component's           *)
(* properties is defined in the component's own module.                    *)
(***************************************************************************)
EXTENDS Retrieval_proofs

-----------------------------------------------------------------------------
(***************************************************************************)
(* ClaudeGuard.                                                            *)
(***************************************************************************)

\* guard_reason finds one of three reasons, or none.
LEMMA GuardReasons ==
  \A u : Guard!GuardReason(u) \in {"task_tokens", "cache_miss_tokens", "cache_miss_ratio", None}
  BY DEF Guard!GuardReason

\* A run of the child starts with empty pipes, no usage and no reason to stop.
LEMMA GuardInit == part = "guard" /\ Init => Guard!GuardInv
<1> SUFFICES ASSUME part = "guard", Init PROVE Guard!GuardInv
  OBVIOUS
<1>1. Guard!Init
  BY DEF Init
<1>2. Guard!GuardReason(r7) = None
  BY <1>1, GuardAssumption DEF Guard!Init, Guard!GuardReason, Guard!TaskTokens,
     Guard!CacheMissTokens, Guard!CacheInputTokens, Guard!Fields
<1> QED
  BY <1>1, <1>2, GuardAssumption DEF Guard!Init, Guard!GuardInv

\* Every line that is passed on, every guard and the end of the child keep it.
LEMMA GuardStep == Guard!GuardInv /\ Guard!Next => Guard!GuardInv'
<1> SUFFICES ASSUME Guard!GuardInv, Guard!Next PROVE Guard!GuardInv'
  OBVIOUS
<1> USE GuardAssumption DEF Guard!GuardInv
<1>1. CASE Guard!ReadLine
  BY <1>1, GuardReasons DEF Guard!ReadLine
<1>2. CASE Guard!ReadEof
  BY <1>2 DEF Guard!ReadEof
<1>3. CASE Guard!GraceOver
  BY <1>3 DEF Guard!GraceOver
<1>4. CASE Guard!WaitOver
  BY <1>4 DEF Guard!WaitOver
<1>5. CASE Guard!WaitExpires
  BY <1>5 DEF Guard!WaitExpires
<1>6. CASE Guard!Drain
  BY <1>6 DEF Guard!Drain
<1>7. CASE Guard!Tick
  BY <1>7 DEF Guard!Tick
<1>8. CASE Guard!Complain
  BY <1>8 DEF Guard!Complain
<1>9. CASE Guard!CloseStdout
  BY <1>9 DEF Guard!CloseStdout
<1>10. CASE Guard!Exit
  BY <1>10 DEF Guard!Exit
<1>11. CASE \E r \in GuardReports : Guard!Report(r)
  BY <1>11 DEF Guard!Report
<1> QED
  BY <1>1, <1>2, <1>3, <1>4, <1>5, <1>6, <1>7, <1>8, <1>9, <1>10, <1>11
     DEF Guard!Next, Guard!Wrapper

\* The exit code, the log and the usage of the guard agree, and no child
\* outlives it, whatever the limits, the usage and the pipes
\* (run_claude_guarded.py:147).
THEOREM GuardsAreExplained == Spec => [](part = "guard" => Guard!ExitIsExplained)
<1> DEFINE Inv == part = "guard" => Guard!GuardInv
<1>1. Init => Inv
  BY GuardInit
<1>2. Inv /\ [Next]_vars => Inv'
  <2> SUFFICES ASSUME Inv, [Next]_vars, part' = "guard" PROVE Guard!GuardInv'
    OBVIOUS
  <2>1. CASE UNCHANGED vars
    BY <2>1 DEF vars, Guard!GuardInv, Guard!GuardReason, Guard!TaskTokens,
       Guard!CacheMissTokens, Guard!CacheInputTokens
  <2>2. CASE Next
    <3>1. part = "guard" /\ Guard!Next
      BY <2>2 DEF Next
    <3> QED
      BY <3>1, GuardStep
  <2> QED
    BY <2>1, <2>2
<1>3. Inv => (part = "guard" => Guard!ExitIsExplained)
  BY GuardAssumption DEF Guard!GuardInv, Guard!ExitIsExplained
<1> QED
  BY <1>1, <1>2, <1>3, PTL DEF Spec

-----------------------------------------------------------------------------
(***************************************************************************)
(* PatchOutcome.  r1 is phase, r2 args, r4 the suite, r5 the baseline, r6  *)
(* the checkout, r7 the faulty one, r10 the agent's copy, r12 the answer,  *)
(* r13 the rows, r14 the exit code.                                        *)
(***************************************************************************)

\* A new harness has neither rows nor a baseline.
LEMMA OutcomeInit == part = "outcome" /\ Init => Outcome!OutcomeInv
<1> SUFFICES ASSUME part = "outcome", Init PROVE Outcome!OutcomeInv
  OBVIOUS
<1>1. Outcome!Init
  BY DEF Init
<1> QED
  BY <1>1, OutcomeAssumption DEF Outcome!Init, Outcome!OutcomeInv, Outcome!TypeOK,
     Outcome!CheckoutIsKnown, Outcome!GateIsHonest, Outcome!Trees, Outcome!Contents

\* Cardinality is the same in every module.
LEMMA OutcomeCardinality == ASSUME NEW S PROVE Outcome!Cardinality(S) = Cardinality(S)
  BY DEF Outcome!Cardinality, Cardinality

\* While a task is evaluated, what it allows are files, and the source is one.
LEMMA OutcomeAllowedFiles ==
  ASSUME Outcome!TypeOK, r1 \notin {"idle", "next"}
  PROVE  Outcome!Allowed \subseteq OutcomeFiles /\ OutcomeSource \in Outcome!Allowed
<1>1. r4 \in 1 .. OutcomeMaxSuites /\ Len(r13) + 1 \in 1 .. OutcomeTasks
  BY OutcomeAssumption DEF Outcome!TypeOK
<1>2. OutcomeAllows[r4] \in [1 .. OutcomeTasks -> {fs \in SUBSET OutcomeFiles : OutcomeSource \in fs}]
  BY <1>1, OutcomeAssumption
<1> QED
  BY <1>1, <1>2 DEF Outcome!Allowed

\* The smaller of two numbers.
LEMMA OutcomeLesser ==
  ASSUME NEW m \in Int, NEW n \in Int
  PROVE  Outcome!Lesser(m, n) \in Int /\ Outcome!Lesser(m, n) <= n
  BY DEF Outcome!Lesser

\* A score above 25 needs a test that passes.
LEMMA OutcomeScores ==
  ASSUME NEW isApplied \in BOOLEAN, NEW pass \in BOOLEAN, NEW changed \in Nat
  PROVE  /\ Outcome!Score(isApplied, pass, changed) \in Int
         /\ Outcome!Score(isApplied, pass, changed) > 25 => isApplied /\ pass
<1> DEFINE points == 10 + (IF isApplied THEN 15 ELSE 0) + (IF pass THEN 50 ELSE 0)
                       + (IF changed > 0 THEN 10 ELSE 0) + 10 + (IF changed > 0 THEN 5 ELSE 0)
<1>1. points \in Int
  OBVIOUS
<1>2. /\ ~isApplied => Outcome!Score(isApplied, pass, changed) = Outcome!Lesser(points, 10)
      /\ isApplied /\ ~pass => Outcome!Score(isApplied, pass, changed) = Outcome!Lesser(points, 25)
      /\ isApplied /\ pass => Outcome!Score(isApplied, pass, changed) = points
  BY DEF Outcome!Score
<1> HIDE DEF points
<1>3. /\ Outcome!Lesser(points, 10) \in Int /\ Outcome!Lesser(points, 10) <= 10
      /\ Outcome!Lesser(points, 25) \in Int /\ Outcome!Lesser(points, 25) <= 25
  BY <1>1, OutcomeLesser
<1> QED
  BY <1>1, <1>2, <1>3

\* What a row may claim.
LEMMA OutcomeRows ==
  ASSUME Outcome!OutcomeInv, NEW row \in Outcome!RowRecords, r13' = Append(r13, row),
         Outcome!Earned(row), row.valid => ~Outcome!Passes(row.from)
  PROVE  /\ r13' \in Seq(Outcome!RowRecords)
         /\ \A i \in DOMAIN r13' : /\ Outcome!Earned(r13'[i])
                                   /\ r13'[i].valid => ~Outcome!Passes(r13'[i].from)
<1>1. r13 \in Seq(Outcome!RowRecords)
  BY DEF Outcome!OutcomeInv, Outcome!TypeOK
<1>2. /\ r13' \in Seq(Outcome!RowRecords)
      /\ DOMAIN r13' = 1 .. (Len(r13) + 1) /\ DOMAIN r13 = 1 .. Len(r13) /\ Len(r13) \in Nat
      /\ \A i \in DOMAIN r13 : r13'[i] = r13[i]
      /\ r13'[Len(r13) + 1] = row
  BY <1>1, Appended
<1>3. \A i \in DOMAIN r13 : /\ Outcome!Earned(r13[i])
                            /\ r13[i].valid => ~Outcome!Passes(r13[i].from)
  BY DEF Outcome!OutcomeInv
<1>4. ASSUME NEW i \in DOMAIN r13'
      PROVE  Outcome!Earned(r13'[i]) /\ (r13'[i].valid => ~Outcome!Passes(r13'[i].from))
  <2>1. CASE i \in DOMAIN r13
    BY <1>2, <1>3, <2>1
  <2>2. CASE i = Len(r13) + 1
    BY <1>2, <2>2
  <2> QED
    BY <1>2, <2>1, <2>2
<1> QED
  BY <1>2, <1>4

\* The steps between two invocations, and those before a candidate is asked.
LEMMA OutcomeBegins ==
  ASSUME Outcome!OutcomeInv,
         \/ Outcome!EditSuite \/ Outcome!Materialize \/ Outcome!MaterializeFails
         \/ Outcome!RunPristine \/ Outcome!InjectFault \/ Outcome!NextTask
         \/ \E a \in Outcome!Arguments : Outcome!Start(a) \/ Outcome!Malformed(a)
  PROVE  Outcome!OutcomeInv'
<1> USE OutcomeAssumption DEF Outcome!OutcomeInv
<1>1. Outcome!TypeOK
  OBVIOUS
<1>2. CASE Outcome!EditSuite
  BY <1>1, <1>2 DEF Outcome!EditSuite, Outcome!TypeOK, Outcome!CheckoutIsKnown, Outcome!GateIsHonest
<1>3. CASE Outcome!Materialize
  BY <1>1, <1>3 DEF Outcome!Materialize, Outcome!TypeOK, Outcome!CheckoutIsKnown,
     Outcome!GateIsHonest, Outcome!Trees, Outcome!Contents, Outcome!Upstream, Outcome!Refuses
<1>4. CASE Outcome!MaterializeFails
  BY <1>1, <1>4 DEF Outcome!MaterializeFails, Outcome!TypeOK, Outcome!CheckoutIsKnown,
     Outcome!GateIsHonest
<1>5. CASE Outcome!RunPristine
  BY <1>1, <1>5 DEF Outcome!RunPristine, Outcome!TypeOK, Outcome!CheckoutIsKnown,
     Outcome!GateIsHonest, Outcome!Refuses, Outcome!Upstream
<1>6. CASE Outcome!InjectFault
  <2>1. /\ r1 = "inject" /\ r1' = "initial" /\ UNCHANGED <<r2, r4, r5, r7, r10, r13, r14>>
        /\ \/ r6' = r6
           \/ \E c \in {"fault", "repaired"} : r6' = [r6 EXCEPT ![OutcomeSource] = c]
    BY <1>6 DEF Outcome!InjectFault
  <2>2. r6 \in Outcome!Trees /\ Outcome!Upstream(r6, {})
    BY <1>1, <2>1 DEF Outcome!TypeOK, Outcome!CheckoutIsKnown
  <2>3. r6' \in Outcome!Trees /\ Outcome!Upstream(r6, {OutcomeSource})'
    BY <2>1, <2>2 DEF Outcome!Trees, Outcome!Contents, Outcome!Upstream
  <2>4. Outcome!TypeOK'
    BY <1>1, <2>1, <2>3 DEF Outcome!TypeOK, Outcome!Refuses
  <2> QED
    BY <2>1, <2>3, <2>4 DEF Outcome!CheckoutIsKnown, Outcome!GateIsHonest
<1>7. CASE Outcome!NextTask
  BY <1>1, <1>7 DEF Outcome!NextTask, Outcome!TypeOK, Outcome!CheckoutIsKnown,
     Outcome!GateIsHonest, Outcome!Refuses
<1>8. ASSUME NEW a \in Outcome!Arguments, Outcome!Start(a) PROVE Outcome!OutcomeInv'
  <2>1. /\ r1 = "idle" /\ UNCHANGED <<r4, r5, r6, r7, r10>> /\ r2' = a /\ r13' = <<>>
        /\ \/ Outcome!Refuses(a) /\ r14' = 2 /\ r1' = "idle"
           \/ ~Outcome!Refuses(a) /\ r14' = None /\ r1' = "materialize"
    BY <1>8 DEF Outcome!Start
  <2>2. Outcome!Refuses(r2)' <=> Outcome!Refuses(a)
    BY <2>1 DEF Outcome!Refuses
  <2>3. Outcome!TypeOK'
    BY <1>1, <2>1, <2>2 DEF Outcome!TypeOK
  <2> QED
    BY <2>1, <2>3 DEF Outcome!CheckoutIsKnown, Outcome!GateIsHonest
<1>9. ASSUME NEW a \in Outcome!Arguments, Outcome!Malformed(a) PROVE Outcome!OutcomeInv'
  BY <1>1, <1>9 DEF Outcome!Malformed, Outcome!TypeOK, Outcome!CheckoutIsKnown, Outcome!GateIsHonest
<1> QED
  BY <1>2, <1>3, <1>4, <1>5, <1>6, <1>7, <1>8, <1>9

\* The fault is proven before a candidate is asked; else the row is worthless.
LEMMA OutcomeProves ==
  ASSUME Outcome!OutcomeInv, Outcome!RunInitial
  PROVE  Outcome!OutcomeInv'
<1> USE OutcomeAssumption
<1>1. Outcome!TypeOK /\ Outcome!CheckoutIsKnown
  BY DEF Outcome!OutcomeInv
<1>2. PICK result \in Outcome!Results(r6) :
        /\ r1 = "initial" /\ r7' = r6 /\ UNCHANGED <<r2, r4, r5, r6, r10, r12, r14>>
        /\ \/ result = "fail" /\ r1' = "provide" /\ r13' = r13
           \/ /\ r1' = "next"
              /\ r13' = Append(r13, [Outcome!Row(FALSE, FALSE, "fail", 0, 0) EXCEPT
                                       !.timeout = "timeout" \in {r8, result}, !.from = r6])
  BY DEF Outcome!RunInitial
<1> DEFINE timeout == "timeout" \in {r8, result}
           bare == Outcome!Row(FALSE, FALSE, "fail", 0, 0)
           row == [bare EXCEPT !.timeout = timeout, !.from = r6]
<1>3. r7' \in Outcome!Trees /\ r6' = r6 /\ Outcome!Upstream(r6, {OutcomeSource})
  BY <1>1, <1>2 DEF Outcome!TypeOK, Outcome!CheckoutIsKnown
<1>4. CASE result = "fail" /\ r1' = "provide" /\ r13' = r13
  <2>1. ~Outcome!Passes(r6)
    BY <1>2, <1>4 DEF Outcome!Results
  <2>2. Outcome!TypeOK'
    BY <1>1, <1>2, <1>3, <1>4 DEF Outcome!TypeOK, Outcome!Refuses
  <2>3. Outcome!CheckoutIsKnown'
    BY <1>2, <1>3, <1>4, <2>1 DEF Outcome!CheckoutIsKnown
  <2> QED
    BY <1>2, <1>4, <2>2, <2>3 DEF Outcome!OutcomeInv, Outcome!GateIsHonest
<1>5. CASE r1' = "next" /\ r13' = Append(r13, row)
  <2>1. bare \in Outcome!RowRecords /\ bare.valid = FALSE /\ bare.score = 0
    <3> DEFINE pass == "fail" = "pass"
               late == "timeout" \in {r8, "fail"}
    <3>1. bare = [valid |-> FALSE, applied |-> FALSE, pass |-> pass, timeout |-> late,
                  changed |-> 0, score |-> 0, allowed |-> Outcome!Allowed,
                  from |-> r7, to |-> r6]
      BY DEF Outcome!Row
    <3>2. pass \in BOOLEAN /\ late \in BOOLEAN
      OBVIOUS
    <3> HIDE DEF bare, pass, late
    <3> QED
      BY <1>1, <1>2, <3>1, <3>2, OutcomeAllowedFiles DEF Outcome!TypeOK, Outcome!RowRecords
  <2>2. timeout \in BOOLEAN
    OBVIOUS
  <2> HIDE DEF bare, timeout
  <2>3. row \in Outcome!RowRecords /\ row.valid = FALSE /\ row.score = 0
    BY <1>1, <2>1, <2>2 DEF Outcome!RowRecords, Outcome!TypeOK
  <2> HIDE DEF row
  <2>4. Outcome!Earned(row)
    BY <2>3 DEF Outcome!Earned
  <2>5. /\ r13' \in Seq(Outcome!RowRecords)
        /\ \A i \in DOMAIN r13' : /\ Outcome!Earned(r13'[i])
                                  /\ r13'[i].valid => ~Outcome!Passes(r13'[i].from)
    BY <1>5, <2>3, <2>4, OutcomeRows
  <2>6. Outcome!TypeOK'
    BY <1>1, <1>2, <1>3, <1>5, <2>5 DEF Outcome!TypeOK, Outcome!Refuses
  <2> QED
    BY <1>2, <1>5, <2>5, <2>6 DEF Outcome!OutcomeInv, Outcome!CheckoutIsKnown, Outcome!GateIsHonest
<1> QED
  BY <1>2, <1>4, <1>5

\* What a patch leaves of a tree.
LEMMA OutcomePatched ==
  ASSUME NEW t \in Outcome!Trees, NEW patch \in OutcomePatches
  PROVE  Outcome!Patched(t, patch) \in Outcome!Trees
BY OutcomeAssumption DEF Outcome!Trees, Outcome!Contents, Outcome!Patched

\* The candidate answers; meanwhile it may change its copy, or, when it is not
\* trusted with a copy, the checkout.
LEMMA OutcomeAsks ==
  ASSUME Outcome!OutcomeInv,
         \/ \E patch \in OutcomePatches : Outcome!Provide(patch) \/ Outcome!ApproveAgent(patch)
         \/ Outcome!ProviderRaises \/ Outcome!StartAgent \/ Outcome!AgentReturns
  PROVE  Outcome!OutcomeInv'
<1>1. Outcome!TypeOK /\ Outcome!CheckoutIsKnown /\ r6 \in Outcome!Trees /\ r10 \in Outcome!Trees
  BY DEF Outcome!OutcomeInv, Outcome!TypeOK
<1>2. /\ UNCHANGED <<r2, r4, r5, r7, r13, r14>>
      /\ r6' \in Outcome!Trees /\ r10' \in Outcome!Trees
      /\ r1 \in {"provide", "agent"}
      /\ \/ r1' = "agent" /\ r6' = r6
         \/ /\ r1' = "judge" /\ (r12'.wrote \/ r6' = r6)
            /\ \A f \in DOMAIN r12'.patch.edits : r12'.patch.edits[f] \in Outcome!Contents
  <2>1. ASSUME NEW patch \in OutcomePatches, Outcome!Provide(patch)
        PROVE  /\ UNCHANGED <<r2, r4, r5, r7, r13, r14>>
               /\ r6' \in Outcome!Trees /\ r10' \in Outcome!Trees
               /\ r1 = "provide" /\ r1' = "judge" /\ (r12'.wrote \/ r6' = r6)
               /\ \A f \in DOMAIN r12'.patch.edits : r12'.patch.edits[f] \in Outcome!Contents
    <3>1. r12'.patch = patch
      BY <2>1 DEF Outcome!Provide
    <3> QED
      BY <1>1, <2>1, <3>1, OutcomePatched, OutcomeAssumption DEF Outcome!Provide, Outcome!Contents
  <2>2. ASSUME NEW patch \in OutcomePatches, Outcome!ApproveAgent(patch)
        PROVE  /\ UNCHANGED <<r2, r4, r5, r7, r13, r14>>
               /\ r6' \in Outcome!Trees /\ r10' \in Outcome!Trees
               /\ r1 = "agent" /\ r1' = "agent" /\ r6' = r6
    BY <1>1, <2>2, OutcomePatched DEF Outcome!ApproveAgent
  <2>3. CASE Outcome!ProviderRaises
    BY <1>1, <2>3 DEF Outcome!ProviderRaises, Outcome!Empty
  <2>4. CASE Outcome!StartAgent
    BY <1>1, <2>4 DEF Outcome!StartAgent
  <2>5. CASE Outcome!AgentReturns
    <3> DEFINE changed == {f \in OutcomeFiles : r10[f] # r7[f]}
               diff == IF changed = {} THEN Outcome!Empty
                       ELSE [form |-> "edit", edits |-> [f \in changed |-> r10[f]]]
    <3>1. r12'.patch = diff /\ r12'.wrote = FALSE
      BY <2>5 DEF Outcome!AgentReturns
    <3>2. \A f \in DOMAIN diff.edits : diff.edits[f] \in Outcome!Contents
      <4>1. CASE changed = {}
        BY <4>1 DEF Outcome!Empty
      <4>2. CASE changed # {}
        BY <1>1, <4>2 DEF Outcome!Trees
      <4> QED
        BY <4>1, <4>2
    <3> HIDE DEF diff
    <3> QED
      BY <1>1, <2>5, <3>1, <3>2 DEF Outcome!AgentReturns
  <2> QED
    BY <2>1, <2>2, <2>3, <2>4, <2>5
<1>3. Outcome!TypeOK'
  BY <1>1, <1>2 DEF Outcome!TypeOK, Outcome!Refuses
<1>4. Outcome!CheckoutIsKnown'
  BY <1>1, <1>2 DEF Outcome!CheckoutIsKnown, Outcome!Upstream
<1> QED
  BY <1>2, <1>3, <1>4 DEF Outcome!OutcomeInv, Outcome!GateIsHonest

\* What is judged is what was returned: the rest of the checkout is upstream.
LEMMA OutcomeJudges ==
  ASSUME Outcome!OutcomeInv, Outcome!Judge \/ Outcome!Reject
  PROVE  Outcome!OutcomeInv'
<1> USE OutcomeAssumption
<1>1. Outcome!TypeOK /\ Outcome!CheckoutIsKnown /\ r1 = "judge"
  BY DEF Outcome!OutcomeInv, Outcome!Judge, Outcome!Reject
<1> DEFINE score == Outcome!Score(FALSE, FALSE, 0)
           row == Outcome!Row(TRUE, FALSE, "fail", 0, score)
<1>2. score \in Int /\ ~(score > 25)
  BY OutcomeScores
<1> HIDE DEF score
<1>3. row \in Outcome!RowRecords /\ row.score = score /\ row.from = r7
  <2> DEFINE pass == "fail" = "pass"
             timeout == "timeout" \in {r8, "fail"}
  <2>1. row = [valid |-> TRUE, applied |-> FALSE, pass |-> pass, timeout |-> timeout,
               changed |-> 0, score |-> score, allowed |-> Outcome!Allowed,
               from |-> r7, to |-> r6]
    BY DEF Outcome!Row
  <2>2. pass \in BOOLEAN /\ timeout \in BOOLEAN
    OBVIOUS
  <2> HIDE DEF row, pass, timeout
  <2> QED
    BY <1>1, <1>2, <2>1, <2>2, OutcomeAllowedFiles DEF Outcome!TypeOK, Outcome!RowRecords
<1> HIDE DEF row
<1>4. Outcome!Earned(row) /\ ~Outcome!Passes(row.from)
  BY <1>1, <1>2, <1>3 DEF Outcome!Earned, Outcome!CheckoutIsKnown
<1>5. /\ UNCHANGED <<r2, r4, r5, r7, r10, r12, r14>>
      /\ \/ r13' = Append(r13, row) /\ r1' = "next" /\ r6' = r6
         \/ /\ r13' = r13 /\ r1' = "retest" /\ r6 = r7
            /\ DOMAIN r12.patch.edits \subseteq Outcome!Allowed
            /\ r6' = Outcome!Patched(r6, r12.patch)
  BY <1>1 DEF Outcome!Judge, Outcome!Reject, Outcome!CheckoutIsKnown, Outcome!PathsAreValid, row, score
<1>6. CASE r13' = Append(r13, row) /\ r1' = "next" /\ r6' = r6
  <2>1. /\ r13' \in Seq(Outcome!RowRecords)
        /\ \A i \in DOMAIN r13' : /\ Outcome!Earned(r13'[i])
                                  /\ r13'[i].valid => ~Outcome!Passes(r13'[i].from)
    BY <1>3, <1>4, <1>6, OutcomeRows
  <2>2. Outcome!TypeOK'
    BY <1>1, <1>5, <1>6, <2>1 DEF Outcome!TypeOK, Outcome!Refuses
  <2> QED
    BY <1>5, <1>6, <2>1, <2>2 DEF Outcome!OutcomeInv, Outcome!CheckoutIsKnown, Outcome!GateIsHonest
<1>7. CASE /\ r13' = r13 /\ r1' = "retest" /\ r6 = r7
           /\ DOMAIN r12.patch.edits \subseteq Outcome!Allowed
           /\ r6' = Outcome!Patched(r6, r12.patch)
  <2>1. Outcome!Upstream(r6, Outcome!Allowed)'
    <3>1. Outcome!Allowed' = Outcome!Allowed
      BY <1>5, <1>7 DEF Outcome!Allowed
    <3>2. Outcome!Upstream(r6, {OutcomeSource}) /\ OutcomeSource \in Outcome!Allowed
      BY <1>1, <1>7, OutcomeAllowedFiles DEF Outcome!CheckoutIsKnown
    <3> QED
      BY <1>7, <3>1, <3>2 DEF Outcome!Upstream, Outcome!Patched
  <2>2. r6' \in Outcome!Trees
    BY <1>1, <1>7 DEF Outcome!TypeOK, Outcome!Trees, Outcome!Patched
  <2>3. Outcome!TypeOK'
    BY <1>1, <1>5, <1>7, <2>2 DEF Outcome!TypeOK, Outcome!Refuses
  <2>4. Outcome!CheckoutIsKnown'
    BY <1>1, <1>5, <1>7, <2>1 DEF Outcome!CheckoutIsKnown
  <2> QED
    BY <1>5, <1>7, <2>3, <2>4 DEF Outcome!OutcomeInv, Outcome!GateIsHonest
<1> QED
  BY <1>5, <1>6, <1>7

\* The row of a test that passes again tells of a repair.
LEMMA OutcomeRetests ==
  ASSUME Outcome!OutcomeInv, Outcome!Retest
  PROVE  Outcome!OutcomeInv'
<1> USE OutcomeAssumption
<1>1. Outcome!TypeOK /\ Outcome!CheckoutIsKnown
  BY DEF Outcome!OutcomeInv
<1> DEFINE touched == {f \in Outcome!Allowed : r6[f] # r7[f]}
           changed == Cardinality(touched)
<1>2. changed \in Nat
  <2>1. touched \subseteq OutcomeFiles
    BY <1>1, OutcomeAllowedFiles DEF Outcome!Retest
  <2> HIDE DEF touched
  <2> QED
    BY <2>1, FS_Subset, FS_CardinalityType
<1>3. Outcome!Cardinality(touched) = changed
  BY OutcomeCardinality
<1> HIDE DEF changed
<1>4. PICK result \in Outcome!Results(r6) :
        /\ r1 = "retest" /\ r1' = "next"
        /\ r13' = Append(r13, Outcome!Row(TRUE, TRUE, result, changed,
                                          Outcome!Score(TRUE, result = "pass", changed)))
        /\ UNCHANGED <<r2, r4, r5, r6, r7, r10, r12, r14>>
  BY <1>3 DEF Outcome!Retest
<1> DEFINE pass == result = "pass"
           score == Outcome!Score(TRUE, pass, changed)
           row == Outcome!Row(TRUE, TRUE, result, changed, score)
<1>5. pass \in BOOLEAN
  OBVIOUS
<1>6. pass => Outcome!Passes(r6)
  BY DEF Outcome!Results
<1>7. r13' = Append(r13, row)
  BY <1>4
<1> HIDE DEF pass
<1>8. score \in Int /\ (score > 25 => pass)
  BY <1>2, <1>5, OutcomeScores
<1> HIDE DEF score
<1>9. /\ row \in Outcome!RowRecords /\ row.score = score /\ row.from = r7 /\ row.to = r6
      /\ row.allowed = Outcome!Allowed
  <2> DEFINE timeout == "timeout" \in {r8, result}
  <2>1. row = [valid |-> TRUE, applied |-> TRUE, pass |-> pass, timeout |-> timeout,
               changed |-> changed, score |-> score, allowed |-> Outcome!Allowed,
               from |-> r7, to |-> r6]
    BY DEF Outcome!Row, pass
  <2>2. timeout \in BOOLEAN
    OBVIOUS
  <2> HIDE DEF row, timeout
  <2> QED
    BY <1>1, <1>2, <1>4, <1>5, <1>8, <2>1, <2>2, OutcomeAllowedFiles DEF Outcome!TypeOK, Outcome!RowRecords
<1> HIDE DEF row
<1>10. ~Outcome!Passes(r7) /\ Outcome!Upstream(r6, Outcome!Allowed)
  BY <1>1, <1>4 DEF Outcome!CheckoutIsKnown
<1>11. ASSUME score > 25
       PROVE  /\ Outcome!Passes(r6)
              /\ \A f \in OutcomeFiles \ Outcome!Allowed : r6[f] = "good"
              /\ OutcomeTest \notin Outcome!Allowed =>
                   /\ r6[OutcomeSource] \in {"good", "repaired"}
                   /\ \A f \in OutcomeFiles : r6[f] # "broken"
  <2>1. Outcome!Passes(r6)
    BY <1>6, <1>8, <1>11
  <2>2. \A f \in OutcomeFiles \ Outcome!Allowed : r6[f] = "good"
    BY <1>10 DEF Outcome!Upstream
  <2>3. OutcomeTest \notin Outcome!Allowed => r6[OutcomeTest] # "lenient"
    BY <2>2
  <2> QED
    BY <2>1, <2>2, <2>3 DEF Outcome!Passes
<1>12. Outcome!Earned(row)
  BY <1>9, <1>10, <1>11 DEF Outcome!Earned
<1>13. /\ r13' \in Seq(Outcome!RowRecords)
       /\ \A i \in DOMAIN r13' : /\ Outcome!Earned(r13'[i])
                                 /\ r13'[i].valid => ~Outcome!Passes(r13'[i].from)
  BY <1>7, <1>9, <1>10, <1>12, OutcomeRows
<1>14. Outcome!TypeOK'
  BY <1>1, <1>4, <1>13 DEF Outcome!TypeOK, Outcome!Refuses
<1> QED
  BY <1>4, <1>13, <1>14 DEF Outcome!OutcomeInv, Outcome!CheckoutIsKnown, Outcome!GateIsHonest

\* A count is a number.
LEMMA OutcomeCountType ==
  ASSUME r13 \in Seq(Outcome!RowRecords), NEW field
  PROVE  Outcome!Count(field) \in Nat
<1> DEFINE counted == {i \in DOMAIN r13 : r13[i][field]}
<1>1. counted \subseteq 1 .. Len(r13) /\ Len(r13) \in Nat
  OBVIOUS
<1>2. Outcome!Count(field) = Cardinality(counted)
  BY OutcomeCardinality DEF Outcome!Count
<1> HIDE DEF counted
<1>3. IsFiniteSet(1 .. Len(r13))
  BY <1>1, FS_Interval
<1> QED
  BY <1>1, <1>2, <1>3, FS_Subset, FS_CardinalityType

\* What is counted for every row is so in every row.
LEMMA OutcomeCounts ==
  ASSUME r13 \in Seq(Outcome!RowRecords), Len(r13) = OutcomeTasks,
         NEW field, Outcome!Count(field) >= OutcomeTasks
  PROVE  \A i \in DOMAIN r13 : r13[i][field]
<1> DEFINE all == DOMAIN r13
           counted == {i \in all : r13[i][field]}
<1>1. IsFiniteSet(all) /\ Cardinality(all) = OutcomeTasks
  <2>1. all = 1 .. OutcomeTasks
    OBVIOUS
  <2> QED
    BY <2>1, OutcomeAssumption, FS_Interval
<1>2. Cardinality(counted) >= OutcomeTasks
  BY OutcomeCardinality DEF Outcome!Count
<1>3. counted \subseteq all
  OBVIOUS
<1> HIDE DEF all, counted
<1>4. Cardinality(counted) <= Cardinality(all) /\ Cardinality(counted) \in Nat
  BY <1>1, <1>3, FS_Subset, FS_CardinalityType
<1>5. counted = all
  BY <1>1, <1>2, <1>3, <1>4, OutcomeAssumption, FS_Subset
<1> QED
  BY <1>5 DEF all, counted

\* The command exits: a baseline is a self check that passed, and a gate that
\* passes has seen as much as its baseline.
LEMMA OutcomeEnds ==
  ASSUME Outcome!OutcomeInv, Outcome!Finish
  PROVE  Outcome!OutcomeInv'
<1> USE OutcomeAssumption
<1>1. Outcome!TypeOK /\ Outcome!CheckoutIsKnown
  BY DEF Outcome!OutcomeInv
<1> DEFINE card == Outcome!Scorecard
<1>2. card.valid = Outcome!Count("valid") /\ card.pass = Outcome!Count("pass")
  BY DEF Outcome!Scorecard
<1> HIDE DEF card
<1>3. /\ r1 = "next" /\ r1' = "idle" /\ Len(r13) = OutcomeTasks
      /\ UNCHANGED <<r2, r4, r6, r7, r10, r12, r13>>
      /\ \/ r2.update /\ Outcome!MayUpdate(card) /\ r5' = card
         \/ r2.update /\ r5' = r5
         \/ r2.gate /\ r14' = (IF Outcome!Regressed(card, r5) THEN 1 ELSE 0) /\ r5' = r5
         \/ ~r2.gate /\ r5' = r5
  BY DEF Outcome!Finish, card
<1>4. r13 \in Seq(Outcome!RowRecords) /\ ~Outcome!Refuses(r2)
  BY <1>1, <1>3 DEF Outcome!TypeOK
<1>5. Outcome!TypeOK'
  BY <1>1, <1>3 DEF Outcome!TypeOK
<1>6. (r5 # None => r5.valid = OutcomeTasks /\ r5.pass = OutcomeTasks)'
  BY <1>3 DEF Outcome!MayUpdate, Outcome!OutcomeInv
<1>7. ASSUME r14' = 0, r2.gate
      PROVE  r5' # None /\ \A i \in DOMAIN r13 : r13[i].valid /\ r13[i].pass
  <2>1. ~r2.update /\ r5 # None
    BY <1>4, <1>7 DEF Outcome!Refuses
  <2>2. r5' = r5 /\ ~Outcome!Regressed(card, r5)
    BY <1>3, <1>7, <2>1
  <2>3. card.valid >= r5.valid /\ card.pass >= r5.pass
    <3>1. ~(card.valid < r5.valid) /\ ~(card.pass < r5.pass)
      BY <2>2 DEF Outcome!Regressed
    <3>2. /\ r5.valid = OutcomeTasks /\ r5.pass = OutcomeTasks
          /\ card.valid \in Nat /\ card.pass \in Nat
      BY <1>2, <1>4, <2>1, OutcomeCountType DEF Outcome!OutcomeInv
    <3> QED
      BY <3>1, <3>2
  <2>4. r5.valid = OutcomeTasks /\ r5.pass = OutcomeTasks
    BY <2>1 DEF Outcome!OutcomeInv
  <2> QED
    BY <1>2, <1>3, <1>4, <2>1, <2>2, <2>3, <2>4, OutcomeCounts
<1>8. Outcome!GateIsHonest'
  <2> SUFFICES ASSUME r14' = 0, r2.gate
               PROVE  /\ r5' # None /\ Len(r13) = OutcomeTasks
                      /\ \A i \in DOMAIN r13 : /\ r13[i].valid /\ r13[i].pass
                                               /\ ~Outcome!Passes(r13[i].from)
    BY <1>3 DEF Outcome!GateIsHonest
  <2> QED
    BY <1>3, <1>7 DEF Outcome!OutcomeInv
<1> QED
  BY <1>1, <1>3, <1>5, <1>6, <1>8 DEF Outcome!OutcomeInv, Outcome!CheckoutIsKnown

\* Whichever phase of an evaluation comes next, what is known of it stays true.
LEMMA OutcomeStep == Outcome!OutcomeInv /\ Outcome!Next => Outcome!OutcomeInv'
  BY OutcomeBegins, OutcomeProves, OutcomeAsks, OutcomeJudges, OutcomeRetests, OutcomeEnds
     DEF Outcome!Next

\* The guard's exit, log and usage agree, and what the patch harness reports
\* has been earned by edits of the files that each task allows, its own test
\* only when the task allows it (run_claude_guarded.py:147, patch_outcome.py:684).
THEOREM HarnessesAreAlwaysHonest == Spec => []HarnessesAreHonest
<1> DEFINE Inv == part = "outcome" => Outcome!OutcomeInv
<1>1. Init => Inv
  BY OutcomeInit
<1>2. Inv /\ [Next]_vars => Inv'
  <2> SUFFICES ASSUME Inv, [Next]_vars, part' = "outcome" PROVE Outcome!OutcomeInv'
    OBVIOUS
  <2>1. CASE UNCHANGED vars
    <3>1. /\ part' = part /\ r1' = r1 /\ r2' = r2 /\ r4' = r4 /\ r5' = r5 /\ r6' = r6
          /\ r7' = r7 /\ r10' = r10 /\ r12' = r12 /\ r13' = r13 /\ r14' = r14
      BY <2>1 DEF vars
    <3>2. Outcome!Allowed' = Outcome!Allowed
      BY <3>1 DEF Outcome!Allowed
    <3>3. Outcome!TypeOK' /\ Outcome!CheckoutIsKnown'
      BY <3>1, <3>2 DEF Outcome!OutcomeInv, Outcome!TypeOK, Outcome!Refuses, Outcome!CheckoutIsKnown
    <3> QED
      BY <3>1, <3>3 DEF Outcome!OutcomeInv, Outcome!GateIsHonest
  <2>2. CASE Next
    <3>1. part = "outcome" /\ Outcome!Next
      BY <2>2 DEF Next
    <3> QED
      BY <3>1, OutcomeStep
  <2> QED
    BY <2>1, <2>2
<1>3. Inv => (part = "outcome" => Outcome!VerdictsAreEarned)
  BY DEF Outcome!OutcomeInv, Outcome!VerdictsAreEarned, Outcome!ScoresAreEarned
<1>4. Spec => [](part = "outcome" => Outcome!VerdictsAreEarned)
  BY <1>1, <1>2, <1>3, PTL DEF Spec
<1>5. (part = "guard" => Guard!ExitIsExplained) /\ (part = "outcome" => Outcome!VerdictsAreEarned)
        => HarnessesAreHonest
  BY DEF HarnessesAreHonest
<1> QED
  BY <1>4, <1>5, GuardsAreExplained, PTL

-----------------------------------------------------------------------------
(***************************************************************************)
(* SafetyPolicy.  r1 is the project's policy, r2 the caller's safe mode,   *)
(* r3 the stage, r4 the input, r5 the verdict, r6 the envelope.            *)
(***************************************************************************)

\* The merged policy keeps the default denials whatever the project adds.
LEMMA SafetyInit == part = "safety" /\ Init => Safety!PolicyInv
<1> SUFFICES ASSUME part = "safety", Init PROVE Safety!PolicyInv
  OBVIOUS
<1>1. Safety!Init
  BY DEF Init
<1> QED
  BY <1>1 DEF Safety!Init, Safety!PolicyInv, Safety!DenialsHold, Safety!GrantsBind

\* The policy in force is at least as strict as each of its sources.
LEMMA SafetyPolicies ==
  ASSUME Safety!LoadPolicy(r1) # None, ~Safety!Policy.safeMode
  PROVE  /\ ~r2 /\ (r1 # None => ~r1.safeMode)
         /\ SafetyDefaultDenied \ {<<>>} \subseteq Safety!Policy.deny
         /\ r1 # None /\ r1.deny # None => r1.deny \ {<<>>} \subseteq Safety!Policy.deny
<1>1. CASE r1 = None
  <2>1. Safety!LoadPolicy(r1) = [safeMode |-> FALSE, allow |-> SafetyDefaultAllowed,
                                 deny |-> SafetyDefaultDenied]
    BY <1>1 DEF Safety!LoadPolicy, Safety!DefaultPolicy
  <2>2. Safety!Policy.safeMode = (FALSE \/ r2) /\ Safety!Policy.deny = SafetyDefaultDenied
    BY <2>1 DEF Safety!Policy
  <2> QED
    BY <1>1, <2>2
<1>2. CASE r1 # None
  <2>1. ~r1.dryRun
    BY <1>2 DEF Safety!LoadPolicy
  <2> DEFINE own == IF r1.deny = None THEN {} ELSE r1.deny
             allow == IF r1.allow = None THEN SafetyDefaultAllowed ELSE r1.allow \ {<<>>}
  <2>2. Safety!LoadPolicy(r1) = [safeMode |-> r1.safeMode, allow |-> allow,
                                 deny |-> Safety!MergeRules(SafetyDefaultDenied, own)]
    BY <1>2, <2>1 DEF Safety!LoadPolicy
  <2> HIDE DEF allow
  <2>3. /\ Safety!Policy.safeMode = (r1.safeMode \/ r2)
        /\ Safety!Policy.deny = Safety!MergeRules(SafetyDefaultDenied, own)
    BY <2>2 DEF Safety!Policy
  <2> QED
    BY <1>2, <2>3 DEF Safety!MergeRules
<1> QED
  BY <1>1, <1>2

\* A command that is let through has passed every check.
LEMMA SafetyCommand ==
  ASSUME NEW policy, NEW cmd, Safety!CheckCommand(policy, cmd).allowed
  PROVE  /\ ~policy.safeMode /\ ~cmd.shellMeta
         /\ ~Safety!Matches(Safety!Words(cmd.tokens), policy.deny)
         /\ ~Safety!LeavesRepository(cmd.tokens)
BY DEF Safety!CheckCommand, Safety!Refused

\* Cardinality is the same in every module.
LEMMA SafetyCardinality == ASSUME NEW S PROVE Safety!Cardinality(S) = Cardinality(S)
  BY DEF Safety!Cardinality, Cardinality

\* A patch that is let through deletes at most one file.
LEMMA SafetyPatch ==
  ASSUME NEW policy, NEW diff, Safety!CheckPatch(policy, diff).allowed
  PROVE  ~policy.safeMode /\ ~(Cardinality(Safety!Deletions(diff.blocks)) > 1)
<1> DEFINE changed == Safety!ChangedFiles(diff.blocks)
           unsafe == \E path \in changed : Safety!IsUnsafePath(path)
           env == \E path \in changed : Safety!IsEnvPath(path)
           many == Safety!Cardinality(Safety!Deletions(diff.blocks)) > 1
<1>1. Safety!CheckPatch(policy, diff) =
        CASE diff.blank -> Safety!Refused("empty")
          [] policy.safeMode -> Safety!Refused("safe-mode")
          [] diff.oversized -> Safety!Refused("max-patch-chars")
          [] diff.binary -> Safety!Refused("binary-patch")
          [] changed = {} -> Safety!Refused("missing-patch-files")
          [] unsafe -> Safety!Refused("unsafe-path")
          [] env -> Safety!Refused("env-file")
          [] many -> Safety!Refused("multi-file-delete")
          [] OTHER -> [allowed |-> TRUE, rule |-> "patch-policy"]
  BY Zenon DEF Safety!CheckPatch
<1> HIDE DEF changed, unsafe, env, many
<1>2. ~policy.safeMode /\ ~many
  BY <1>1 DEF Safety!Refused
<1> QED
  BY <1>2, SafetyCardinality DEF many

\* A verdict, and an envelope on its way from preview to execution, are those
\* of the merged policy and of the one fingerprint.
LEMMA SafetyStep == Safety!PolicyInv /\ Safety!Next => Safety!PolicyInv'
<1> SUFFICES ASSUME Safety!PolicyInv, Safety!Next PROVE Safety!PolicyInv'
  OBVIOUS
<1>1. ASSUME NEW cmd \in SafetyCommands, Safety!Command(cmd) PROVE Safety!PolicyInv'
  <2>1. /\ r1' = r1 /\ r2' = r2 /\ r3 = "open" /\ r3' = "command" /\ r4' = cmd
        /\ r5' = Safety!CheckCommand(Safety!Policy, cmd)
    BY <1>1 DEF Safety!Command
  <2>2. ASSUME r5'.allowed PROVE Safety!DenialsHold'
    <3>1. Safety!LoadPolicy(r1) # None
      BY <2>1 DEF Safety!PolicyInv
    <3> DEFINE words == Safety!Words(cmd.tokens)
               policy == Safety!Policy
    <3>2. /\ ~policy.safeMode /\ ~cmd.shellMeta /\ ~Safety!Matches(words, policy.deny)
          /\ ~Safety!LeavesRepository(cmd.tokens)
      BY <2>1, <2>2, SafetyCommand
    <3>3. /\ ~r2 /\ (r1 # None => ~r1.safeMode)
          /\ SafetyDefaultDenied \subseteq policy.deny
          /\ r1 # None /\ r1.deny # None => r1.deny \ {<<>>} \subseteq policy.deny
      BY <3>1, <3>2, SafetyPolicies, SafetyAssumption
    <3> HIDE DEF words, policy
    <3>4. /\ ~Safety!Matches(words, SafetyDefaultDenied)
          /\ r1 # None /\ r1.deny # None => ~Safety!Matches(words, r1.deny \ {<<>>})
      BY <3>2, <3>3 DEF Safety!Matches
    <3> QED
      BY <2>1, <3>2, <3>3, <3>4 DEF Safety!DenialsHold, words
  <2>3. Safety!DenialsHold'
    BY <2>2 DEF Safety!DenialsHold
  <2> QED
    BY <2>1, <2>3 DEF Safety!PolicyInv, Safety!GrantsBind
<1>2. ASSUME NEW diff \in SafetyDiffs, Safety!Patch(diff) PROVE Safety!PolicyInv'
  <2>1. /\ r1' = r1 /\ r2' = r2 /\ r3 = "open" /\ r3' = "patch" /\ r4' = diff
        /\ r5' = Safety!CheckPatch(Safety!Policy, diff)
    BY <1>2 DEF Safety!Patch
  <2>2. ASSUME r5'.allowed PROVE Safety!DenialsHold'
    <3>1. Safety!LoadPolicy(r1) # None
      BY <2>1 DEF Safety!PolicyInv
    <3>2. ~Safety!Policy.safeMode /\ ~(Cardinality(Safety!Deletions(diff.blocks)) > 1)
      BY <2>1, <2>2, SafetyPatch
    <3>3. ~r2 /\ (r1 # None => ~r1.safeMode)
      BY <3>1, <3>2, SafetyPolicies
    <3>4. ASSUME NEW i \in DOMAIN diff.blocks, NEW j \in DOMAIN diff.blocks,
                 diff.blocks[i].deletes, diff.blocks[i].paths # <<>>,
                 diff.blocks[j].deletes, diff.blocks[j].paths # <<>>, i # j
          PROVE  FALSE
      <4>1. IsFiniteSet(DOMAIN diff.blocks)
        BY SafetyAssumption
      <4> DEFINE D == Safety!Deletions(diff.blocks)
      <4>2. D \subseteq DOMAIN diff.blocks /\ {i, j} \subseteq D
        BY <3>4, SafetyAssumption DEF Safety!Deletions
      <4> HIDE DEF D
      <4>3. IsFiniteSet(D) /\ Cardinality(D) \in Nat /\ Cardinality({i, j}) <= Cardinality(D)
        BY <4>1, <4>2, FS_Subset, FS_CardinalityType
      <4>4. Cardinality({i, j}) = 2
        <5>1. IsFiniteSet({i}) /\ Cardinality({i}) = 1
          BY FS_Singleton
        <5>2. Cardinality({i} \cup {j}) = Cardinality({i}) + 1
          BY <3>4, <5>1, FS_AddElement
        <5>3. {i, j} = {i} \cup {j}
          OBVIOUS
        <5> QED
          BY <5>1, <5>2, <5>3
      <4> QED
        BY <3>2, <4>3, <4>4 DEF D
    <3> QED
      BY <2>1, <3>3, <3>4 DEF Safety!DenialsHold
  <2>3. Safety!DenialsHold'
    BY <2>2 DEF Safety!DenialsHold
  <2> QED
    BY <2>1, <2>3 DEF Safety!PolicyInv, Safety!GrantsBind
<1>3. ASSUME NEW arguments \in SafetyCalls, Safety!Ask(arguments) PROVE Safety!PolicyInv'
  <2>1. /\ r1' = r1 /\ r2' = r2 /\ r3 = "open" /\ r4' = arguments
        /\ r6' = Safety!PreviewWrite(arguments)
        /\ \/ r6' = None /\ r3' = "refused"
           \/ r6' # None /\ r3' = "approval"
    BY <1>3 DEF Safety!Ask
  <2>2. Safety!PreviewWrite(r4)' = Safety!PreviewWrite(arguments)
    BY <2>1 DEF Safety!PreviewWrite, Safety!Policy
  <2> QED
    BY <2>1, <2>2 DEF Safety!PolicyInv, Safety!DenialsHold, Safety!GrantsBind
<1>4. ASSUME NEW arguments \in SafetyCalls, Safety!Resume(arguments) PROVE Safety!PolicyInv'
  <2>1. /\ r1' = r1 /\ r2' = r2 /\ r3 = "approval" /\ r3' = "resumed" /\ r4' = r4 /\ r6' = r6
        /\ r5' = [call |-> arguments, ran |-> Safety!RunsApproved(arguments)]
    BY <1>4 DEF Safety!Resume
  <2>2. Safety!Policy' = Safety!Policy
    BY <2>1 DEF Safety!Policy
  <2>3. Safety!PreviewWrite(r4)' = Safety!PreviewWrite(r4)
    BY <2>1, <2>2 DEF Safety!PreviewWrite
  <2>4. r6 # None /\ r6 = Safety!PreviewWrite(r4)
    BY <2>1 DEF Safety!PolicyInv
  <2>5. ASSUME r5'.ran PROVE Safety!GrantsBind'
    <3>1. Safety!RunsApproved(arguments)
      BY <2>1, <2>5
    <3> DEFINE valid == Safety!SchemaArguments(arguments)
               again == Safety!PreviewWrite(valid)
    <3>2. valid # None /\ again # None /\ again.fingerprint = r6.fingerprint
      BY <3>1 DEF Safety!RunsApproved
    <3>3. valid = [arguments EXCEPT !.blanks = FALSE]
      BY <3>2 DEF Safety!SchemaArguments
    <3>4. valid.cmd = arguments.cmd /\ valid.timeout = arguments.timeout /\ valid.files = arguments.files
      BY <3>3, SafetyAssumption
    <3>5. /\ again = [files |-> Safety!NormalizePaths(valid.files),
                      fingerprint |-> Safety!Fingerprint(valid, Safety!NormalizePaths(valid.files))]
      BY <3>2 DEF Safety!PreviewWrite
    <3>6. /\ r6 = [files |-> Safety!NormalizePaths(r4.files),
                   fingerprint |-> Safety!Fingerprint(r4, Safety!NormalizePaths(r4.files))]
          /\ Safety!CheckCommand(Safety!Policy, r4.cmd).allowed
      BY <2>4 DEF Safety!PreviewWrite
    <3> HIDE DEF valid, again
    <3>7. Safety!Fingerprint(valid, Safety!NormalizePaths(valid.files)) =
            Safety!Fingerprint(r4, Safety!NormalizePaths(r4.files))
      BY <3>2, <3>5, <3>6
    <3>8. /\ valid.cmd = r4.cmd /\ valid.timeout = r4.timeout
          /\ Safety!NormalizePaths(valid.files) = Safety!NormalizePaths(r4.files)
      BY <3>7 DEF Safety!Fingerprint
    <3> QED
      BY <2>1, <2>2, <3>4, <3>6, <3>8 DEF Safety!GrantsBind
  <2>6. Safety!GrantsBind'
    BY <2>5 DEF Safety!GrantsBind
  <2> QED
    BY <2>1, <2>3, <2>4, <2>6 DEF Safety!PolicyInv, Safety!DenialsHold
<1> QED
  BY <1>1, <1>2, <1>3, <1>4 DEF Safety!Next

\* What the policy denies stays denied, whatever the project's own policy says,
\* and a grant runs the call that was shown or nothing (safety.py:110,
\* executor.py:137).
THEOREM PolicyAlwaysHolds == Spec => []PolicyHolds
<1> DEFINE Inv == part = "safety" => Safety!PolicyInv
<1>1. Init => Inv
  BY SafetyInit
<1>2. Inv /\ [Next]_vars => Inv'
  <2> SUFFICES ASSUME Inv, [Next]_vars, part' = "safety" PROVE Safety!PolicyInv'
    OBVIOUS
  <2>1. CASE UNCHANGED vars
    <3>1. part' = part /\ r1' = r1 /\ r2' = r2 /\ r3' = r3 /\ r4' = r4 /\ r5' = r5 /\ r6' = r6
      BY <2>1 DEF vars
    <3>2. Safety!Policy' = Safety!Policy
      BY <3>1 DEF Safety!Policy
    <3>3. Safety!PreviewWrite(r4)' = Safety!PreviewWrite(r4)
      BY <3>1, <3>2 DEF Safety!PreviewWrite
    <3>4. Safety!DenialsHold' /\ Safety!GrantsBind'
      BY <3>1, <3>2 DEF Safety!PolicyInv, Safety!DenialsHold, Safety!GrantsBind
    <3> QED
      BY <3>1, <3>3, <3>4 DEF Safety!PolicyInv
  <2>2. CASE Next
    <3>1. part = "safety" /\ Safety!Next
      BY <2>2 DEF Next
    <3> QED
      BY <3>1, SafetyStep
  <2> QED
    BY <2>1, <2>2
<1>3. Inv => PolicyHolds
  BY DEF Safety!PolicyInv, PolicyHolds, Safety!PolicyHolds
<1> QED
  BY <1>1, <1>2, <1>3, PTL DEF Spec

-----------------------------------------------------------------------------
(***************************************************************************)
(* OfflineAgent.  r1 is pc, r2 config, r6 the memory file, r7 the log.     *)
(***************************************************************************)

\* Memory and log start empty, and no run has looked.
LEMMA OfflineInit == part = "offline" /\ Init => Offline!MemoryInv
<1> SUFFICES ASSUME part = "offline", Init PROVE Offline!MemoryInv
  OBVIOUS
<1>1. Offline!Init
  BY DEF Init
<1> QED
  BY <1>1 DEF Offline!Init, Offline!MemoryInv, Offline!TypeOK, Offline!HasLooked,
     Offline!Trail, Offline!Kept, Offline!RemembersOnce

\* What a step keeps that leaves the files alone.
LEMMA OfflineQuiet ==
  ASSUME Offline!MemoryInv, NEW p \in OfflineRuns,
         Offline!TypeOK', UNCHANGED <<r5, r6, r7>>,
         r1[p] # "done", \A q \in OfflineRuns \ {p} :
           r1'[q] = r1[q] /\ r2'[q] = r2[q] /\ r3'[q] = r3[q] /\ r4'[q] = r4[q],
         Offline!HasLooked(p)', Offline!Trail(p)'
  PROVE  Offline!MemoryInv'
<1>0. r5' = r5 /\ r6' = r6 /\ r7' = r7
  OBVIOUS
<1>1. (\A q \in OfflineRuns : Offline!HasLooked(q) /\ Offline!Trail(q))'
  <2> SUFFICES ASSUME NEW q \in OfflineRuns PROVE (Offline!HasLooked(q) /\ Offline!Trail(q))'
    OBVIOUS
  <2>1. CASE q = p
    BY <2>1
  <2>2. CASE q # p
    <3>1. r1'[q] = r1[q] /\ r2'[q] = r2[q] /\ r3'[q] = r3[q] /\ r4'[q] = r4[q]
      BY <2>2
    <3>2. Offline!HasLooked(q) /\ Offline!Trail(q)
      BY DEF Offline!MemoryInv
    <3>3. Offline!HasLooked(q)'
      BY <1>0, <3>1, <3>2 DEF Offline!HasLooked
    <3> QED
      BY <1>0, <3>1, <3>2, <3>3 DEF Offline!Trail, Offline!Kept, Offline!Readable
  <2> QED
    BY <2>1, <2>2
<1>2. (\A i \in DOMAIN r7 : Offline!Logged(r7[i]))'
  <2> SUFFICES ASSUME NEW i \in DOMAIN r7 PROVE Offline!Logged(r7[i])'
    BY <1>0
  <2>1. r7 \in Seq([run : OfflineRuns, written : BOOLEAN])
    BY DEF Offline!MemoryInv, Offline!TypeOK
  <2>2. r7[i].run \in OfflineRuns
    <3>1. r7[i] \in [run : OfflineRuns, written : BOOLEAN]
      BY <2>1, Elements
    <3> QED
      BY <3>1
  <2>3. Offline!Logged(r7[i])
    BY DEF Offline!MemoryInv
  <2>4. r7[i].run # p
    BY <2>3 DEF Offline!Logged
  <2> QED
    BY <1>0, <2>2, <2>3, <2>4 DEF Offline!Logged
<1>3. Offline!RemembersOnce'
  BY <1>0 DEF Offline!RemembersOnce, Offline!MemoryInv
<1> QED
  BY <1>1, <1>2, <1>3 DEF Offline!MemoryInv

\* The steps of a run that neither store an experience nor end it.
LEMMA OfflineSteps ==
  ASSUME Offline!MemoryInv, NEW p \in OfflineRuns,
         \/ Offline!SearchMemory(p) \/ Offline!Retrieve(p) \/ Offline!Draft(p)
         \/ Offline!CheckDuplicate(p) \/ (Offline!Crash(p) /\ UNCHANGED r6)
  PROVE  Offline!MemoryInv'
<1>1. Offline!TypeOK /\ Offline!HasLooked(p) /\ Offline!Trail(p)
  BY DEF Offline!MemoryInv
<1>2. /\ Offline!TypeOK' /\ UNCHANGED <<r5, r6, r7>> /\ r1[p] # "done"
      /\ \A q \in OfflineRuns \ {p} :
           r1'[q] = r1[q] /\ r2'[q] = r2[q] /\ r3'[q] = r3[q] /\ r4'[q] = r4[q]
  <2>1. CASE Offline!SearchMemory(p)
    BY <1>1, <2>1 DEF Offline!SearchMemory, Offline!Goto, Offline!TypeOK
  <2>2. CASE Offline!Retrieve(p)
    BY <1>1, <2>2 DEF Offline!Retrieve, Offline!Goto, Offline!TypeOK
  <2>3. CASE Offline!Draft(p)
    BY <1>1, <2>3 DEF Offline!Draft, Offline!Goto, Offline!TypeOK
  <2>4. CASE Offline!CheckDuplicate(p)
    <3>1. /\ UNCHANGED <<r2, r3, r5, r6, r7>> /\ r1[p] = "check"
          /\ r4' = [r4 EXCEPT ![p] = Len(r6)]
          /\ \E step \in {"failed", "append", "log", "done"} : r1' = [r1 EXCEPT ![p] = step]
      BY <2>4 DEF Offline!CheckDuplicate, Offline!Goto, Offline!AfterMemory
    <3>2. Len(r6) \in Nat
      BY <1>1 DEF Offline!TypeOK
    <3> QED
      BY <1>1, <3>1, <3>2 DEF Offline!TypeOK
  <2>5. CASE Offline!Crash(p) /\ UNCHANGED r6
    BY <1>1, <2>5 DEF Offline!Crash, Offline!Goto, Offline!TypeOK
  <2> QED
    BY <2>1, <2>2, <2>3, <2>4, <2>5
<1>3. Offline!HasLooked(p)'
  <2>1. CASE Offline!CheckDuplicate(p) /\ r1'[p] = "append"
    <3> DEFINE mine == [task |-> r2[p].task, files |-> r3[p]]
    <3>1. /\ UNCHANGED <<r2, r3, r6>> /\ r4' = [r4 EXCEPT ![p] = Len(r6)]
          /\ Offline!Readable
          /\ ~ \E i \in DOMAIN r6 : Offline!Identity(r6[i]) = Offline!Identity(mine)
      BY <1>1, <2>1 DEF Offline!CheckDuplicate, Offline!Goto, Offline!AfterMemory, Offline!TypeOK
    <3>2. r4'[p] = Len(r6) /\ Len(r6) \in Nat /\ DOMAIN r6 = 1 .. Len(r6)
      BY <1>1, <3>1 DEF Offline!TypeOK
    <3> HIDE DEF mine
    <3>3. \A i \in 1 .. r4'[p] : r6[i] # OfflineTorn /\ Offline!Identity(r6[i]) # Offline!Identity(mine)
      BY <3>1, <3>2 DEF Offline!Readable, Offline!Range
    <3> QED
      BY <3>1, <3>2, <3>3 DEF Offline!HasLooked, mine
  <2>2. CASE r1'[p] # "append"
    BY <2>2 DEF Offline!HasLooked
  <2> QED
    BY <1>1, <2>1, <2>2 DEF Offline!SearchMemory, Offline!Retrieve, Offline!Draft,
       Offline!Crash, Offline!Goto, Offline!TypeOK
<1>4. Offline!Trail(p)'
  <2>1. Offline!Kept(p)' = Offline!Kept(p) /\ Offline!Readable' = Offline!Readable
    BY <1>2 DEF Offline!Kept, Offline!Readable
  <2>2. CASE Offline!SearchMemory(p)
    BY <1>1, <1>2, <2>1, <2>2 DEF Offline!SearchMemory, Offline!Goto, Offline!TypeOK, Offline!Trail
  <2>3. CASE Offline!Retrieve(p)
    BY <1>1, <1>2, <2>1, <2>3 DEF Offline!Retrieve, Offline!Goto, Offline!TypeOK, Offline!Trail
  <2>4. CASE Offline!Draft(p)
    BY <1>1, <1>2, <2>1, <2>4 DEF Offline!Draft, Offline!Goto, Offline!TypeOK, Offline!Trail
  <2>5. CASE Offline!CheckDuplicate(p)
    BY <1>1, <1>2, <2>1, <2>5 DEF Offline!CheckDuplicate, Offline!Goto, Offline!AfterMemory,
       Offline!TypeOK, Offline!Trail
  <2>6. CASE Offline!Crash(p) /\ UNCHANGED r6
    BY <1>1, <1>2, <2>1, <2>6 DEF Offline!Crash, Offline!Goto, Offline!TypeOK, Offline!Trail
  <2> QED
    BY <2>2, <2>3, <2>4, <2>5, <2>6
<1> QED
  BY <1>2, <1>3, <1>4, OfflineQuiet

\* A step that leaves a trace in the memory file: the record, or half of it.
LEMMA OfflineWrites ==
  ASSUME Offline!MemoryInv, NEW p \in OfflineRuns,
         Offline!AppendMemory(p) \/ (Offline!Crash(p) /\ ~UNCHANGED r6)
  PROVE  Offline!MemoryInv'
<1>1. Offline!TypeOK /\ Offline!HasLooked(p) /\ Offline!Trail(p) /\ r1[p] = "append"
  BY DEF Offline!MemoryInv, Offline!AppendMemory, Offline!Crash
<1> DEFINE blind == Len(r6) > r4[p]
           Mine == [task |-> r2[p].task, files |-> r3[p], run |-> p, blind |-> blind]
<1>2. Mine \in Offline!Records /\ Mine # OfflineTorn
  <2>1. r2[p].task \in OfflineTasks /\ r3[p] \in OfflineHits
    BY <1>1 DEF Offline!TypeOK, Offline!Trail, Offline!Configs
  <2>2. blind \in BOOLEAN
    OBVIOUS
  <2> HIDE DEF blind
  <2> QED
    BY <2>1, <2>2, OfflineAssumption DEF Offline!Records
<1>3. /\ UNCHANGED <<r2, r3, r4, r7>>
      /\ \E step \in {"log", "done", "dead"} : r1' = [r1 EXCEPT ![p] = step]
      /\ \/ r6' = Append(r6, Mine) /\ r5' = [r5 EXCEPT ![p] = TRUE]
         \/ r6' = Append(r6, OfflineTorn) /\ r5' = r5 /\ r1'[p] = "dead"
         \/ /\ r6' = r6 /\ r6 # <<>> /\ r6[Len(r6)] = OfflineTorn
            /\ r5' = [r5 EXCEPT ![p] = TRUE] /\ r1'[p] # "dead"
  <2>1. r1 = [q \in OfflineRuns |-> r1[q]]
    BY <1>1 DEF Offline!TypeOK
  <2>2. CASE Offline!AppendMemory(p)
    <3>1. /\ UNCHANGED <<r2, r3, r4, r7>> /\ r5' = [r5 EXCEPT ![p] = TRUE]
          /\ \E step \in {"log", "done"} : r1' = [r1 EXCEPT ![p] = step]
      BY <2>2 DEF Offline!AppendMemory, Offline!Goto, Offline!AfterMemory
    <3>2. \/ r6' = Append(r6, Mine)
          \/ r6' = r6 /\ r6 # <<>> /\ r6[Len(r6)] = OfflineTorn
      BY <2>2 DEF Offline!AppendMemory
    <3> HIDE DEF Mine
    <3> QED
      BY <2>1, <3>1, <3>2
  <2>3. CASE Offline!Crash(p) /\ ~UNCHANGED r6
    BY <2>1, <2>3 DEF Offline!Crash, Offline!Goto
  <2> QED
    BY <2>2, <2>3
<1>4. r6 \in Seq(Offline!Records \cup {OfflineTorn}) /\ Mine.run = p
  BY <1>1 DEF Offline!TypeOK
<1> HIDE DEF Mine
<1>5. Len(r6) \in Nat /\ DOMAIN r6 = 1 .. Len(r6)
  BY <1>4
<1>6. /\ r6' \in Seq(Offline!Records \cup {OfflineTorn})
      /\ Len(r6) <= Len(r6') /\ Len(r6') \in Nat
      /\ DOMAIN r6' = 1 .. Len(r6')
      /\ \A i \in DOMAIN r6 : i \in DOMAIN r6' /\ r6'[i] = r6[i]
      /\ \A i \in DOMAIN r6' \ DOMAIN r6 : i = Len(r6) + 1 /\ r6'[i] \in {Mine, OfflineTorn}
  <2>1. CASE r6' = r6
    BY <1>4, <1>5, <2>1
  <2>2. ASSUME NEW x \in {Mine, OfflineTorn}, r6' = Append(r6, x)
        PROVE  /\ r6' \in Seq(Offline!Records \cup {OfflineTorn})
               /\ Len(r6) <= Len(r6') /\ Len(r6') \in Nat
               /\ DOMAIN r6' = 1 .. Len(r6')
               /\ \A i \in DOMAIN r6 : i \in DOMAIN r6' /\ r6'[i] = r6[i]
               /\ \A i \in DOMAIN r6' \ DOMAIN r6 : i = Len(r6) + 1 /\ r6'[i] \in {Mine, OfflineTorn}
    <3>1. x \in Offline!Records \cup {OfflineTorn}
      BY <1>2
    <3>2. /\ r6' \in Seq(Offline!Records \cup {OfflineTorn})
          /\ DOMAIN r6' = 1 .. (Len(r6) + 1) /\ Len(r6') = Len(r6) + 1
          /\ \A i \in DOMAIN r6 : r6'[i] = r6[i]
          /\ r6'[Len(r6) + 1] = x
      BY <1>4, <2>2, <3>1, Appended
    <3> QED
      BY <1>5, <3>2
  <2> QED
    BY <1>3, <2>1, <2>2
<1>7. Offline!TypeOK'
  BY <1>1, <1>3, <1>6 DEF Offline!TypeOK
<1>8. \A q \in OfflineRuns \ {p} :
        r1'[q] = r1[q] /\ r2'[q] = r2[q] /\ r3'[q] = r3[q] /\ r4'[q] = r4[q] /\ r5'[q] = r5[q]
  BY <1>1, <1>3 DEF Offline!TypeOK
<1>9. r1'[p] \in {"log", "done", "dead"}
  BY <1>1, <1>3 DEF Offline!TypeOK
<1>10. (\A q \in OfflineRuns : Offline!HasLooked(q))'
  <2> SUFFICES ASSUME NEW q \in OfflineRuns PROVE Offline!HasLooked(q)'
    OBVIOUS
  <2>1. CASE q = p
    BY <1>9, <2>1 DEF Offline!HasLooked
  <2>2. CASE q # p
    <3>1. Offline!HasLooked(q) /\ r4[q] \in Nat
      BY DEF Offline!MemoryInv, Offline!TypeOK
    <3>2. r1'[q] = r1[q] /\ r2'[q] = r2[q] /\ r3'[q] = r3[q] /\ r4'[q] = r4[q]
      BY <1>8, <2>2
    <3> QED
      BY <1>5, <1>6, <3>1, <3>2 DEF Offline!HasLooked
  <2> QED
    BY <2>1, <2>2
<1>11. ~Offline!Readable => ~Offline!Readable'
  BY <1>6 DEF Offline!Readable, Offline!Range
<1>12. \A q \in OfflineRuns \ {p} : Offline!Trail(q)'
  <2> SUFFICES ASSUME NEW q \in OfflineRuns \ {p} PROVE Offline!Trail(q)'
    OBVIOUS
  <2>1. Offline!Trail(q)
    BY DEF Offline!MemoryInv
  <2>2. Offline!Kept(q)' <=> Offline!Kept(q)
    BY <1>4, <1>6 DEF Offline!Kept
  <2> QED
    BY <1>8, <1>11, <2>1, <2>2 DEF Offline!Trail
<1>13. Offline!Trail(p)'
  <2>1. r2[p] \in Offline!Configs /\ ~r2[p].safe /\ ~r5[p] /\ ~Offline!Kept(p)
    BY <1>1 DEF Offline!Trail
  <2>2. CASE r6' = Append(r6, Mine) /\ r5' = [r5 EXCEPT ![p] = TRUE]
    <3>1. r5'[p] /\ Offline!Kept(p)'
      <4>1. Len(r6) + 1 \in DOMAIN r6' /\ r6'[Len(r6) + 1] = Mine
        <5>1. Mine \in Offline!Records \cup {OfflineTorn}
          BY <1>2
        <5>2. DOMAIN r6' = 1 .. (Len(r6) + 1) /\ r6'[Len(r6) + 1] = Mine
          BY <1>4, <2>2, <5>1, Appended
        <5> QED
          BY <1>5, <5>2
      <4> QED
        BY <1>1, <1>2, <1>4, <2>2, <4>1 DEF Offline!TypeOK, Offline!Kept
    <3>2. r1'[p] # "dead" => r1'[p] \in {"log", "done"}
      BY <1>9
    <3> QED
      BY <1>3, <1>9, <2>1, <3>1, <3>2 DEF Offline!Trail
  <2>3. CASE r6' = Append(r6, OfflineTorn) /\ r5' = r5 /\ r1'[p] = "dead"
    <3>1. ~Offline!Kept(p)'
      <4>1. \A j \in DOMAIN r6' :
              (j \in DOMAIN r6 /\ r6'[j] = r6[j]) \/ r6'[j] = OfflineTorn
        <5>1. /\ DOMAIN r6' = 1 .. (Len(r6) + 1) /\ r6'[Len(r6) + 1] = OfflineTorn
              /\ \A j \in DOMAIN r6 : r6'[j] = r6[j]
          BY <1>4, <2>3, Appended
        <5> QED
          BY <1>5, <5>1
      <4> QED
        BY <2>1, <4>1 DEF Offline!Kept
    <3> QED
      BY <1>3, <2>1, <2>3, <3>1 DEF Offline!Trail
  <2>4. CASE /\ r6' = r6 /\ r6 # <<>> /\ r6[Len(r6)] = OfflineTorn
             /\ r5' = [r5 EXCEPT ![p] = TRUE] /\ r1'[p] # "dead"
    <3>1. ~Offline!Readable'
      BY <1>4, <1>5, <2>4 DEF Offline!Readable, Offline!Range
    <3>2. r5'[p] = TRUE
      BY <1>1, <2>4 DEF Offline!TypeOK
    <3> QED
      BY <1>3, <1>9, <2>1, <2>4, <3>1, <3>2 DEF Offline!Trail
  <2> QED
    BY <1>3, <2>2, <2>3, <2>4
<1>14. (\A i \in DOMAIN r7 : Offline!Logged(r7[i]))'
  <2> SUFFICES ASSUME NEW i \in DOMAIN r7 PROVE Offline!Logged(r7[i])'
    BY <1>3
  <2>1. Offline!Logged(r7[i]) /\ r7' = r7
    BY <1>3 DEF Offline!MemoryInv
  <2>2. r7[i].run \in OfflineRuns
    <3>1. r7 \in Seq([run : OfflineRuns, written : BOOLEAN])
      BY <1>1 DEF Offline!TypeOK
    <3>2. r7[i] \in [run : OfflineRuns, written : BOOLEAN]
      BY <3>1, Elements
    <3> QED
      BY <3>2
  <2>3. r7[i].run # p
    BY <1>1, <2>1 DEF Offline!Logged
  <2> QED
    BY <1>8, <2>1, <2>2, <2>3 DEF Offline!Logged
<1>15. Offline!RemembersOnce'
  <2> SUFFICES ASSUME NEW i \in DOMAIN r6', NEW j \in DOMAIN r6',
                      i < j, OfflineTorn \notin {r6'[i], r6'[j]},
                      r6'[i].task = r6'[j].task,
                      Offline!Range(r6'[i].files) = Offline!Range(r6'[j].files)
               PROVE  r6'[j].blind
    BY DEF Offline!RemembersOnce
  <2>1. i \in DOMAIN r6 /\ r6'[i] = r6[i]
    BY <1>5, <1>6
  <2>2. CASE j \in DOMAIN r6
    <3>1. Offline!RemembersOnce
      BY DEF Offline!MemoryInv
    <3> QED
      BY <1>6, <2>1, <2>2, <3>1 DEF Offline!RemembersOnce
  <2>3. CASE j \notin DOMAIN r6
    <3>1. r6'[j] = Mine
      BY <1>6, <2>3
    <3>2. Offline!HasLooked(p) /\ r4[p] \in Nat
      BY <1>1 DEF Offline!TypeOK
    <3>3. \/ i > r4[p]
          \/ Offline!Identity(r6[i]) # Offline!Identity([task |-> r2[p].task, files |-> r3[p]])
      BY <1>1, <1>5, <2>1, <3>2 DEF Offline!HasLooked
    <3>4. Offline!Identity(r6[i]) = Offline!Identity([task |-> r2[p].task, files |-> r3[p]])
      BY <2>1, <3>1 DEF Offline!Identity, Mine
    <3>5. Mine.blind = (Len(r6) > r4[p])
      BY DEF Mine
    <3>6. Len(r6) > r4[p]
      BY <1>5, <2>1, <3>2, <3>3, <3>4
    <3> QED
      BY <3>1, <3>5, <3>6
  <2> QED
    BY <2>2, <2>3
<1> QED
  BY <1>7, <1>10, <1>12, <1>13, <1>14, <1>15 DEF Offline!MemoryInv

\* A run that is logged is done, and told truly.
LEMMA OfflineLogs ==
  ASSUME Offline!MemoryInv, NEW p \in OfflineRuns, Offline!AppendLog(p)
  PROVE  Offline!MemoryInv'
<1>1. /\ UNCHANGED <<r2, r3, r4, r5, r6>> /\ r1[p] = "log"
      /\ r1' = [r1 EXCEPT ![p] = "done"]
      /\ r7' = Append(r7, [run |-> p, written |-> r5[p]])
  BY DEF Offline!AppendLog, Offline!Goto, Offline!LogRecord
<1>2. r2' = r2 /\ r3' = r3 /\ r4' = r4 /\ r5' = r5 /\ r6' = r6
  BY <1>1
<1>3. Offline!TypeOK
  BY DEF Offline!MemoryInv
<1>4. r7 \in Seq([run : OfflineRuns, written : BOOLEAN]) /\ r5[p] \in BOOLEAN
  BY <1>3 DEF Offline!TypeOK
<1>5. [run |-> p, written |-> r5[p]] \in [run : OfflineRuns, written : BOOLEAN]
  BY <1>4
<1>6. Offline!TypeOK'
  BY <1>1, <1>2, <1>3, <1>4, <1>5 DEF Offline!TypeOK
<1>7. \A q \in OfflineRuns : r1'[q] = IF q = p THEN "done" ELSE r1[q]
  BY <1>1, <1>3 DEF Offline!TypeOK
<1>8. (\A q \in OfflineRuns : Offline!HasLooked(q) /\ Offline!Trail(q))'
  <2> SUFFICES ASSUME NEW q \in OfflineRuns PROVE (Offline!HasLooked(q) /\ Offline!Trail(q))'
    OBVIOUS
  <2>1. Offline!HasLooked(q) /\ Offline!Trail(q)
    BY DEF Offline!MemoryInv
  <2>2. Offline!HasLooked(q)'
    BY <1>2, <1>7, <2>1 DEF Offline!HasLooked
  <2>3. (Offline!Kept(q)' <=> Offline!Kept(q)) /\ (Offline!Readable' <=> Offline!Readable)
    BY <1>2 DEF Offline!Kept, Offline!Readable
  <2>4. r2'[q] = r2[q] /\ r3'[q] = r3[q] /\ r5'[q] = r5[q]
    BY <1>2
  <2>5. CASE q = p
    <3>1. r1'[q] = "done" /\ r1[q] = "log"
      BY <1>1, <1>7, <2>5
    <3> QED
      BY <2>1, <2>2, <2>3, <2>4, <3>1 DEF Offline!Trail
  <2>6. CASE q # p
    <3>1. r1'[q] = r1[q]
      BY <1>7, <2>6
    <3> QED
      BY <2>1, <2>2, <2>3, <2>4, <3>1 DEF Offline!Trail
  <2> QED
    BY <2>5, <2>6
<1>9. (\A i \in DOMAIN r7 : Offline!Logged(r7[i]))'
  <2> SUFFICES ASSUME NEW i \in DOMAIN r7' PROVE Offline!Logged(r7[i])'
    OBVIOUS
  <2>1. CASE i \in DOMAIN r7
    <3>1. r7'[i] = r7[i] /\ Offline!Logged(r7[i])
      BY <1>1, <1>4, <2>1 DEF Offline!MemoryInv
    <3>2. r7[i].run \in OfflineRuns
      <4>1. r7[i] \in [run : OfflineRuns, written : BOOLEAN]
        BY <1>4, <2>1, Elements
      <4> QED
        BY <4>1
    <3> QED
      BY <1>2, <1>7, <3>1, <3>2 DEF Offline!Logged
  <2>2. CASE i \notin DOMAIN r7
    <3>1. r7'[i] = [run |-> p, written |-> r5[p]]
      BY <1>1, <1>4, <2>2
    <3>2. ~r2[p].safe
      BY <1>1 DEF Offline!MemoryInv, Offline!Trail
    <3> QED
      BY <1>2, <1>7, <3>1, <3>2 DEF Offline!Logged
  <2> QED
    BY <2>1, <2>2
<1>10. Offline!RemembersOnce'
  BY <1>2 DEF Offline!RemembersOnce, Offline!MemoryInv
<1> QED
  BY <1>6, <1>8, <1>9, <1>10 DEF Offline!MemoryInv

\* Every step of every run, its death in the middle of a line included.
LEMMA OfflineStep == Offline!MemoryInv /\ Offline!Next => Offline!MemoryInv'
<1> SUFFICES ASSUME Offline!MemoryInv, NEW p \in OfflineRuns,
                    \/ Offline!SearchMemory(p) \/ Offline!Retrieve(p) \/ Offline!Draft(p)
                    \/ Offline!CheckDuplicate(p) \/ Offline!AppendMemory(p)
                    \/ Offline!AppendLog(p) \/ Offline!Crash(p)
             PROVE  Offline!MemoryInv'
  BY DEF Offline!Next
<1>1. CASE Offline!Crash(p)
  BY <1>1, OfflineSteps, OfflineWrites
<1>2. CASE Offline!AppendMemory(p)
  BY <1>2, OfflineWrites
<1>3. CASE Offline!AppendLog(p)
  BY <1>3, OfflineLogs
<1>4. CASE \/ Offline!SearchMemory(p) \/ Offline!Retrieve(p) \/ Offline!Draft(p)
           \/ Offline!CheckDuplicate(p)
  BY <1>4, OfflineSteps
<1> QED
  BY <1>1, <1>2, <1>3, <1>4

\* A run whose records are honest is honest about them.
LEMMA OfflineHonest == Offline!MemoryInv => Offline!MemoryIsHonest
<1> SUFFICES ASSUME Offline!MemoryInv PROVE Offline!LogTellsTheMemory
  BY DEF Offline!MemoryInv, Offline!MemoryIsHonest
<1>1. Offline!TypeOK
  BY DEF Offline!MemoryInv
<1>2. ASSUME NEW i \in DOMAIN r7
      PROVE  /\ r7[i].run \in OfflineRuns /\ Offline!Logged(r7[i]) /\ Offline!Trail(r7[i].run)
  <2>1. r7[i] \in [run : OfflineRuns, written : BOOLEAN]
    BY <1>1, Elements DEF Offline!TypeOK
  <2> QED
    BY <2>1 DEF Offline!MemoryInv
<1>3. ASSUME NEW j \in DOMAIN r6, r6[j] # OfflineTorn
      PROVE  ~r2[r6[j].run].safe
  <2>1. r6[j] \in Offline!Records
    BY <1>1, <1>3, Elements DEF Offline!TypeOK
  <2>2. r6[j].run \in OfflineRuns /\ Offline!Kept(r6[j].run)
    BY <1>3, <2>1 DEF Offline!Records, Offline!Kept
  <2> QED
    BY <2>2 DEF Offline!MemoryInv, Offline!Trail
<1> QED
  BY <1>2, <1>3 DEF Offline!LogTellsTheMemory, Offline!Logged, Offline!Trail, Offline!Kept

\* The memory has an experience once, unless another run wrote between a run's
\* look and its record; the log is true about the memory, however many runs
\* share the two files and wherever they die (memory.py:57).
THEOREM MemoryStaysHonest == Spec => []MemoryIsHonest
<1> DEFINE Inv == part = "offline" => Offline!MemoryInv
<1>1. Init => Inv
  BY OfflineInit
<1>2. Inv /\ [Next]_vars => Inv'
  <2> SUFFICES ASSUME Inv, [Next]_vars, part' = "offline" PROVE Offline!MemoryInv'
    OBVIOUS
  <2>1. CASE UNCHANGED vars
    <3>1. /\ part' = part /\ r1' = r1 /\ r2' = r2 /\ r3' = r3 /\ r4' = r4
          /\ r5' = r5 /\ r6' = r6 /\ r7' = r7
      BY <2>1 DEF vars
    <3> QED
      BY <3>1 DEF Offline!MemoryInv, Offline!TypeOK, Offline!HasLooked, Offline!Trail,
         Offline!Kept, Offline!Readable, Offline!Logged, Offline!RemembersOnce
  <2>2. CASE Next
    <3>1. part = "offline" /\ Offline!Next
      BY <2>2 DEF Next
    <3> QED
      BY <3>1, OfflineStep
  <2> QED
    BY <2>1, <2>2
<1>3. Inv => MemoryIsHonest
  BY OfflineHonest DEF MemoryIsHonest
<1> QED
  BY <1>1, <1>2, <1>3, PTL DEF Spec

-----------------------------------------------------------------------------
(***************************************************************************)
(* CommandLine.  r2 is pc, r6 the run, r8 the snapshots that were          *)
(* reported, r9 those that were printed, r10 failed, r12 the exit.         *)
(***************************************************************************)

\* The elements of a sequence that are in a set; the others are zero.
Taken(t, S) == [i \in DOMAIN t |-> IF i \in S THEN t[i] ELSE 0]

\* What is taken of a sequence of numbers is one, of the same length.
LEMMA TakenIsSeq ==
  ASSUME NEW t \in Seq(Nat), NEW S
  PROVE  /\ Taken(t, S) \in Seq(Int) /\ Len(Taken(t, S)) = Len(t)
         /\ \A i \in 1 .. Len(t) : Taken(t, S)[i] = IF i \in S THEN t[i] ELSE 0
<1>1. Len(t) \in Nat /\ DOMAIN t = 1 .. Len(t) /\ \A i \in 1 .. Len(t) : t[i] \in Nat
  OBVIOUS
<1>2. Taken(t, S) \in [1 .. Len(t) -> Int]
  BY <1>1 DEF Taken
<1> QED
  BY <1>1, <1>2, FunctionIsSeq DEF Taken

\* Nothing has the sum 0, and one more element adds itself.
LEMMA TakenAdds ==
  ASSUME NEW t \in Seq(Nat)
  PROVE  /\ Sum(Taken(t, {})) = 0
         /\ \A S : \A i \in 1 .. Len(t) : i \notin S =>
              Sum(Taken(t, S \cup {i})) = Sum(Taken(t, S)) + t[i]
<1>1. Sum(Taken(t, {})) = 0
  <2> DEFINE f == Taken(t, {})
  <2>1. f \in Seq(Int) /\ \A i \in 1 .. Len(f) : f[i] = 0
    BY TakenIsSeq
  <2> HIDE DEF f
  <2>2. Sum(f) = 0
    BY <2>1, SumOfZeros
  <2> QED
    BY <2>2 DEF f
<1>2. ASSUME NEW S, NEW i \in 1 .. Len(t), i \notin S
      PROVE  Sum(Taken(t, S \cup {i})) = Sum(Taken(t, S)) + t[i]
  <2> DEFINE f == Taken(t, S)
             h == Taken(t, S \cup {i})
  <2>1. f \in Seq(Int) /\ Len(f) = Len(t) /\ f[i] = 0
    BY <1>2, TakenIsSeq
  <2>2. h \in Seq(Int) /\ Len(h) = Len(t) /\ h[i] = t[i]
    BY <1>2, TakenIsSeq
  <2>3. \A k \in 1 .. Len(t) : k # i => h[k] = f[k]
    <3>1. /\ \A k \in 1 .. Len(t) : f[k] = IF k \in S THEN t[k] ELSE 0
          /\ \A k \in 1 .. Len(t) : h[k] = IF k \in S \cup {i} THEN t[k] ELSE 0
      BY TakenIsSeq
    <3> HIDE DEF f, h
    <3> QED
      BY <3>1
  <2>4. t[i] \in Nat
    OBVIOUS
  <2> HIDE DEF f, h
  <2>5. t[i] \in Int /\ h[i] = f[i] + t[i]
    BY <2>1, <2>2, <2>4
  <2>6. Sum(h) = Sum(f) + t[i]
    BY <2>1, <2>2, <2>3, <2>5, SumChanges
  <2> QED
    BY <2>6 DEF f, h
<1> QED
  BY <1>1, <1>2

\* The numbers of CommandLine are those of Numbers.
LEMMA CliNumbers ==
  /\ \A f : Cli!Sum(f) = Sum(f)
  /\ \A S : Cli!Greatest(S) = Greatest(S)
  /\ \A S : Cli!Cardinality(S) = Cardinality(S)
<1>1. ASSUME NEW f PROVE Cli!Sum(f) = Sum(f)
  <2>1. Cli!Sums(f) = Sums(f)
    BY Zenon DEF Cli!Sums, Sums
  <2> QED
    BY <2>1, Zenon DEF Cli!Sum, Sum
<1>2. ASSUME NEW S PROVE Cli!Greatest(S) = Greatest(S)
  BY Zenon DEF Cli!Greatest, Greatest
<1>3. ASSUME NEW S PROVE Cli!Cardinality(S) = Cardinality(S)
  BY DEF Cli!Cardinality, Cardinality
<1> QED
  BY <1>1, <1>2, <1>3

\* The places at which the turns are looked at, and what may be chosen.
Place(t, n) == IF n = 1 THEN 1 ELSE Len(t) + 2 - n
Chosen(t) == [left : Nat, turns : SUBSET (1 .. Len(t)), more : BOOLEAN]

\* A turn that is looked at is taken, or left and nothing after it is taken.
LEMMA CliFits ==
  ASSUME NEW t \in Seq(Nat), NEW c \in Chosen(t), NEW i \in 1 .. Len(t)
  PROVE  /\ Cli!Fit(t, c, i) \in Chosen(t)
         /\ ~ c.more => Cli!Fit(t, c, i) = c
         /\ c.more /\ t[i] > c.left =>
              /\ Cli!Fit(t, c, i).left = c.left /\ Cli!Fit(t, c, i).turns = c.turns
              /\ Cli!Fit(t, c, i).more <=> i = 1
         /\ c.more /\ ~ (t[i] > c.left) =>
              /\ Cli!Fit(t, c, i).left = c.left - t[i] /\ Cli!Fit(t, c, i).turns = c.turns \cup {i}
              /\ Cli!Fit(t, c, i).more
<1>1. t[i] \in Nat /\ c.left \in Nat /\ c.turns \subseteq 1 .. Len(t) /\ c.more \in BOOLEAN
  BY DEF Chosen
<1>2. CASE ~ c.more
  BY <1>2 DEF Cli!Fit
<1>3. CASE c.more /\ t[i] > c.left
  BY <1>1, <1>3 DEF Cli!Fit, Chosen
<1>4. CASE c.more /\ ~ (t[i] > c.left)
  <2>1. c.left - t[i] \in Nat /\ c.turns \cup {i} \subseteq 1 .. Len(t)
    BY <1>1, <1>4
  <2> QED
    BY <1>1, <1>4, <2>1 DEF Cli!Fit, Chosen
<1> QED
  BY <1>2, <1>3, <1>4

\* The choices are what their definition says.
LEMMA CliChoices ==
  ASSUME NEW t \in Seq(Nat)
  PROVE  /\ Cli!Choices(t)[0] = [left |-> CliMaxChars, turns |-> {}, more |-> TRUE]
         /\ \A n \in 0 .. Len(t) : Cli!Choices(t)[n] \in Chosen(t)
         /\ \A n \in 1 .. Len(t) : /\ Place(t, n) \in 1 .. Len(t)
                                   /\ Cli!Choices(t)[n] = Cli!Fit(t, Cli!Choices(t)[n - 1], Place(t, n))
<1> DEFINE T == Chosen(t)
           N == Len(t)
           b == [left |-> CliMaxChars, turns |-> {}, more |-> TRUE]
           step == [p \in T \X (1 .. N) |-> Cli!Fit(t, p[1], Place(t, p[2]))]
<1>1. N \in Nat /\ \A n \in 1 .. N : Place(t, n) \in 1 .. N
  BY DEF Place
<1>2. b \in T
  BY CliAssumption DEF Chosen
<1>3. step \in [T \X (1 .. N) -> T]
  <2> SUFFICES ASSUME NEW p \in T \X (1 .. N) PROVE Cli!Fit(t, p[1], Place(t, p[2])) \in T
    BY Zenon
  <2>1. p[1] \in Chosen(t) /\ Place(t, p[2]) \in 1 .. Len(t)
    BY <1>1
  <2> QED
    BY <2>1, CliFits
<1>4. \A c \in T, n \in 1 .. N : step[<<c, n>>] = Cli!Fit(t, c, Place(t, n))
  OBVIOUS
<1>5. PICK g \in [0 .. N -> T] : g[0] = b /\ \A n \in 1 .. N : g[n] = step[<<g[n - 1], n>>]
  <2> HIDE DEF step, T, b, N
  <2>1. \E g : Iterates(g, N, T, b, step)
    BY <1>1, <1>2, <1>3, LoopsCompute
  <2> QED
    BY <2>1 DEF Iterates
<1>6. \A n \in 1 .. N : g[n] = Cli!Fit(t, g[n - 1], Place(t, n))
  <2> SUFFICES ASSUME NEW n \in 1 .. N PROVE g[n] = Cli!Fit(t, g[n - 1], Place(t, n))
    OBVIOUS
  <2>1. n - 1 \in 0 .. N
    BY <1>1
  <2> QED
    BY <1>4, <1>5, <2>1
<1>7. g = [n \in 0 .. N |-> IF n = 0 THEN b ELSE Cli!Fit(t, g[n - 1], Place(t, n))]
  <2>1. \A n \in 0 .. N : g[n] = IF n = 0 THEN b ELSE Cli!Fit(t, g[n - 1], Place(t, n))
    <3>1. \A n \in 0 .. N : n # 0 => n \in 1 .. N
      BY <1>1
    <3> QED
      BY <1>5, <1>6, <3>1
  <2> HIDE DEF b, T, N
  <2> QED
    BY <1>5, <2>1
<1>8. g = [n \in 0 .. Len(t) |->
             IF n = 0 THEN [left |-> CliMaxChars, turns |-> {}, more |-> TRUE]
             ELSE Cli!Fit(t, g[n - 1], IF n = 1 THEN 1 ELSE Len(t) + 2 - n)]
  BY <1>7, Zenon DEF Place
<1> DEFINE C == Cli!Choices(t)
<1>9. C = [n \in 0 .. N |-> IF n = 0 THEN b ELSE Cli!Fit(t, C[n - 1], Place(t, n))]
  BY <1>8, Zenon DEF Cli!Choices, Place
<1> HIDE DEF C, T, b, N
<1>10. C[0] = b /\ \A n \in 1 .. N : C[n] = Cli!Fit(t, C[n - 1], Place(t, n))
  BY <1>1, <1>9
<1>11. \A n \in 0 .. N : C[n] \in T
  <2>1. C[0] \in T
    BY <1>2, <1>10
  <2>2. ASSUME NEW n \in 1 .. N, C[n - 1] \in T PROVE C[n] \in T
    <3>1. Place(t, n) \in 1 .. Len(t) /\ C[n - 1] \in Chosen(t)
      BY <1>1, <2>2 DEF N, T
    <3>2. Cli!Fit(t, C[n - 1], Place(t, n)) \in Chosen(t)
      BY <3>1, CliFits
    <3> QED
      BY <1>10, <3>2 DEF T
  <2> QED
    BY <1>1, <2>1, <2>2, StepByStep
<1> QED
  BY <1>1, <1>10, <1>11 DEF C, T, b, N

\* What has been chosen after n turns were looked at, as far as more are: the
\* latest ones without a gap, and the sizes are taken from what was left.
GoodChoice(t, n, c) ==
  /\ c.left + Sum(Taken(t, c.turns)) = CliMaxChars
  /\ n > 0 => (1 \in c.turns <=> t[1] <= CliMaxChars)
  /\ n = 0 => c.turns = {} /\ c.more
  /\ n > 0 /\ c.more => c.turns \ {1} = (Len(t) + 2 - n) .. Len(t)
  /\ n > 0 /\ ~ c.more =>
       \E m \in 2 .. Len(t) : c.turns \ {1} = (m + 1) .. Len(t) /\ t[m] > c.left

\* Every turn that is looked at keeps it.
LEMMA CliChoiceStep ==
  ASSUME NEW t \in Seq(Nat), NEW n \in 1 .. Len(t), NEW c \in Chosen(t), GoodChoice(t, n - 1, c)
  PROVE  GoodChoice(t, n, Cli!Fit(t, c, Place(t, n)))
<1> DEFINE N == Len(t)
<1>0. PICK i, d : i = Place(t, n) /\ d = Cli!Fit(t, c, i)
  OBVIOUS
<1> SUFFICES GoodChoice(t, n, d)
  BY <1>0
<1>1. N \in Nat /\ n \in Nat /\ n >= 1 /\ n <= N /\ i \in 1 .. N /\ (i = 1 <=> n = 1)
      /\ (n > 1 => i = N + 2 - n)
  BY <1>0 DEF Place
<1>2. t[i] \in Nat /\ c.left \in Nat /\ c.turns \subseteq 1 .. N /\ c.more \in BOOLEAN /\ t[1] \in Nat
  BY <1>1 DEF Chosen
<1>3. /\ d \in Chosen(t)
      /\ ~ c.more => d = c
      /\ c.more /\ t[i] > c.left =>
           /\ d.left = c.left /\ d.turns = c.turns
           /\ d.more <=> i = 1
      /\ c.more /\ ~ (t[i] > c.left) =>
           /\ d.left = c.left - t[i] /\ d.turns = c.turns \cup {i}
           /\ d.more
  <2>1. PICK k \in 1 .. Len(t) : k = i
    BY <1>1
  <2>2. /\ Cli!Fit(t, c, k) \in Chosen(t)
        /\ ~ c.more => Cli!Fit(t, c, k) = c
        /\ c.more /\ t[k] > c.left =>
             /\ Cli!Fit(t, c, k).left = c.left /\ Cli!Fit(t, c, k).turns = c.turns
             /\ Cli!Fit(t, c, k).more <=> k = 1
        /\ c.more /\ ~ (t[k] > c.left) =>
             /\ Cli!Fit(t, c, k).left = c.left - t[k] /\ Cli!Fit(t, c, k).turns = c.turns \cup {k}
             /\ Cli!Fit(t, c, k).more
    BY CliFits, Zenon
  <2>3. d = Cli!Fit(t, c, k)
    BY <1>0, <2>1, Zenon
  <2> QED
    BY <2>1, <2>2, <2>3, Zenon
<1>4. CASE ~ c.more
  <2>1. d = c
    BY <1>3, <1>4
  <2>2. n - 1 > 0 /\ n > 0 /\ n # 0
    BY <1>1, <1>4 DEF GoodChoice
  <2>3. GoodChoice(t, n, c)
    <3>1. /\ c.left + Sum(Taken(t, c.turns)) = CliMaxChars
          /\ 1 \in c.turns <=> t[1] <= CliMaxChars
          /\ \E m \in 2 .. Len(t) : c.turns \ {1} = (m + 1) .. Len(t) /\ t[m] > c.left
      BY <1>4, <2>2, Zenon DEF GoodChoice
    <3>2. n > 0 => (1 \in c.turns <=> t[1] <= CliMaxChars)
      BY <3>1, Zenon
    <3>3. n = 0 => c.turns = {} /\ c.more
      BY <2>2, Zenon
    <3>4. n > 0 /\ c.more => c.turns \ {1} = (Len(t) + 2 - n) .. Len(t)
      BY <1>4, Zenon
    <3>5. n > 0 /\ ~ c.more =>
            \E m \in 2 .. Len(t) : c.turns \ {1} = (m + 1) .. Len(t) /\ t[m] > c.left
      BY <3>1, Zenon
    <3> QED
      BY <3>1, <3>2, <3>3, <3>4, <3>5, Zenon DEF GoodChoice
  <2> QED
    BY <2>1, <2>3
<1>5. CASE c.more /\ t[i] > c.left
  <2>1. d.left = c.left /\ d.turns = c.turns /\ (d.more <=> i = 1)
    BY <1>3, <1>5, Zenon
  <2>2. d.left + Sum(Taken(t, d.turns)) = CliMaxChars
    BY <2>1 DEF GoodChoice
  <2>3. CASE n = 1
    <3>1. c.turns = {} /\ i = 1
      BY <1>1, <2>3 DEF GoodChoice
    <3>2. Sum(Taken(t, c.turns)) = 0
      BY <3>1, TakenAdds
    <3>3. c.left = CliMaxChars
      BY <1>2, <2>1, <2>2, <3>2, CliAssumption
    <3>4. ~ (t[1] <= CliMaxChars) /\ d.more
      BY <1>2, <1>5, <2>1, <3>1, <3>3, CliAssumption
    <3>5. (N + 2 - n) .. N = {}
      BY <1>1, <2>3
    <3> QED
      BY <1>1, <2>1, <2>2, <3>1, <3>4, <3>5 DEF GoodChoice
  <2>4. CASE n > 1
    <3>1. n - 1 > 0 /\ i = N + 2 - n /\ i \in 2 .. N /\ ~ d.more /\ n # 0 /\ n > 0
      BY <1>1, <2>1, <2>4
    <3>2. c.turns \ {1} = (N + 2 - (n - 1)) .. N /\ (1 \in c.turns <=> t[1] <= CliMaxChars)
      BY <1>5, <3>1 DEF GoodChoice
    <3>3. N + 2 - (n - 1) = i + 1
      BY <1>1, <3>1
    <3>4. d.turns \ {1} = (i + 1) .. N /\ t[i] > d.left
      BY <1>5, <2>1, <3>2, <3>3
    <3> QED
      BY <2>1, <2>2, <3>1, <3>2, <3>4 DEF GoodChoice
  <2> QED
    BY <1>1, <2>3, <2>4
<1>6. CASE c.more /\ ~ (t[i] > c.left)
  <2>1. d.left = c.left - t[i] /\ d.turns = c.turns \cup {i} /\ d.more
    BY <1>3, <1>6, Zenon
  <2>2. i \notin c.turns
    <3>1. CASE n = 1
      BY <1>1, <3>1 DEF GoodChoice
    <3>2. CASE n > 1
      <4>1. n - 1 > 0 /\ c.turns \ {1} = (N + 2 - (n - 1)) .. N /\ i # 1 /\ i = N + 2 - n
        BY <1>1, <1>6, <3>2 DEF GoodChoice
      <4>2. i \notin (N + 2 - (n - 1)) .. N
        BY <1>1, <4>1
      <4> QED
        BY <4>1, <4>2
    <3> QED
      BY <1>1, <3>1, <3>2
  <2>3. Sum(Taken(t, c.turns)) \in Int /\ Sum(Taken(t, d.turns)) = Sum(Taken(t, c.turns)) + t[i]
    <3>1. Sum(Taken(t, c.turns \cup {i})) = Sum(Taken(t, c.turns)) + t[i]
      BY <1>1, <2>2, TakenAdds
    <3>2. Taken(t, c.turns) \in Seq(Int)
      BY TakenIsSeq
    <3>3. Sum(Taken(t, c.turns)) \in Int
      BY <3>2, SumAdds
    <3> QED
      BY <2>1, <3>1, <3>3
  <2>4. d.left + Sum(Taken(t, d.turns)) = CliMaxChars
    <3>1. c.left + Sum(Taken(t, c.turns)) = CliMaxChars
      BY DEF GoodChoice
    <3> QED
      BY <1>2, <2>1, <2>3, <3>1
  <2>5. CASE n = 1
    <3>1. c.turns = {} /\ i = 1
      BY <1>1, <2>5 DEF GoodChoice
    <3>2. Sum(Taken(t, c.turns)) = 0 /\ c.left + Sum(Taken(t, c.turns)) = CliMaxChars
      BY <3>1, TakenAdds DEF GoodChoice
    <3>3. c.left = CliMaxChars
      BY <1>2, <3>2
    <3>4. t[1] <= CliMaxChars
      BY <1>2, <1>6, <3>1, <3>3, CliAssumption
    <3>5. (N + 2 - n) .. N = {}
      BY <1>1, <2>5
    <3>6. d.turns = {1}
      BY <2>1, <3>1
    <3> QED
      BY <1>1, <2>1, <2>4, <3>4, <3>5, <3>6 DEF GoodChoice
  <2>6. CASE n > 1
    <3>1. n - 1 > 0 /\ i = N + 2 - n /\ i \in 2 .. N /\ n # 0 /\ n > 0
      BY <1>1, <2>6
    <3>2. c.turns \ {1} = (N + 2 - (n - 1)) .. N /\ (1 \in c.turns <=> t[1] <= CliMaxChars)
      BY <1>6, <3>1 DEF GoodChoice
    <3>3. N + 2 - (n - 1) = i + 1
      BY <1>1, <3>1
    <3>4. i # 1 /\ i .. N = {i} \cup ((i + 1) .. N)
      BY <1>1, <3>1
    <3>5. d.turns \ {1} = i .. N /\ (1 \in d.turns <=> 1 \in c.turns)
      BY <2>1, <3>2, <3>3, <3>4
    <3> QED
      BY <2>1, <2>4, <3>1, <3>2, <3>5 DEF GoodChoice
  <2> QED
    BY <1>1, <2>5, <2>6
<1> QED
  BY <1>2, <1>4, <1>5, <1>6

\* So it is of the history that is sent.
LEMMA CliChosen ==
  ASSUME NEW t \in Seq(Nat)
  PROVE  \E c \in Chosen(t) : Cli!HistoryMessages(t) = c.turns /\ GoodChoice(t, Len(t), c)
<1> DEFINE C == Cli!Choices(t)
           good == [n \in 0 .. Len(t) |-> IF GoodChoice(t, n, C[n]) THEN 1 ELSE 0]
<1>1. Len(t) \in Nat
  OBVIOUS
<1>2. /\ C[0] = [left |-> CliMaxChars, turns |-> {}, more |-> TRUE]
      /\ \A n \in 0 .. Len(t) : C[n] \in Chosen(t)
      /\ \A n \in 1 .. Len(t) : C[n] = Cli!Fit(t, C[n - 1], Place(t, n))
  BY CliChoices
<1> HIDE DEF C
<1>3. good[0] \in {1}
  <2>1. Sum(Taken(t, {})) = 0 /\ CliMaxChars \in Nat
    BY TakenAdds, CliAssumption
  <2>2. GoodChoice(t, 0, C[0])
    BY <1>2, <2>1 DEF GoodChoice
  <2> QED
    BY <1>1, <2>2
<1>4. ASSUME NEW n \in 1 .. Len(t), good[n - 1] \in {1} PROVE good[n] \in {1}
  <2>1. n - 1 \in 0 .. Len(t) /\ n \in 0 .. Len(t)
    BY <1>1
  <2>2. GoodChoice(t, n - 1, C[n - 1]) /\ C[n - 1] \in Chosen(t)
    BY <1>2, <1>4, <2>1
  <2>3. GoodChoice(t, n, C[n])
    BY <1>2, <2>2, CliChoiceStep
  <2> QED
    BY <2>1, <2>3
<1>5. \A n \in 0 .. Len(t) : good[n] \in {1}
  <2> HIDE DEF good
  <2> QED
    BY <1>1, <1>3, <1>4, StepByStep
<1>6. GoodChoice(t, Len(t), C[Len(t)]) /\ C[Len(t)] \in Chosen(t)
  <2>1. Len(t) \in 0 .. Len(t)
    BY <1>1
  <2> QED
    BY <1>2, <1>5, <2>1
<1> QED
  BY <1>6, Zenon DEF Cli!HistoryMessages, C

\* What the run has been sent is what the property says of it.
LEMMA CliHistory == Cli!HistoryInv => Cli!HistoryIsUnbroken
<1> SUFFICES ASSUME Cli!HistoryInv, r2 = "graph", Cli!Chat, r4 = Len(r3)
             PROVE  LET size == Cli!Sum([i \in DOMAIN r3 |-> IF i \in r5 THEN r3[i] ELSE 0])
                        left == (2 .. r4) \ r5
                    IN  /\ size <= CliMaxChars
                        /\ \A i \in left, j \in r5 \ {1} : i < j
                        /\ left # {} => size + r3[Cli!Greatest(left)] > CliMaxChars
                        /\ 1 \in DOMAIN r3 => (1 \in r5 <=> r3[1] <= CliMaxChars)
                        /\ r6.omitted = Cli!Cardinality((1 .. r4) \ r5)
  BY Zenon DEF Cli!HistoryIsUnbroken
<1>1. r3 \in Seq(Nat) /\ r5 = Cli!HistoryMessages(r3) /\ r6.omitted = r4 - Cli!Cardinality(r5)
  BY CliAssumption, Wider DEF Cli!HistoryInv
<1>2. PICK c \in Chosen(r3) : r5 = c.turns /\ GoodChoice(r3, Len(r3), c)
  BY <1>1, CliChosen
<1> DEFINE N == Len(r3)
           size == Sum(Taken(r3, r5))
           left == (2 .. N) \ r5
<1>3. N \in Nat /\ r4 = N /\ DOMAIN r3 = 1 .. N /\ \A i \in 1 .. N : r3[i] \in Nat
  BY <1>1
<1>4. c.left \in Nat /\ r5 \subseteq 1 .. N
  BY <1>2 DEF Chosen
<1>5. Cli!Sum([i \in DOMAIN r3 |-> IF i \in r5 THEN r3[i] ELSE 0]) = size
  BY CliNumbers, Zenon DEF Taken
<1>6. size \in Int /\ c.left + size = CliMaxChars /\ CliMaxChars \in Nat
  <2>1. Taken(r3, r5) \in Seq(Int)
    BY <1>1, TakenIsSeq
  <2>2. size \in Int
    BY <2>1, SumAdds
  <2> QED
    BY <1>2, <2>2, CliAssumption DEF GoodChoice
<1>7. r6.omitted = Cli!Cardinality((1 .. r4) \ r5)
  <2>1. IsFiniteSet(1 .. N) /\ Cardinality(1 .. N) = N
    <3> HIDE DEF N
    <3>1. IsFiniteSet(1 .. N) /\ Cardinality(1 .. N) = IF 1 > N THEN 0 ELSE N - 1 + 1
      BY <1>3, FS_Interval
    <3> QED
      BY <1>3, <3>1
  <2>2. Cardinality((1 .. N) \ r5) = N - Cardinality((1 .. N) \cap r5)
    BY <2>1, FS_Difference
  <2>3. (1 .. N) \cap r5 = r5
    BY <1>4
  <2>4. Cli!Cardinality(r5) = Cardinality(r5) /\ Cli!Cardinality((1 .. r4) \ r5) = Cardinality((1 .. r4) \ r5)
    BY CliNumbers
  <2> HIDE DEF N
  <2> QED
    BY <1>1, <1>3, <2>2, <2>3, <2>4
<1>8. /\ N > 0 => (1 \in r5 <=> r3[1] <= CliMaxChars)
      /\ N = 0 => r5 = {} /\ c.more
      /\ N > 0 /\ c.more => r5 \ {1} = (N + 2 - N) .. N
      /\ N > 0 /\ ~ c.more => \E m \in 2 .. N : r5 \ {1} = (m + 1) .. N /\ r3[m] > c.left
  BY <1>2 DEF GoodChoice
<1> HIDE DEF size, N
<1>9. 1 \in DOMAIN r3 => (1 \in r5 <=> r3[1] <= CliMaxChars)
  BY <1>3, <1>8
<1>10. size <= CliMaxChars
  BY <1>4, <1>6
<1>11. CASE left = {}
  <2>1. \A i \in left, j \in r5 \ {1} : i < j
    BY <1>11
  <2> QED
    BY <1>3, <1>5, <1>7, <1>9, <1>10, <1>11, <2>1
<1>12. CASE left # {}
  <2>1. N > 1
    BY <1>3, <1>12
  <2>2. ~ c.more
    <3>1. SUFFICES ASSUME c.more PROVE left = {}
      BY <1>12
    <3>2. r5 \ {1} = 2 .. N
      BY <1>3, <1>8, <2>1, <3>1
    <3> QED
      BY <3>2
  <2>3. PICK m \in 2 .. N : r5 \ {1} = (m + 1) .. N /\ r3[m] > c.left
    BY <1>3, <1>8, <2>1, <2>2
  <2>4. left = 2 .. m
    <3>1. ASSUME NEW i \in left PROVE i \in 2 .. m
      BY <1>3, <2>3, <3>1
    <3>2. ASSUME NEW i \in 2 .. m PROVE i \in left
      <4>1. i \in 2 .. N /\ i \notin r5 \ {1} /\ i # 1
        BY <1>3, <2>3, <3>2
      <4> QED
        BY <4>1
    <3> QED
      BY <3>1, <3>2
  <2>5. Cli!Greatest(left) = m
    <3>1. left \subseteq 0 .. N
      BY <1>3
    <3>2. m \in left /\ \A i \in left : i <= m
      BY <2>3, <2>4
    <3>3. Greatest(left) = CHOOSE n \in left : \A k \in left : k <= n
      BY DEF Greatest
    <3>4. Greatest(left) \in left /\ \A k \in left : k <= Greatest(left)
      <4> HIDE DEF left
      <4> QED
        BY <3>2, <3>3
    <3>5. Greatest(left) \in Int /\ m \in Int /\ Greatest(left) <= m /\ m <= Greatest(left)
      <4>1. \A i \in left : i \in Int
        BY <1>3
      <4> HIDE DEF left
      <4> QED
        BY <3>2, <3>4, <4>1
    <3>6. Greatest(left) = m
      <4> HIDE DEF left
      <4> QED
        BY <3>5
    <3> QED
      BY <3>6, CliNumbers
  <2>6. \A i \in left, j \in r5 \ {1} : i < j
    BY <1>3, <2>3, <2>4, SMTT(30)
  <2>7. size + r3[m] > CliMaxChars
    <3>1. r3[m] \in Nat /\ r3[m] > c.left
      BY <1>3, <2>3
    <3> QED
      BY <1>4, <1>6, <3>1
  <2> QED
    BY <1>3, <1>5, <1>7, <1>9, <1>10, <2>5, <2>6, <2>7
<1> QED
  BY <1>11, <1>12

\* The program starts before a run.
LEMMA CliHistoryInit == part = "cli" /\ Init => Cli!HistoryInv
<1> SUFFICES ASSUME part = "cli", Init PROVE Cli!HistoryInv
  OBVIOUS
<1>1. r2 = "start" /\ r3 \in UNION {[1 .. n -> CliSizes] : n \in 0 .. CliMaxTurns - 1}
  BY DEF Init, Cli!Init
<1>2. PICK n \in 0 .. CliMaxTurns - 1 : r3 \in [1 .. n -> CliSizes]
  BY <1>1
<1>3. r3 \in Seq(CliSizes)
  BY <1>2, FunctionIsSeq
<1> QED
  BY <1>1, <1>3 DEF Cli!HistoryInv

\* A step that neither starts a run nor adds a turn keeps what has been sent.
LEMMA CliHistoryStays ==
  ASSUME Cli!HistoryInv, UNCHANGED <<r1, r3, r4, r5>>, r6'.omitted = r6.omitted,
         r2' \in {"graph", "pending", "asked"} => r2 \in {"graph", "pending", "asked"}
  PROVE  Cli!HistoryInv'
<1>1. Cli!Chat' <=> Cli!Chat
  BY DEF Cli!Chat
<1>2. Cli!HistoryMessages(r3') = Cli!HistoryMessages(r3)
  BY Zenon
<1>3. Cli!Cardinality(r5') = Cli!Cardinality(r5)
  BY Zenon
<1> QED
  BY <1>1, <1>2, <1>3 DEF Cli!HistoryInv

\* A run loads all the turns, another process adds some, and the run itself one
\* when it has ended.
LEMMA CliHistoryStep == Cli!CliInv /\ Cli!Next => Cli!HistoryInv'
<1> SUFFICES ASSUME Cli!ExitInv, Cli!HistoryInv, Cli!Next PROVE Cli!HistoryInv'
  BY DEF Cli!CliInv
<1>1. CASE Cli!BadConfiguration \/ Cli!Rollback \/ Cli!LoadFails \/ Cli!Deny
           \/ Cli!ResumeRefused \/ Cli!ResumeCrashes \/ Cli!TraceOutFails
  <2>1. UNCHANGED <<r1, r3, r4, r5, r6>> /\ r2' = "exit"
    BY <1>1 DEF Cli!BadConfiguration, Cli!Rollback, Cli!LoadFails, Cli!Deny, Cli!ResumeRefused,
                Cli!ResumeCrashes, Cli!TraceOutFails, Cli!Leave
  <2> QED
    BY <2>1, CliHistoryStays
<1>2. CASE Cli!Start \/ Cli!Enter \/ Cli!Report
  <2>1. UNCHANGED <<r1, r3, r4, r5, r6>> /\ r2' \in {"prompt", "run", "exit"}
    BY <1>2 DEF Cli!Start, Cli!Enter, Cli!Report, Cli!Leave
  <2> QED
    BY <2>1, CliHistoryStays
<1>3. CASE Cli!Ask
  <2>1. UNCHANGED <<r1, r3, r4, r5, r6>> /\ r2 = "pending" /\ r2' = "asked"
    BY <1>3 DEF Cli!Ask
  <2> QED
    BY <2>1, CliHistoryStays
<1>4. CASE Cli!Approve
  <2>1. UNCHANGED <<r1, r3, r4, r5>> /\ r2 = "asked" /\ r2' = "graph"
    BY <1>4 DEF Cli!Approve
  <2>2. r6'.omitted = r6.omitted
    BY <1>4 DEF Cli!Approve, Cli!ExitInv
  <2> QED
    BY <2>1, <2>2, CliHistoryStays
<1>5. CASE Cli!Load
  <2>1. /\ UNCHANGED <<r1, r3>> /\ r2' = "graph"
        /\ r4' = IF Cli!Chat THEN Len(r3) ELSE 0
        /\ r5' = IF Cli!Chat THEN Cli!HistoryMessages(r3) ELSE {}
        /\ r6' = [Cli!NoRun EXCEPT !.omitted = r4' - Cli!Cardinality(r5')]
    BY <1>5, Zenon DEF Cli!Load
  <2>2. Cli!Chat' <=> Cli!Chat
    BY <2>1 DEF Cli!Chat
  <2>3. r6'.omitted = r4' - Cli!Cardinality(r5')
    BY <2>1 DEF Cli!NoRun
  <2>4. r3' = r3 /\ r3 \in Seq(CliSizes) /\ Len(r3) \in Nat
    BY <2>1 DEF Cli!HistoryInv
  <2>5. Cli!Chat => r4' = Len(r3') /\ r5' = Cli!HistoryMessages(r3') /\ r4' \in 0 .. Len(r3')
    BY <2>1, <2>4
  <2> QED
    BY <2>2, <2>3, <2>4, <2>5 DEF Cli!HistoryInv
<1>6. ASSUME NEW status \in {"success", "partial", "failed", "approval_required"}, Cli!Return(status)
      PROVE  Cli!HistoryInv'
  <2>1. /\ UNCHANGED <<r1, r4, r5>> /\ r2 = "graph"
        /\ r2' = IF status = "approval_required" THEN "pending" ELSE "returned"
        /\ r6' = [r6 EXCEPT !.status = status]
        /\ \/ UNCHANGED r3
           \/ status \in {"success", "partial"} /\ \E size \in CliSizes : r3' = Append(r3, size)
    BY <1>6 DEF Cli!Return
  <2>2. CASE UNCHANGED r3
    <3>1. r6'.omitted = r6.omitted
      BY <2>1 DEF Cli!ExitInv
    <3> QED
      BY <2>1, <2>2, <3>1, CliHistoryStays
  <2>3. ASSUME NEW size \in CliSizes, r3' = Append(r3, size), status \in {"success", "partial"}
        PROVE  Cli!HistoryInv'
    <3>1. r3' \in Seq(CliSizes) /\ r2' = "returned"
      BY <2>1, <2>3, Appended DEF Cli!HistoryInv
    <3> QED
      BY <3>1 DEF Cli!HistoryInv
  <2> QED
    BY <2>1, <2>2, <2>3
<1>7. CASE Cli!Elsewhere
  <2>1. PICK size \in CliSizes : r3' = Append(r3, size)
    BY <1>7 DEF Cli!Elsewhere
  <2>2. UNCHANGED <<r1, r2, r4>>
    BY <1>7 DEF Cli!Elsewhere
  <2>3. r3' \in Seq(CliSizes) /\ Len(r3') = Len(r3) + 1 /\ Len(r3) \in Nat
    BY <2>1, Appended DEF Cli!HistoryInv
  <2>4. r2 \in {"graph", "pending", "asked"} /\ Cli!Chat => r4' \in 0 .. Len(r3') /\ r4' # Len(r3')
    <3>1. ASSUME r2 \in {"graph", "pending", "asked"}, Cli!Chat PROVE r4 \in 0 .. Len(r3)
      BY <3>1 DEF Cli!HistoryInv
    <3>2. CASE r2 \in {"graph", "pending", "asked"} /\ Cli!Chat
      <4>1. r4 \in 0 .. Len(r3) /\ r4' = r4
        BY <2>2, <3>1, <3>2
      <4> QED
        BY <2>3, <4>1
    <3> QED
      BY <3>2
  <2>5. Cli!Chat' <=> Cli!Chat
    BY <2>2 DEF Cli!Chat
  <2> QED
    BY <2>2, <2>3, <2>4, <2>5 DEF Cli!HistoryInv
<1> QED
  BY <1>1, <1>2, <1>3, <1>4, <1>5, <1>6, <1>7 DEF Cli!Next

\* The program starts without a snapshot.
LEMMA CliInit == part = "cli" /\ Init => Cli!CliInv
<1>1. part = "cli" /\ Init => Cli!ExitInv
  BY DEF Init, Cli!Init, Cli!ExitInv, Cli!NoRun
<1> QED
  BY <1>1, CliHistoryInit DEF Cli!CliInv

\* Every step keeps what is told.
LEMMA CliExitStep == Cli!ExitInv /\ Cli!Next => Cli!ExitInv'
<1> SUFFICES ASSUME Cli!ExitInv, Cli!Next PROVE Cli!ExitInv'
  OBVIOUS
<1>1. CASE Cli!BadConfiguration \/ Cli!LoadFails \/ Cli!ResumeRefused
  BY <1>1 DEF Cli!ExitInv, Cli!BadConfiguration, Cli!LoadFails, Cli!ResumeRefused, Cli!Leave
<1>2. CASE Cli!Start \/ Cli!Enter
  BY <1>2 DEF Cli!ExitInv, Cli!Start, Cli!Enter, Cli!Leave
<1>3. CASE Cli!Rollback
  BY <1>3 DEF Cli!ExitInv, Cli!Rollback, Cli!Leave
<1>4. CASE Cli!Load
  BY <1>4 DEF Cli!ExitInv, Cli!Load, Cli!NoRun
<1>5. ASSUME NEW status \in {"success", "partial", "failed", "approval_required"},
             Cli!Return(status)
      PROVE  Cli!ExitInv'
  <2>1. /\ UNCHANGED <<r8, r9, r12>> /\ r2 = "graph"
        /\ r2' = IF status = "approval_required" THEN "pending" ELSE "returned"
        /\ r10' = (r10 \/ status = "failed")
        /\ r6' = [r6 EXCEPT !.status = status]
    BY <1>5 DEF Cli!Return
  <2> QED
    BY <2>1 DEF Cli!ExitInv
<1>6. CASE Cli!Ask
  BY <1>6 DEF Cli!ExitInv, Cli!Ask
<1>7. CASE Cli!Deny \/ Cli!ResumeCrashes \/ Cli!TraceOutFails
  BY <1>7 DEF Cli!ExitInv, Cli!Deny, Cli!ResumeCrashes, Cli!TraceOutFails, Cli!Leave
<1>8. CASE Cli!Approve
  BY <1>8 DEF Cli!ExitInv, Cli!Approve
<1>9. CASE Cli!Report
  <2>1. /\ UNCHANGED <<r6, r8, r10>> /\ r2 = "returned" /\ r9' = r9 \cup r6.snapshots
        /\ \/ r6.status = "failed" /\ r2' = "exit" /\ r12' = [code |-> 3, why |-> "failed"]
           \/ r6.status # "failed" /\ r2' = "exit" /\ r12' = [code |-> 0, why |-> "answered"]
           \/ r6.status # "failed" /\ r2' = "prompt"
    BY <1>9 DEF Cli!Report, Cli!Leave
  <2> QED
    BY <2>1 DEF Cli!ExitInv
<1>10. CASE Cli!Elsewhere
  BY <1>10 DEF Cli!ExitInv, Cli!Elsewhere
<1> QED
  BY <1>1, <1>2, <1>3, <1>4, <1>5, <1>6, <1>7, <1>8, <1>9, <1>10 DEF Cli!Next

\* Every step keeps both.
LEMMA CliStep == Cli!CliInv /\ Cli!Next => Cli!CliInv'
  BY CliExitStep, CliHistoryStep DEF Cli!CliInv

\* Without a step nothing changes.
LEMMA CliStutter == Cli!CliInv /\ UNCHANGED vars => Cli!CliInv'
<1> SUFFICES ASSUME Cli!CliInv, UNCHANGED vars PROVE Cli!CliInv'
  OBVIOUS
<1>1. Cli!ExitInv'
  BY DEF vars, Cli!CliInv, Cli!ExitInv
<1>2. Cli!HistoryInv'
  BY CliHistoryStays DEF vars, Cli!CliInv
<1> QED
  BY <1>1, <1>2 DEF Cli!CliInv

\* The invariant of the command line.
LEMMA CliAlways == Spec => [](part = "cli" => Cli!CliInv)
<1> DEFINE Inv == part = "cli" => Cli!CliInv
<1>1. Init => Inv
  BY CliInit
<1>2. Inv /\ [Next]_vars => Inv'
  <2> SUFFICES ASSUME Inv, [Next]_vars, part' = "cli" PROVE Cli!CliInv'
    OBVIOUS
  <2>1. CASE UNCHANGED vars
    BY <2>1, CliStutter DEF vars
  <2>2. CASE Next
    <3>1. part = "cli" /\ Cli!Next
      BY <2>2 DEF Next
    <3> QED
      BY <3>1, CliStep
  <2> QED
    BY <2>1, <2>2
<1> QED
  BY <1>1, <1>2, PTL DEF Spec

\* The command line shows the id of every snapshot that the results of its
\* runs have named, and exits with 0 only if no run has failed, whatever other
\* processes do to its chat (main.py:94).
THEOREM SnapshotsAreAlwaysShown ==
  Spec => [](part = "cli" => Cli!SnapshotsAreShown /\ Cli!ExitTellsFailures)
<1>1. (part = "cli" => Cli!CliInv) => (part = "cli" => Cli!SnapshotsAreShown /\ Cli!ExitTellsFailures)
  BY DEF Cli!CliInv, Cli!ExitInv, Cli!SnapshotsAreShown, Cli!ExitTellsFailures
<1> QED
  BY <1>1, CliAlways, PTL

\* What a model is sent of a chat fits, is the first turn if that one fits, and
\* an unbroken end of the rest that leaves out no turn for which there was room;
\* and the number left out is the one that is shown (conversation.py:79).
THEOREM HistoryIsAlwaysUnbroken == Spec => [](part = "cli" => Cli!HistoryIsUnbroken)
<1>1. (part = "cli" => Cli!CliInv) => (part = "cli" => Cli!HistoryIsUnbroken)
  BY CliHistory DEF Cli!CliInv
<1> QED
  BY <1>1, CliAlways, PTL

-----------------------------------------------------------------------------
(***************************************************************************)
(* BrowserPage.  r1 is mode, r2 repo, r3 the chats, r4 what is stored, r5  *)
(* flight, r7 modeDisabled, r8 what is shown, r11 ids, r12 the handles     *)
(* that were sent, r13 the questions, r14 the talks.                       *)
(***************************************************************************)

\* A new page has neither chats nor buttons.
LEMMA PageInit == part = "page" /\ Init => Page!PageInv
<1> SUFFICES ASSUME part = "page", Init PROVE Page!PageInv
  OBVIOUS
<1>1. Page!Init
  BY DEF Init
<1>2. Page!TypeOK
  BY <1>1 DEF Page!Init, Page!TypeOK, Page!Chats, Page!Blank
<1>3. Page!ChatsAreSeparate /\ Page!ChatsAreTold
  BY <1>1 DEF Page!Init, Page!ChatsAreSeparate, Page!ChatsAreTold
<1> QED
  BY <1>1, <1>2, <1>3, PageAssumption DEF Page!Init, Page!PageInv, Page!Blank

\* No button means no handle that was sent.
LEMMA PageNoHandle == Page!TypeOK => None \notin r12
<1> SUFFICES ASSUME Page!TypeOK, None \in r12 PROVE FALSE
  OBVIOUS
<1>1. None \in 1 .. r11 /\ r11 \in Nat
  BY DEF Page!TypeOK
<1>2. \A n \in 1 .. r11 : n \in Nat
  BY <1>1
<1> QED
  BY <1>1, <1>2, PageAssumption

\* What a step keeps that leaves the chats and the questions alone.
LEMMA PageQuiet ==
  ASSUME Page!PageInv, UNCHANGED <<r3, r4, r13, r14>>
  PROVE  (Page!ChatsAreSeparate /\ (r14.lost \/ Page!ChatsAreTold))'
<1>1. r3' = r3 /\ r4' = r4 /\ r13' = r13 /\ r14' = r14
  OBVIOUS
<1> QED
  BY <1>1 DEF Page!PageInv, Page!ChatsAreSeparate, Page!ChatsAreTold

\* A handle or chat id may be taken; the others keep their type.
LEMMA PageIds ==
  ASSUME r11 \in Nat, r11' \in {r11, r11 + 1}
  PROVE  /\ r11' \in Nat /\ 1 .. r11 \subseteq (1 .. r11)' /\ Page!Chats \subseteq Page!Chats'
         /\ r11' # r11 => r11' \in (1 .. r11)' /\ r11' \notin 1 .. r11
<1>1. r11' \in Nat /\ 1 .. r11 \subseteq 1 .. r11'
  OBVIOUS
<1>2. Page!Chats \subseteq Page!Chats'
  BY <1>1 DEF Page!Chats
<1> QED
  BY <1>1, <1>2

\* The steps of the views and the requests.
LEMMA PageViews ==
  ASSUME Page!PageInv,
         \/ \E r \in PageRepos : Page!TypeRepo(r)
         \/ Page!SelectMode \/ Page!RunReturns \/ Page!ApproveWrite \/ Page!ApproveReturns
         \/ Page!RollbackWrite \/ Page!RollbackReturns
         \/ Page!RunLearning \/ Page!LearningReturns
  PROVE  Page!PageInv'
<1> USE PageAssumption
<1>1. Page!TypeOK
  BY DEF Page!PageInv
<1>2. CASE \E r \in PageRepos : Page!TypeRepo(r)
  <2>1. Page!TypeOK'
    BY <1>1, <1>2 DEF Page!TypeRepo, Page!TypeOK, Page!Chats
  <2> QED
    BY <1>2, <2>1, PageQuiet DEF Page!TypeRepo, Page!PageInv
<1>3. CASE Page!SelectMode
  <2>1. Page!TypeOK'
    BY <1>1, <1>3 DEF Page!SelectMode, Page!TypeOK, Page!Chats, Page!Blank
  <2> QED
    BY <1>1, <1>3, <2>1, PageQuiet DEF Page!SelectMode, Page!PageInv, Page!TypeOK, Page!Blank
<1>4. CASE Page!ApproveWrite
  <2>1. Page!TypeOK'
    BY <1>1, <1>4 DEF Page!ApproveWrite, Page!TypeOK, Page!Chats
  <2> QED
    BY <1>1, <1>4, <2>1, PageQuiet DEF Page!ApproveWrite, Page!PageInv
<1>5. CASE Page!RollbackWrite
  <2>1. Page!TypeOK'
    BY <1>1, <1>5 DEF Page!RollbackWrite, Page!TypeOK, Page!Chats
  <2> QED
    BY <1>1, <1>5, <2>1, PageQuiet DEF Page!RollbackWrite, Page!PageInv
<1>6. CASE Page!RollbackReturns
  <2>1. Page!TypeOK'
    BY <1>1, <1>6 DEF Page!RollbackReturns, Page!TypeOK, Page!Chats
  <2> QED
    BY <1>1, <1>6, <2>1, PageQuiet DEF Page!RollbackReturns, Page!PageInv
<1>7. CASE Page!RunLearning
  <2>1. Page!TypeOK'
    BY <1>1, <1>7 DEF Page!RunLearning, Page!TypeOK, Page!Chats, Page!Blank
  <2> QED
    <3>1. /\ UNCHANGED <<r3, r4, r13, r14>> /\ r5' = [kind |-> "learning"]
          /\ r1 = "learning" /\ r1' = r1 /\ r7' = TRUE /\ r12' = r12 /\ r8'.handle = None
      BY <1>7 DEF Page!RunLearning, Page!Blank
    <3>2. None \notin r12
      BY <1>1, PageNoHandle
    <3> QED
      BY <2>1, <3>1, <3>2, PageQuiet DEF Page!PageInv
<1>8. CASE Page!LearningReturns
  <2>1. Page!TypeOK'
    BY <1>1, <1>8 DEF Page!LearningReturns, Page!TypeOK, Page!Chats, Page!Blank
  <2> QED
    BY <1>1, <1>8, <2>1, PageQuiet DEF Page!LearningReturns, Page!PageInv, Page!TypeOK, Page!Blank
<1>9. ASSUME Page!Render \/ Page!Failure \/ UNCHANGED <<r11, r8>>
      PROVE  /\ r11' \in {r11, r11 + 1}
             /\ r8' \in [by : {"auto", "learning", None}, handle : (1 .. r11)' \cup {None}, undo : BOOLEAN]
             /\ r8'.handle \in r12 => r8' = r8
  <2>1. r11 \in Nat /\ r12 \subseteq 1 .. r11
        /\ r8 \in [by : {"auto", "learning", None}, handle : 1 .. r11 \cup {None}, undo : BOOLEAN]
    BY <1>1 DEF Page!TypeOK
  <2>2. CASE UNCHANGED <<r11, r8>>
    <3>1. r11' = r11 /\ r8' = r8
      BY <2>2
    <3> QED
      BY <2>1, <3>1
  <2>3. CASE Page!Failure
    <3>1. r11' = r11 /\ r8' = [by |-> "auto", handle |-> None, undo |-> FALSE]
      BY <2>3 DEF Page!Failure, Page!Blank
    <3>2. None \notin r12
      BY <1>1, PageNoHandle
    <3> QED
      BY <2>1, <3>1, <3>2
  <2>4. CASE UNCHANGED r11 /\ r8' \in {[by |-> "auto", handle |-> None, undo |-> u] : u \in BOOLEAN}
    BY <1>1, <2>1, <2>4, PageNoHandle
  <2>5. CASE r11' = r11 + 1 /\ r8' \in {[by |-> "auto", handle |-> r11', undo |-> u] : u \in BOOLEAN}
    BY <2>1, <2>5
  <2> QED
    BY <1>9, <2>2, <2>3, <2>4, <2>5 DEF Page!Render
<1>10. CASE Page!RunReturns \/ Page!ApproveReturns
  <2>1. /\ UNCHANGED <<r1, r2, r3, r4, r12, r13, r14>> /\ r5' = None
        /\ Page!Render \/ Page!Failure \/ UNCHANGED <<r11, r8>>
        /\ r7' = FALSE
        /\ r5 = [kind |-> "run"] \/ Page!Render \/ Page!Failure
    <3>1. CASE Page!RunReturns
      <4>1. r5 = [kind |-> "run"]
        BY <1>1, <3>1 DEF Page!RunReturns, Page!TypeOK
      <4>2. Page!Render \/ Page!Failure \/ UNCHANGED <<r11, r8>>
        BY <3>1 DEF Page!RunReturns
      <4> QED
        BY <3>1, <4>1, <4>2 DEF Page!RunReturns
    <3>2. CASE Page!ApproveReturns
      <4>1. r5 = [kind |-> "approve"] /\ r7 = FALSE
        BY <1>1, <3>2 DEF Page!ApproveReturns, Page!TypeOK, Page!PageInv
      <4> QED
        BY <3>2, <4>1 DEF Page!ApproveReturns
    <3> QED
      BY <1>10, <3>1, <3>2
  <2>2. r11 \in Nat /\ r11' \in {r11, r11 + 1}
    BY <1>1, <1>9, <2>1 DEF Page!TypeOK
  <2>3. Page!TypeOK'
    BY <1>1, <1>9, <2>1, <2>2, PageIds DEF Page!TypeOK
  <2>4. r8'.handle \notin r12
    <3>1. CASE r5 = [kind |-> "run"]
      BY <1>9, <2>1, <3>1 DEF Page!PageInv
    <3>2. CASE Page!Render \/ Page!Failure
      <4>1. r11 \in Nat /\ r12 \subseteq 1 .. r11
        BY <1>1 DEF Page!TypeOK
      <4>2. r8'.handle \in {None, r11 + 1}
        BY <3>2 DEF Page!Render, Page!Failure, Page!Blank
      <4>3. r11 + 1 \notin r12
        BY <4>1
      <4> QED
        BY <1>1, <4>2, <4>3, PageNoHandle
    <3> QED
      BY <2>1, <3>1, <3>2
  <2> QED
    BY <2>1, <2>3, <2>4, PageQuiet DEF Page!PageInv
<1> QED
  BY <1>2, <1>3, <1>4, <1>5, <1>6, <1>7, <1>8, <1>10

\* The steps that choose a chat: a new one, or the one in use.
LEMMA PageChats ==
  ASSUME Page!PageInv, NEW reset \in BOOLEAN, Page!ChatSessionId(reset)
  PROVE  /\ r11' \in {r11, r11 + 1} /\ r3' \in Page!Chats' /\ r3'[r2] \in (1 .. r11)'
         /\ r4' \in [chats : Page!Chats', repo : PageRepos]
         /\ r14' \in [now : [PageRepos -> Nat], refused : BOOLEAN, lost : BOOLEAN]
         /\ r14'.lost = r14.lost
         /\ r14'.now = IF reset THEN [r14.now EXCEPT ![r2] = @ + 1] ELSE r14.now
         /\ \/ r3' = r3 /\ ~reset
            \/ /\ r11' = r11 + 1 /\ r3' = [r3 EXCEPT ![r2] = r11 + 1]
               /\ reset \/ r3[r2] = None
         /\ (~r14.lost /\ Page!ChatsAreTold /\ ~r14'.refused) => r4'.chats = r3'
<1> USE PageAssumption
<1>1. /\ r11 \in Nat /\ r2 \in PageRepos /\ r3 \in Page!Chats
      /\ r4 \in [chats : Page!Chats, repo : PageRepos]
      /\ r14 \in [now : [PageRepos -> Nat], refused : BOOLEAN, lost : BOOLEAN]
  BY DEF Page!PageInv, Page!TypeOK
<1>2. /\ r11' \in {r11, r11 + 1}
      /\ \/ r11' = r11 /\ r3' = r3 /\ ~reset /\ r3[r2] # None
         \/ /\ r11' = r11 + 1 /\ r3' = [r3 EXCEPT ![r2] = r11 + 1]
            /\ reset \/ r3[r2] = None
  BY <1>1 DEF Page!ChatSessionId
<1>3. Page!Chats \subseteq Page!Chats' /\ r11' \in Nat
  BY <1>1, <1>2, PageIds
<1>4. r3' \in Page!Chats' /\ r3'[r2] \in (1 .. r11)'
  <2>1. CASE r11' = r11 /\ r3' = r3 /\ ~reset /\ r3[r2] # None
    BY <1>1, <2>1 DEF Page!Chats
  <2>2. CASE r11' = r11 + 1 /\ r3' = [r3 EXCEPT ![r2] = r11 + 1]
    BY <1>1, <2>2 DEF Page!Chats
  <2> QED
    BY <1>2, <2>1, <2>2
<1> DEFINE talk == IF reset THEN [r14 EXCEPT !.now[r2] = @ + 1] ELSE r14
<1>5. /\ talk \in [now : [PageRepos -> Nat], refused : BOOLEAN, lost : BOOLEAN]
      /\ talk.lost = r14.lost /\ talk.refused = r14.refused
      /\ talk.now = IF reset THEN [r14.now EXCEPT ![r2] = @ + 1] ELSE r14.now
  BY <1>1
<1>6. \/ /\ r4' \in {[chats |-> r3', repo |-> r2], [r4 EXCEPT !.chats = r3']}
         /\ r14' = [talk EXCEPT !.refused = FALSE]
      \/ /\ r4' = r4
         /\ r14' = [talk EXCEPT !.refused = @ \/ r3' # r3]
  BY DEF Page!ChatSessionId
<1> HIDE DEF talk
<1>7. /\ r4' \in [chats : Page!Chats', repo : PageRepos]
      /\ r14' \in [now : [PageRepos -> Nat], refused : BOOLEAN, lost : BOOLEAN]
      /\ r14'.lost = talk.lost /\ r14'.now = talk.now
      /\ \/ r4'.chats = r3'
         \/ r4' = r4 /\ (r14'.refused <=> r14.refused \/ r3' # r3)
  <2>1. CASE /\ r4' \in {[chats |-> r3', repo |-> r2], [r4 EXCEPT !.chats = r3']}
             /\ r14' = [talk EXCEPT !.refused = FALSE]
    <3>1. [chats |-> r3', repo |-> r2] \in [chats : Page!Chats', repo : PageRepos]
      BY <1>1, <1>4
    <3>2. [r4 EXCEPT !.chats = r3'] \in [chats : Page!Chats', repo : PageRepos]
      BY <1>1, <1>4
    <3>3. r4'.chats = r3'
      BY <1>1, <2>1
    <3> QED
      BY <1>5, <2>1, <3>1, <3>2, <3>3
  <2>2. CASE r4' = r4 /\ r14' = [talk EXCEPT !.refused = @ \/ r3' # r3]
    BY <1>1, <1>3, <1>5, <2>2
  <2> QED
    BY <1>6, <2>1, <2>2
<1>8. (~r14.lost /\ Page!ChatsAreTold /\ ~r14'.refused) => r4'.chats = r3'
  BY <1>7 DEF Page!ChatsAreTold
<1> QED
  BY <1>2, <1>4, <1>5, <1>7, <1>8

\* "New conversation" leaves the old chat told and starts one without turns.
LEMMA PageBegins == Page!PageInv /\ Page!NewConversation => Page!PageInv'
<1> USE PageAssumption
<1> SUFFICES ASSUME Page!PageInv, Page!NewConversation PROVE Page!PageInv'
  OBVIOUS
<1>1. Page!TypeOK /\ Page!ChatSessionId(TRUE) /\ TRUE \in BOOLEAN
  BY DEF Page!PageInv, Page!NewConversation
<1>2. /\ r11' = r11 + 1 /\ r3' = [r3 EXCEPT ![r2] = r11 + 1] /\ r3' \in Page!Chats'
      /\ r4' \in [chats : Page!Chats', repo : PageRepos]
      /\ r14' \in [now : [PageRepos -> Nat], refused : BOOLEAN, lost : BOOLEAN]
      /\ r14'.lost = r14.lost /\ r14'.now = [r14.now EXCEPT ![r2] = @ + 1]
      /\ (~r14.lost /\ Page!ChatsAreTold /\ ~r14'.refused) => r4'.chats = r3'
  BY <1>1, PageChats
<1>3. /\ UNCHANGED <<r1, r2, r5, r7, r12, r13>> /\ r5 = None
      /\ r8' = [by |-> None, handle |-> None, undo |-> FALSE]
  BY DEF Page!NewConversation, Page!Blank
<1>4. r11 \in Nat /\ r11' \in Nat /\ 1 .. r11 \subseteq (1 .. r11)'
  BY <1>1, <1>2 DEF Page!TypeOK
<1>5. Page!TypeOK'
  BY <1>1, <1>2, <1>3, <1>4 DEF Page!TypeOK
<1>6. Page!ChatsAreSeparate'
  BY <1>2, <1>3 DEF Page!PageInv, Page!ChatsAreSeparate
<1>7. ASSUME ~r14.lost, Page!ChatsAreTold PROVE Page!ChatsAreTold'
  <2>1. /\ r13' = r13 /\ r2 \in PageRepos /\ r3 \in [PageRepos -> 1 .. r11 \cup {None}]
        /\ r13 \subseteq [repo : PageRepos, talk : Nat, chat : 1 .. r11]
        /\ r14.now \in [PageRepos -> Nat]
    BY <1>1, <1>3 DEF Page!TypeOK, Page!Chats
  <2>2. \A r \in PageRepos :
          /\ r3'[r] = IF r = r2 THEN r11 + 1 ELSE r3[r]
          /\ r14'.now[r] = IF r = r2 THEN r14.now[r] + 1 ELSE r14.now[r]
    BY <1>2, <2>1
  <2>3. \A r, s \in PageRepos : r3'[r] = r3'[s] /\ r3'[r] # None => r = s
    BY <1>4, <1>7, <2>1, <2>2 DEF Page!ChatsAreTold
  <2>4. ASSUME NEW q \in r13
        PROVE  /\ q.talk <= r14'.now[q.repo]
               /\ q.talk = r14'.now[q.repo] => r3'[q.repo] = q.chat
               /\ \A r \in PageRepos : r3'[r] = q.chat => q.repo = r /\ q.talk = r14'.now[r]
    <3>1. q.repo \in PageRepos /\ q.talk \in Nat /\ q.chat \in 1 .. r11
      BY <2>1
    <3>2. /\ q.talk <= r14.now[q.repo]
          /\ q.talk = r14.now[q.repo] => r3[q.repo] = q.chat
          /\ \A r \in PageRepos : r3[r] = q.chat => q.repo = r /\ q.talk = r14.now[r]
      BY <1>7 DEF Page!ChatsAreTold
    <3> QED
      BY <1>4, <2>1, <2>2, <3>1, <3>2
  <2> QED
    BY <1>2, <1>7, <2>1, <2>3, <2>4 DEF Page!ChatsAreTold
<1>8. (r14.lost \/ Page!ChatsAreTold)'
  BY <1>2, <1>7 DEF Page!PageInv
<1>9. None \notin r12
  BY <1>1, PageNoHandle
<1> QED
  BY <1>3, <1>5, <1>6, <1>8, <1>9 DEF Page!PageInv

\* A question goes out with the chat that its view has.
LEMMA PageAsks == Page!PageInv /\ Page!Run => Page!PageInv'
<1> USE PageAssumption
<1> SUFFICES ASSUME Page!PageInv, Page!Run PROVE Page!PageInv'
  OBVIOUS
<1> DEFINE asked == [repo |-> r2, talk |-> r14.now[r2], chat |-> r3'[r2]]
<1>1. Page!TypeOK /\ Page!ChatSessionId(FALSE) /\ FALSE \in BOOLEAN
  BY DEF Page!PageInv, Page!Run
<1>2. /\ r11' \in {r11, r11 + 1} /\ r3' \in Page!Chats' /\ r3'[r2] \in (1 .. r11)'
      /\ r4' \in [chats : Page!Chats', repo : PageRepos]
      /\ r14' \in [now : [PageRepos -> Nat], refused : BOOLEAN, lost : BOOLEAN]
      /\ r14'.lost = r14.lost /\ r14'.now = r14.now
      /\ \/ r3' = r3
         \/ r11' = r11 + 1 /\ r3' = [r3 EXCEPT ![r2] = r11 + 1] /\ r3[r2] = None
      /\ (~r14.lost /\ Page!ChatsAreTold /\ ~r14'.refused) => r4'.chats = r3'
  BY <1>1, PageChats
<1>3. /\ UNCHANGED <<r1, r2, r12>> /\ r1 = "auto" /\ r5' = [kind |-> "run"] /\ r7' = TRUE
      /\ r8' = [by |-> None, handle |-> None, undo |-> FALSE]
      /\ r13' = r13 \cup {asked}
  BY DEF Page!Run, Page!Blank
<1>4. r11 \in Nat /\ r11' \in Nat /\ 1 .. r11 \subseteq (1 .. r11)' /\ r2 \in PageRepos
  BY <1>1, <1>2 DEF Page!TypeOK
<1>5. asked \in [repo : PageRepos, talk : Nat, chat : (1 .. r11)']
  BY <1>1, <1>2, <1>4 DEF Page!TypeOK
<1>6. /\ asked.repo = r2 /\ asked.talk = r14.now[r2] /\ asked.chat = r3'[r2]
  OBVIOUS
<1> HIDE DEF asked
<1>7. Page!TypeOK'
  BY <1>1, <1>2, <1>3, <1>4, <1>5 DEF Page!TypeOK
<1>8. ASSUME ~r14.lost, Page!ChatsAreTold PROVE Page!ChatsAreTold' /\ Page!ChatsAreSeparate'
  <2>1. /\ r2 \in PageRepos /\ r3 \in [PageRepos -> 1 .. r11 \cup {None}]
        /\ r13 \subseteq [repo : PageRepos, talk : Nat, chat : 1 .. r11]
        /\ r14.now \in [PageRepos -> Nat]
    BY <1>1, <1>3 DEF Page!TypeOK, Page!Chats
  <2>2. /\ \A r \in PageRepos \ {r2} : r3'[r] = r3[r]
        /\ \/ r3'[r2] = r3[r2] /\ r3'[r2] # None
           \/ r3'[r2] = r11 + 1 /\ r3[r2] = None
    BY <1>2, <1>4, <2>1
  <2>3. \A r, s \in PageRepos : r3'[r] = r3'[s] /\ r3'[r] # None => r = s
    BY <1>4, <1>8, <2>1, <2>2 DEF Page!ChatsAreTold
  <2>4. ASSUME NEW q \in r13
        PROVE  /\ q.talk <= r14.now[q.repo]
               /\ q.talk = r14.now[q.repo] => r3'[q.repo] = q.chat
               /\ \A r \in PageRepos : r3'[r] = q.chat => q.repo = r /\ q.talk = r14.now[r]
    <3>1. q.repo \in PageRepos /\ q.talk \in Nat /\ q.chat \in 1 .. r11
      BY <2>1
    <3>2. /\ q.talk <= r14.now[q.repo]
          /\ q.talk = r14.now[q.repo] => r3[q.repo] = q.chat
          /\ \A r \in PageRepos : r3[r] = q.chat => q.repo = r /\ q.talk = r14.now[r]
      BY <1>8 DEF Page!ChatsAreTold
    <3> QED
      BY <1>4, <2>1, <2>2, <3>1, <3>2
  <2>5. /\ asked.talk <= r14.now[asked.repo]
        /\ asked.talk = r14.now[asked.repo] => r3'[asked.repo] = asked.chat
        /\ \A r \in PageRepos : r3'[r] = asked.chat => asked.repo = r /\ asked.talk = r14.now[r]
    <3>1. \A r \in PageRepos : r3'[r] = r3'[r2] => r = r2
      BY <2>1, <2>2, <2>3, <1>4
    <3> QED
      BY <1>6, <2>1, <3>1
  <2>6. Page!ChatsAreTold'
    BY <1>2, <1>3, <1>8, <2>3, <2>4, <2>5 DEF Page!ChatsAreTold
  <2>7. \A q \in r13 : q.chat = asked.chat <=> q.repo = asked.repo /\ q.talk = asked.talk
    BY <1>6, <2>1, <2>4
  <2>8. \A p, q \in r13 : p.chat = q.chat <=> p.repo = q.repo /\ p.talk = q.talk
    BY <1>8 DEF Page!PageInv, Page!ChatsAreSeparate
  <2>9. \A p, q \in r13' : p.chat = q.chat <=> p.repo = q.repo /\ p.talk = q.talk
    BY <1>3, <2>7, <2>8
  <2> QED
    BY <2>6, <2>9 DEF Page!ChatsAreSeparate
<1>9. (Page!ChatsAreSeparate /\ (r14.lost \/ Page!ChatsAreTold))'
  BY <1>2, <1>8 DEF Page!PageInv, Page!ChatsAreSeparate
<1>10. None \notin r12
  BY <1>1, PageNoHandle
<1> QED
  BY <1>3, <1>7, <1>9, <1>10 DEF Page!PageInv

\* A reload finds the chats that sessionStorage kept, and no button.
LEMMA PageReloads == Page!PageInv /\ Page!Reload => Page!PageInv'
<1> USE PageAssumption
<1> SUFFICES ASSUME Page!PageInv, Page!Reload PROVE Page!PageInv'
  OBVIOUS
<1>1. Page!TypeOK
  BY DEF Page!PageInv
<1>2. /\ UNCHANGED <<r4, r11, r12, r13>> /\ r1' \in {"auto", "learning"}
      /\ r2' = r4.repo /\ r3' = r4.chats /\ r5' = None /\ r7' = FALSE
      /\ r8' = [by |-> None, handle |-> None, undo |-> FALSE]
      /\ r14' = [r14 EXCEPT !.lost = r14.lost \/ r14.refused, !.refused = FALSE]
  BY DEF Page!Reload, Page!Blank
<1>3. /\ r14' \in [now : [PageRepos -> Nat], refused : BOOLEAN, lost : BOOLEAN]
      /\ r14'.now = r14.now /\ ~r14'.refused /\ (r14'.lost <=> r14.lost \/ r14.refused)
  BY <1>1, <1>2 DEF Page!TypeOK
<1>4. Page!TypeOK'
  BY <1>1, <1>2, <1>3 DEF Page!TypeOK, Page!Chats
<1>5. Page!ChatsAreSeparate'
  BY <1>2, <1>3 DEF Page!PageInv, Page!ChatsAreSeparate
<1>6. (r14.lost \/ Page!ChatsAreTold)'
  <2> SUFFICES ASSUME ~r14.lost, ~r14.refused, Page!ChatsAreTold PROVE Page!ChatsAreTold'
    BY <1>3 DEF Page!PageInv
  <2>1. r3' = r3 /\ r4' = r4 /\ r13' = r13
    BY <1>2 DEF Page!ChatsAreTold
  <2> QED
    BY <1>3, <2>1 DEF Page!ChatsAreTold
<1>7. None \notin r12
  BY <1>1, PageNoHandle
<1> QED
  BY <1>2, <1>4, <1>5, <1>6, <1>7 DEF Page!PageInv

\* Questions of a tab go to one chat exactly when they are about one
\* repository and one talk, an approval that was sent loses its button, and a
\* question and a lesson come back to their view, however the user clicks,
\* types and reloads meanwhile (frontend.py:687).
THEOREM PageStaysHonest == Spec => [](part = "page" => Page!PageIsHonest)
<1> DEFINE Inv == part = "page" => Page!PageInv
<1>1. Init => Inv
  BY PageInit
<1>2. Inv /\ [Next]_vars => Inv'
  <2> SUFFICES ASSUME Inv, [Next]_vars, part' = "page" PROVE Page!PageInv'
    OBVIOUS
  <2>1. CASE UNCHANGED vars
    <3>1. /\ part' = part /\ r1' = r1 /\ r2' = r2 /\ r3' = r3 /\ r4' = r4 /\ r5' = r5
          /\ r7' = r7 /\ r8' = r8 /\ r11' = r11 /\ r12' = r12 /\ r13' = r13 /\ r14' = r14
      BY <2>1 DEF vars
    <3> QED
      BY <3>1 DEF Page!PageInv, Page!TypeOK, Page!Chats, Page!ChatsAreSeparate, Page!ChatsAreTold
  <2>2. CASE Next
    <3>1. part = "page" /\ Page!Next
      BY <2>2 DEF Next
    <3> QED
      BY <3>1, PageViews, PageBegins, PageAsks, PageReloads DEF Page!Next
  <2> QED
    BY <2>1, <2>2
<1>3. Inv => (part = "page" => Page!PageIsHonest)
  <2> SUFFICES ASSUME Page!PageInv PROVE Page!PageIsHonest
    OBVIOUS
  <2>1. Page!ButtonsAreFresh
    BY PageAssumption DEF Page!PageInv, Page!ButtonsAreFresh
  <2>2. Page!ViewsAreKept
    BY PageAssumption DEF Page!PageInv, Page!TypeOK, Page!ViewsAreKept
  <2> QED
    BY <2>1, <2>2 DEF Page!PageInv, Page!PageIsHonest
<1> QED
  BY <1>1, <1>2, <1>3, PTL DEF Spec

\* The command line and the page tell the user what has happened, and keep
\* apart what belongs to different chats, views and approvals (main.py:94,
\* frontend.py:687).
THEOREM FrontEndsAreAlwaysHonest == Spec => []FrontEndsAreHonest
<1>1. /\ part = "cli" => Cli!SnapshotsAreShown /\ Cli!ExitTellsFailures
      /\ part = "page" => Page!PageIsHonest
      => FrontEndsAreHonest
  BY DEF FrontEndsAreHonest
<1> QED
  BY <1>1, SnapshotsAreAlwaysShown, PageStaysHonest, PTL

-----------------------------------------------------------------------------
(***************************************************************************)
(* LlmClient.  r1 is pc, r3 the attempts, r4 the outcome, r5 the class of  *)
(* the error, r6 the pending observation, r8 the events, r9 what was sent. *)
(***************************************************************************)

\* A failure has a class, which None is not.
LEMMA LlmClasses ==
  ASSUME NEW reply \in Llm!AllReplies
  PROVE  Llm!ClassOf(reply) \in Llm!AllReplies \cup {"invalid_json", "invalid_response"}
BY DEF Llm!ClassOf

\* What is true of a prefix of what was sent stays true when a reply is appended.
LEMMA LlmSends ==
  ASSUME NEW wire \in Seq(Llm!AllReplies), NEW reply \in Llm!AllReplies
  PROVE  /\ Append(wire, reply) \in Seq(Llm!AllReplies)
         /\ Len(wire) \in Nat /\ Len(Append(wire, reply)) = Len(wire) + 1
         /\ Append(wire, reply) # <<>>
         /\ Llm!LastOf(Append(wire, reply)) = reply
         /\ Llm!Classes(Append(wire, reply)) = Llm!Classes(wire) \cup {Llm!ClassOf(reply)}
         /\ Llm!MayRetry(wire) =>
              \A k \in 1 .. Len(Append(wire, reply)) - 1 : Llm!IsTransient(Append(wire, reply)[k])
         /\ Llm!MayRetry(wire) /\ Llm!IsTransient(reply) => Llm!MayRetry(Append(wire, reply))
<1> DEFINE more == Append(wire, reply)
<1>1. /\ more \in Seq(Llm!AllReplies) /\ Len(wire) \in Nat /\ DOMAIN wire = 1 .. Len(wire)
      /\ Len(more) = Len(wire) + 1 /\ DOMAIN more = 1 .. (Len(wire) + 1)
      /\ \A i \in DOMAIN wire : more[i] = wire[i]
      /\ more[Len(wire) + 1] = reply
  BY Appended
<1> HIDE DEF more
<1>2. more # <<>>
  BY <1>1
<1>3. Llm!LastOf(more) = reply
  BY <1>1 DEF Llm!LastOf
<1>4. Llm!Classes(more) = Llm!Classes(wire) \cup {Llm!ClassOf(reply)}
  <2>1. \A k \in DOMAIN more : k \in DOMAIN wire \/ k = Len(wire) + 1
    BY <1>1
  <2>2. \A k \in DOMAIN wire : k \in DOMAIN more
    BY <1>1
  <2>3. Len(wire) + 1 \in DOMAIN more
    BY <1>1
  <2> QED
    BY <1>1, <2>1, <2>2, <2>3, Zenon DEF Llm!Classes
<1>5. Llm!MayRetry(wire) => \A k \in 1 .. Len(more) - 1 : Llm!IsTransient(more[k])
  BY <1>1 DEF Llm!MayRetry
<1>6. Llm!MayRetry(wire) /\ Llm!IsTransient(reply) => Llm!MayRetry(more)
  BY <1>1 DEF Llm!MayRetry
<1> QED
  BY <1>1, <1>2, <1>3, <1>4, <1>5, <1>6 DEF more

\* Nothing has been sent, and nobody is in a call.
LEMMA LlmInit == part = "llm" /\ Init => Llm!WireInv
<1> SUFFICES ASSUME part = "llm", Init PROVE Llm!WireInv
  OBVIOUS
<1>1. Llm!Init
  BY DEF Init
<1>2. \A t \in LlmThreads : Llm!CallIsKnown(t)
  BY <1>1 DEF Llm!Init, Llm!CallIsKnown
<1>3. \A t \in LlmThreads : r8[t] = <<>>
  BY <1>1 DEF Llm!Init
<1>4. r8 \in [LlmThreads -> Seq([call : Llm!Observation, sent : Seq(Llm!AllReplies)])]
  BY <1>1 DEF Llm!Init
<1> QED
  BY <1>1, <1>2, <1>3, <1>4 DEF Llm!Init, Llm!WireInv

\* A call and its event are those of the thread, whatever the others do.
LEMMA LlmOthers ==
  ASSUME NEW t, Llm!CallIsKnown(t), r1'[t] = r1[t], r3'[t] = r3[t], r4'[t] = r4[t],
         r5'[t] = r5[t], r6'[t] = r6[t], r9'[t] = r9[t]
  PROVE  Llm!CallIsKnown(t)'
BY DEF Llm!CallIsKnown

\* A step of thread t that records no event keeps the invariant if it keeps
\* what is known of the call of t.
LEMMA LlmMoves ==
  ASSUME Llm!WireInv, NEW t \in LlmThreads, Llm!CallIsKnown(t)', r8' = r8,
         \A u \in LlmThreads \ {t} :
            /\ r1'[u] = r1[u] /\ r3'[u] = r3[u] /\ r4'[u] = r4[u]
            /\ r5'[u] = r5[u] /\ r6'[u] = r6[u] /\ r9'[u] = r9[u],
         DOMAIN r1' = LlmThreads, DOMAIN r3' = LlmThreads, DOMAIN r4' = LlmThreads,
         DOMAIN r5' = LlmThreads, DOMAIN r6' = LlmThreads, DOMAIN r9' = LlmThreads
  PROVE  Llm!WireInv'
<1>1. \A u \in LlmThreads : Llm!CallIsKnown(u)'
  BY LlmOthers DEF Llm!WireInv
<1>2. \A u \in LlmThreads : \A i \in DOMAIN r8'[u] : Llm!Tells(r8'[u][i].call, r8'[u][i].sent)
  BY DEF Llm!WireInv
<1> QED
  BY <1>1, <1>2 DEF Llm!WireInv

\* A call begins with nothing sent and nothing noted.
LEMMA LlmCalls ==
  ASSUME Llm!WireInv, NEW t \in LlmThreads, Llm!Call(t) PROVE Llm!WireInv'
<1>1. Llm!CallIsKnown(t)'
  BY LlmAssumption DEF Llm!WireInv, Llm!Call, Llm!CallIsKnown, Llm!MayRetry
<1> QED
  BY <1>1, LlmMoves DEF Llm!WireInv, Llm!Call

\* The sleep changes nothing that is noted.
LEMMA LlmRetries ==
  ASSUME Llm!WireInv, NEW t \in LlmThreads, Llm!Retry(t) PROVE Llm!WireInv'
<1>1. Llm!CallIsKnown(t)'
  BY DEF Llm!WireInv, Llm!Retry, Llm!CallIsKnown
<1> QED
  BY <1>1, LlmMoves DEF Llm!WireInv, Llm!Retry

\* The observation that is recorded is what the locals of the call say.
LEMMA LlmRecords ==
  ASSUME Llm!WireInv, NEW t \in LlmThreads, Llm!Record(t) PROVE Llm!WireInv'
<1>1. Llm!CallIsKnown(t)'
  BY DEF Llm!WireInv, Llm!Record, Llm!CallIsKnown
<1> QED
  BY <1>1, LlmMoves DEF Llm!WireInv, Llm!Record

\* After an interrupt nothing is known of the call, and nobody takes its record.
LEMMA LlmInterrupts ==
  ASSUME Llm!WireInv, NEW t \in LlmThreads, Llm!Interrupt(t) PROVE Llm!WireInv'
<1>1. Llm!CallIsKnown(t)'
  BY DEF Llm!WireInv, Llm!Interrupt, Llm!CallIsKnown
<1> QED
  BY <1>1, LlmMoves DEF Llm!WireInv, Llm!Interrupt

\* Each attempt is counted, and what is noted of it is what came back.
LEMMA LlmAttempts ==
  ASSUME Llm!WireInv, NEW t \in LlmThreads, NEW reply \in LlmReplies, Llm!Attempt(t, reply)
  PROVE  Llm!WireInv'
<1> DEFINE wire == r9[t]
           more == Append(wire, reply)
<1>1. /\ wire \in Seq(Llm!AllReplies) /\ r3[t] = Len(wire) /\ r3[t] < LlmMaxAttempts
      /\ Llm!MayRetry(wire) /\ r4[t] = "error"
      /\ IF wire = <<>> THEN r5[t] = None ELSE r5[t] \in Llm!Classes(wire) \ {None}
  BY DEF Llm!WireInv, Llm!Attempt, Llm!CallIsKnown
<1>2. reply \in Llm!AllReplies /\ LlmMaxAttempts \in 1 .. 5
  BY LlmAssumption
<1>3. /\ more \in Seq(Llm!AllReplies) /\ Len(wire) \in Nat /\ Len(more) = Len(wire) + 1
      /\ more # <<>> /\ Llm!LastOf(more) = reply
      /\ Llm!Classes(more) = Llm!Classes(wire) \cup {Llm!ClassOf(reply)}
      /\ \A k \in 1 .. Len(more) - 1 : Llm!IsTransient(more[k])
      /\ Llm!IsTransient(reply) => Llm!MayRetry(more)
  BY <1>1, <1>2, LlmSends
<1>4. /\ r3'[t] = Len(more) /\ r9'[t] = more /\ Len(more) \in 1 .. LlmMaxAttempts
  BY <1>1, <1>2, <1>3 DEF Llm!WireInv, Llm!Attempt
<1>5. Llm!Classes(more) \subseteq Llm!AllReplies \cup {"invalid_json", "invalid_response"}
  BY <1>3, LlmClasses, Elements DEF Llm!Classes
<1>6. Llm!ClassOf(reply) # None /\ Llm!ClassOf(reply) \in Llm!Classes(more) /\ None \notin Llm!Classes(more)
  BY <1>2, <1>3, <1>5, LlmClasses, LlmAssumption
<1> HIDE DEF more, wire
<1>7. ASSUME reply = "content" PROVE Llm!CallIsKnown(t)'
  <2>1. r4'[t] = "success" /\ r5'[t] = None /\ r1'[t] = "finally"
    BY <1>7 DEF Llm!WireInv, Llm!Attempt
  <2>2. Llm!Tells([attempts |-> Len(more), outcome |-> "success", class |-> None], more)
    BY <1>2, <1>3, <1>4, <1>7 DEF Llm!Tells, Llm!Observation, Llm!Lawful
  <2> QED
    BY <2>1, <2>2, <1>4 DEF Llm!CallIsKnown
<1>8. ASSUME reply # "content" PROVE Llm!CallIsKnown(t)'
  <2>1. r4'[t] = "error" /\ r5'[t] \in Llm!Classes(more) \ {None}
    BY <1>1, <1>3, <1>6, <1>8 DEF Llm!WireInv, Llm!Attempt
  <2>2. Llm!Tells([attempts |-> Len(more), outcome |-> "error", class |-> r5'[t]], more)
    BY <1>2, <1>3, <1>4, <1>5, <1>8, <2>1 DEF Llm!Tells, Llm!Observation, Llm!Lawful
  <2>3. CASE Llm!IsTransient(reply) /\ Len(more) < LlmMaxAttempts
    <3>1. r1'[t] = "backoff"
      BY <1>4, <1>8, <2>3 DEF Llm!WireInv, Llm!Attempt
    <3> QED
      BY <3>1, <2>1, <2>3, <1>3, <1>4 DEF Llm!CallIsKnown
  <2>4. CASE ~(Llm!IsTransient(reply) /\ Len(more) < LlmMaxAttempts)
    <3>1. r1'[t] = "finally"
      BY <1>4, <1>8, <2>4 DEF Llm!WireInv, Llm!Attempt
    <3> QED
      BY <3>1, <2>1, <2>2, <1>4 DEF Llm!CallIsKnown
  <2> QED
    BY <2>3, <2>4
<1>9. Llm!CallIsKnown(t)'
  BY <1>7, <1>8
<1> QED
  BY <1>9, LlmMoves DEF Llm!WireInv, Llm!Attempt

\* The observation that a thread takes is its own, and its event tells what the
\* call has sent.
LEMMA LlmTakes ==
  ASSUME Llm!WireInv, NEW t \in LlmThreads, Llm!Take(t) PROVE Llm!WireInv'
<1> DEFINE Events == [call : Llm!Observation, sent : Seq(Llm!AllReplies)]
           e == [call |-> r6[t], sent |-> r9[t]]
<1>1. Llm!Tells(r6[t], r9[t])
  BY DEF Llm!WireInv, Llm!Take, Llm!CallIsKnown
<1>2. r6[t] # None /\ r6[t].attempts \in 1 .. 5 /\ (r6[t].outcome = "success" <=> r6[t].class = None)
  <2>1. r6[t] \in Llm!Observation /\ r6[t].attempts \in 1 .. 5
    BY <1>1 DEF Llm!Tells, Llm!Observation
  <2>2. r6[t] # None
    BY <2>1, LlmAssumption
  <2> QED
    BY <1>1, <2>1, <2>2 DEF Llm!Tells
<1>3. Llm!Normalize(r6[t]) = r6[t]
  BY <1>2 DEF Llm!Normalize
<1>4. e \in Events
  BY <1>1 DEF Llm!Tells
<1>5. r8[t] \in Seq(Events) /\ r8'[t] = Append(r8[t], e)
  BY <1>3 DEF Llm!WireInv, Llm!Take
<1>6. /\ r8'[t] \in Seq(Events) /\ Len(r8[t]) \in Nat
      /\ DOMAIN r8[t] = 1 .. Len(r8[t]) /\ DOMAIN r8'[t] = 1 .. (Len(r8[t]) + 1)
      /\ \A i \in DOMAIN r8[t] : r8'[t][i] = r8[t][i]
      /\ r8'[t][Len(r8[t]) + 1] = e
  BY <1>4, <1>5, Appended
<1>7. \A i \in DOMAIN r8'[t] : Llm!Tells(r8'[t][i].call, r8'[t][i].sent)
  <2>1. \A i \in DOMAIN r8[t] : Llm!Tells(r8[t][i].call, r8[t][i].sent)
    BY DEF Llm!WireInv
  <2>2. e.call = r6[t] /\ e.sent = r9[t]
    OBVIOUS
  <2>3. \A i \in DOMAIN r8'[t] : i \in DOMAIN r8[t] \/ i = Len(r8[t]) + 1
    BY <1>6
  <2> HIDE DEF e, Events
  <2> QED
    BY <1>1, <1>6, <2>1, <2>2, <2>3
<1>8. r8' \in [LlmThreads -> Seq(Events)]
  BY <1>6 DEF Llm!WireInv, Llm!Take
<1>9. \A u \in LlmThreads \ {t} : r8'[u] = r8[u] /\ Llm!CallIsKnown(u)'
  BY LlmOthers DEF Llm!WireInv, Llm!Take
<1>10. Llm!CallIsKnown(t)'
  BY DEF Llm!WireInv, Llm!Take, Llm!CallIsKnown
<1>11. \A u \in LlmThreads : \A i \in DOMAIN r8'[u] : Llm!Tells(r8'[u][i].call, r8'[u][i].sent)
  BY <1>7, <1>9 DEF Llm!WireInv
<1> QED
  BY <1>8, <1>9, <1>10, <1>11 DEF Llm!WireInv, Llm!Take

\* Every step of every thread keeps what is known.
LEMMA LlmStep == Llm!WireInv /\ Llm!Next => Llm!WireInv'
  BY LlmCalls, LlmRetries, LlmRecords, LlmInterrupts, LlmTakes, LlmAttempts DEF Llm!Next

\* Cardinality is the same in every module.
LEMMA LlmCardinality == ASSUME NEW S PROVE Llm!Cardinality(S) = Cardinality(S)
  BY DEF Llm!Cardinality, Cardinality

\* If each event tells what its call has sent, so does their summary.
LEMMA LlmSummary == Llm!WireInv => Llm!SummaryMatchesWire
<1> SUFFICES ASSUME Llm!WireInv, NEW t \in LlmThreads
             PROVE  LET run == r8[t]
                        s == Llm!Summary(run)
                    IN /\ s.observed = Len(run)
                       /\ s.attempts = Llm!SumFunction([i \in DOMAIN run |-> Len(run[i].sent)])
                       /\ s.retries = Llm!SumFunction([i \in DOMAIN run |-> Len(run[i].sent) - 1])
                       /\ s.succeeded = Llm!Cardinality({i \in DOMAIN run : Llm!LastOf(run[i].sent) = "content"})
                       /\ \A i \in DOMAIN run : Llm!Lawful(run[i].sent, run[i].call.class)
  BY DEF Llm!SummaryMatchesWire
<1> DEFINE run == r8[t]
           s == Llm!Summary(run)
<1>1. \A i \in DOMAIN run : Llm!Tells(run[i].call, run[i].sent)
  BY DEF Llm!WireInv
<1>2. DOMAIN run = 1 .. Len(run) /\ Len(run) \in Nat
  BY DEF Llm!WireInv
<1> HIDE DEF run
<1>3. \A i \in DOMAIN run :
         /\ run[i].call # None /\ run[i].call.attempts = Len(run[i].sent)
         /\ run[i].call.outcome = "success" <=> Llm!LastOf(run[i].sent) = "content"
         /\ Llm!Lawful(run[i].sent, run[i].call.class)
  BY <1>1, LlmAssumption DEF Llm!Tells
<1>4. Llm!Seen(run) = DOMAIN run
  BY <1>3 DEF Llm!Seen
<1>5. s.observed = Len(run)
  <2>1. Cardinality(1 .. Len(run)) = Len(run)
    <3>1. 1 \in Int /\ Len(run) \in Int
      BY <1>2
    <3>2. Cardinality(1 .. Len(run)) = IF 1 > Len(run) THEN 0 ELSE Len(run) - 1 + 1
      BY <3>1, FS_Interval
    <3> QED
      BY <3>2, <1>2
  <2>2. s.observed = Llm!Cardinality(Llm!Seen(run))
    BY DEF Llm!Summary
  <2> QED
    BY <2>1, <2>2, <1>2, <1>4, LlmCardinality
<1>6. [i \in Llm!Seen(run) |-> run[i].call.attempts] = [i \in DOMAIN run |-> Len(run[i].sent)]
  BY <1>3, <1>4
<1>7. [i \in Llm!Seen(run) |-> run[i].call.attempts - 1] = [i \in DOMAIN run |-> Len(run[i].sent) - 1]
  BY <1>3, <1>4
<1>8. {i \in Llm!Seen(run) : run[i].call.outcome = "success"}
        = {i \in DOMAIN run : Llm!LastOf(run[i].sent) = "content"}
  BY <1>3, <1>4
<1>9. /\ s.attempts = Llm!SumFunction([i \in Llm!Seen(run) |-> run[i].call.attempts])
      /\ s.retries = Llm!SumFunction([i \in Llm!Seen(run) |-> run[i].call.attempts - 1])
      /\ s.succeeded = Llm!Cardinality({i \in Llm!Seen(run) : run[i].call.outcome = "success"})
  BY DEF Llm!Summary
<1> QED
  BY <1>3, <1>5, <1>6, <1>7, <1>8, <1>9 DEF run

\* The summary of each run counts what its own calls sent over the wire, and
\* only transient failures were retried, for any number of threads that share
\* the client (llm_client.py:246).
THEOREM SummaryAlwaysMatches == Spec => []SummaryMatchesWire
<1> DEFINE Inv == part = "llm" => Llm!WireInv
<1>1. Init => Inv
  BY LlmInit
<1>2. Inv /\ [Next]_vars => Inv'
  <2> SUFFICES ASSUME Inv, [Next]_vars, part' = "llm" PROVE Llm!WireInv'
    OBVIOUS
  <2>1. CASE UNCHANGED vars
    BY <2>1, LlmOthers DEF vars, Llm!WireInv
  <2>2. CASE Next
    <3>1. part = "llm" /\ Llm!Next
      BY <2>2 DEF Next
    <3> QED
      BY <3>1, LlmStep
  <2> QED
    BY <2>1, <2>2
<1>3. Inv => SummaryMatchesWire
  BY LlmSummary DEF SummaryMatchesWire
<1> QED
  BY <1>1, <1>2, <1>3, PTL DEF Spec

-----------------------------------------------------------------------------
-----------------------------------------------------------------------------
(***************************************************************************)
(* TraceArchive.  r1 is the schema, r2 the rows, r3 the archive, r4 now,   *)
(* r5 made, r6 the script, r7 the reader, r8 fixed, r9 quiet, r10 busy and *)
(* r11 the setting.                                                        *)
(***************************************************************************)

\* Where a row may be in the order of a page.
Positions == Nat \X Archive!Ranked

\* Every id has a rank of its own.
LEMMA RankIsPlace ==
  ASSUME NEW id \in Archive!Ranked
  PROVE  Archive!Rank(id) \in 1 .. Len(ArchiveIds) /\ ArchiveIds[Archive!Rank(id)] = id
<1>1. DOMAIN ArchiveIds = 1 .. Len(ArchiveIds)
  BY ArchiveAssumption
<1>2. \E i \in DOMAIN ArchiveIds : ArchiveIds[i] = id
  BY DEF Archive!Ranked
<1> QED
  BY <1>1, <1>2 DEF Archive!Rank

\* Of two different positions one precedes the other; the order is transitive.
LEMMA PageOrder ==
  ASSUME NEW p \in Positions, NEW q \in Positions, NEW r \in Positions
  PROVE  /\ ~ Archive!Precedes(p, p)
         /\ p # q => Archive!Precedes(p, q) \/ Archive!Precedes(q, p)
         /\ Archive!Precedes(p, q) /\ Archive!Precedes(q, r) => Archive!Precedes(p, r)
<1> DEFINE a == Archive!Rank(p[2])
           b == Archive!Rank(q[2])
           c == Archive!Rank(r[2])
<1>1. /\ p[1] \in Nat /\ q[1] \in Nat /\ r[1] \in Nat
      /\ p[2] \in Archive!Ranked /\ q[2] \in Archive!Ranked /\ r[2] \in Archive!Ranked
      /\ p = <<p[1], p[2]>> /\ q = <<q[1], q[2]>>
  BY DEF Positions
<1>2. Len(ArchiveIds) \in Nat
  BY ArchiveAssumption
<1>3. a \in 1 .. Len(ArchiveIds) /\ b \in 1 .. Len(ArchiveIds) /\ c \in 1 .. Len(ArchiveIds)
  BY <1>1, RankIsPlace
<1>4. a = b => p[2] = q[2]
  <2>1. ArchiveIds[a] = p[2] /\ ArchiveIds[b] = q[2]
    BY <1>1, RankIsPlace
  <2> QED
    BY <2>1
<1>5. /\ Archive!Precedes(p, q) <=> p[1] > q[1] \/ (p[1] = q[1] /\ a > b)
      /\ Archive!Precedes(q, p) <=> q[1] > p[1] \/ (q[1] = p[1] /\ b > a)
      /\ Archive!Precedes(q, r) <=> q[1] > r[1] \/ (q[1] = r[1] /\ b > c)
      /\ Archive!Precedes(p, r) <=> p[1] > r[1] \/ (p[1] = r[1] /\ a > c)
      /\ Archive!Precedes(p, p) <=> p[1] > p[1] \/ (p[1] = p[1] /\ a > a)
  BY Zenon DEF Archive!Precedes
<1>6. p # q => p[1] # q[1] \/ a # b
  BY <1>1, <1>4
<1> HIDE DEF a, b, c
<1>7. a \in Nat /\ b \in Nat /\ c \in Nat
  BY <1>2, <1>3
<1> QED
  BY <1>1, <1>5, <1>6, <1>7

\* Runs whose rows have dates.
Dates(S) == S \subseteq Archive!Ranked /\ \A id \in S : r2[id].updated \in Nat

\* They have positions, each one its own.
LEMMA PositionsDiffer ==
  ASSUME NEW S, Dates(S), NEW a \in S, NEW b \in S
  PROVE  Archive!Position(a) \in Positions /\ (Archive!Position(a) = Archive!Position(b) => a = b)
  BY DEF Dates, Archive!Position, Positions

\* Some of them have a first.
LEMMA FirstIsFirst ==
  ASSUME NEW S, Dates(S), S # {}
  PROVE  /\ Archive!First(S) \in S
         /\ \A other \in S : \/ other = Archive!First(S)
                             \/ Archive!Precedes(Archive!Position(Archive!First(S)), Archive!Position(other))
<1> DEFINE N == Len(ArchiveIds)
           Leads(id, T) == id \in T /\ \A other \in T : \/ other = id
                               \/ Archive!Precedes(Archive!Position(id), Archive!Position(other))
           T(n) == {id \in S : \E i \in 1 .. n : ArchiveIds[i] = id}
           found == [n \in 0 .. N |-> IF T(n) = {} \/ \E id \in T(n) : Leads(id, T(n)) THEN 1 ELSE 0]
<1>1. N \in Nat
  BY ArchiveAssumption
<1>2. found[0] \in {1}
  BY <1>1
<1>3. ASSUME NEW n \in 1 .. N, found[n - 1] \in {1} PROVE found[n] \in {1}
  <2>1. n \in 0 .. N /\ n - 1 \in 0 .. N
    BY <1>1
  <2>2. T(n - 1) = {} \/ \E id \in T(n - 1) : Leads(id, T(n - 1))
    BY <1>3, <2>1
  <2>3. \A i \in 1 .. n : i = n \/ i \in 1 .. n - 1
    BY <1>1
  <2>4. n \in 1 .. n /\ \A i \in 1 .. n - 1 : i \in 1 .. n
    BY <1>1
  <2> DEFINE x == ArchiveIds[n]
  <2>5. CASE x \notin S
    <3>1. T(n) = T(n - 1)
      BY <2>3, <2>4, <2>5
    <3>2. T(n) = {} \/ \E id \in T(n) : Leads(id, T(n))
      BY <2>2, <3>1
    <3> QED
      BY <2>1, <3>2
  <2>6. CASE x \in S
    <3>1. T(n) = T(n - 1) \cup {x}
      BY <2>3, <2>4, <2>6
    <3>2. T(n) \subseteq S
      OBVIOUS
    <3> HIDE DEF T
    <3>3. CASE T(n - 1) = {}
      <4>1. Leads(x, T(n))
        BY <3>1, <3>3
      <4> QED
        BY <2>1, <4>1
    <3>4. ASSUME NEW id \in T(n - 1), Leads(id, T(n - 1)) PROVE found[n] \in {1}
      <4>1. x \in S /\ id \in S
        BY <2>6, <3>1, <3>2
      <4>2. /\ Archive!Position(x) \in Positions /\ Archive!Position(id) \in Positions
            /\ Archive!Position(x) = Archive!Position(id) => x = id
        BY <4>1, PositionsDiffer
      <4> HIDE DEF x
      <4>3. CASE x = id \/ Archive!Precedes(Archive!Position(id), Archive!Position(x))
        <5>1. Leads(id, T(n))
          BY <3>1, <3>4, <4>3
        <5> QED
          BY <2>1, <5>1
      <4>4. CASE x # id /\ ~ Archive!Precedes(Archive!Position(id), Archive!Position(x))
        <5>1. Archive!Precedes(Archive!Position(x), Archive!Position(id))
          BY <4>2, <4>4, PageOrder
        <5>2. ASSUME NEW other \in T(n), other # x
              PROVE  Archive!Precedes(Archive!Position(x), Archive!Position(other))
          <6>1. other \in T(n - 1) /\ other \in S
            BY <3>1, <3>2, <5>2
          <6>2. other = id \/ Archive!Precedes(Archive!Position(id), Archive!Position(other))
            BY <3>4, <6>1
          <6>3. Archive!Position(other) \in Positions
            BY <6>1, PositionsDiffer
          <6> QED
            BY <4>2, <5>1, <6>2, <6>3, PageOrder
        <5>3. Leads(x, T(n))
          BY <3>1, <5>2
        <5> QED
          BY <2>1, <5>3
      <4> QED
        BY <4>3, <4>4
    <3> QED
      BY <2>2, <3>3, <3>4
  <2> QED
    BY <2>5, <2>6
<1>4. found[N] \in {1}
  <2> HIDE DEF found, N
  <2>1. \A n \in 0 .. N : found[n] \in {1}
    BY <1>1, <1>2, <1>3, StepByStep
  <2> QED
    BY <1>1, <2>1
<1>5. T(N) = S
  <2>1. ASSUME NEW id \in S PROVE id \in T(N)
    <3>1. id \in Archive!Ranked
      BY DEF Dates
    <3> QED
      BY <3>1, RankIsPlace
  <2> QED
    BY <2>1
<1>6. PICK id \in S : Leads(id, S)
  <2>1. N \in 0 .. N
    BY <1>1
  <2> QED
    BY <1>4, <1>5, <2>1
<1> QED
  BY <1>6, Zenon DEF Archive!First

\* The first n of some runs, in order; all of them if there are no more.
Listed(S, f) == {f[i] : i \in DOMAIN f}
Behind(a, b) == Archive!Precedes(Archive!Position(a), Archive!Position(b))

IsPage(S, n, f) ==
  /\ f \in Seq(S) /\ Len(f) <= n
  /\ Len(f) = n \/ Listed(S, f) = S
  /\ \A i, j \in DOMAIN f : i < j => Behind(f[i], f[j])
  /\ \A i \in DOMAIN f : \A id \in S \ Listed(S, f) : Behind(f[i], id)

\* What one more run makes of them.
More(S, f) ==
  LET left == S \ {f[i] : i \in DOMAIN f} IN IF left = {} THEN f ELSE Append(f, Archive!First(left))

LEMMA MoreIsPage ==
  ASSUME NEW S, Dates(S), NEW n \in Nat, NEW f, IsPage(S, n, f)
  PROVE  IsPage(S, n + 1, More(S, f))
<1> DEFINE left == S \ Listed(S, f)
           x == Archive!First(left)
           g == Append(f, x)
<1>1. f \in Seq(S) /\ Len(f) \in Nat /\ DOMAIN f = 1 .. Len(f) /\ Len(f) <= n
  BY DEF IsPage
<1>2. CASE left = {}
  <2>1. More(S, f) = f
    BY <1>2 DEF More, Listed
  <2>2. Listed(S, f) = S
    BY <1>1, <1>2 DEF Listed
  <2>3. Len(f) <= n + 1
    BY <1>1
  <2> QED
    BY <2>1, <2>2, <2>3 DEF IsPage
<1>3. CASE left # {}
  <2>1. More(S, f) = g
    BY <1>3, Zenon DEF More, Listed
  <2>2. Dates(left)
    BY DEF Dates
  <2>3. x \in left /\ \A other \in left : other = x \/ Behind(x, other)
    <3> HIDE DEF left
    <3> QED
      BY <1>3, <2>2, FirstIsFirst DEF Behind
  <2>4. left # {} => Len(f) = n
    BY DEF IsPage
  <2> HIDE DEF x
  <2>5. /\ g \in Seq(S) /\ Len(g) = Len(f) + 1 /\ DOMAIN g = 1 .. (Len(f) + 1)
        /\ \A i \in DOMAIN f : g[i] = f[i]
        /\ g[Len(f) + 1] = x
    <3>1. x \in S
      BY <2>3
    <3> QED
      BY <1>1, <3>1, Appended
  <2>6. Listed(S, g) = Listed(S, f) \cup {x}
    <3>1. DOMAIN g = DOMAIN f \cup {Len(f) + 1}
      BY <1>1, <2>5
    <3> HIDE DEF g
    <3> QED
      BY <2>5, <3>1 DEF Listed
  <2> HIDE DEF g
  <2>7. Len(g) = n + 1
    BY <1>1, <1>3, <2>4, <2>5
  <2>8. ASSUME NEW i \in DOMAIN g, NEW j \in DOMAIN g, i < j PROVE Behind(g[i], g[j])
    <3>1. i \in DOMAIN f /\ g[i] = f[i]
      BY <1>1, <2>5, <2>8
    <3>2. CASE j \in DOMAIN f
      <4>1. Behind(f[i], f[j])
        BY <2>8, <3>1, <3>2 DEF IsPage
      <4> QED
        BY <2>5, <3>1, <3>2, <4>1
    <3>3. CASE j = Len(f) + 1
      <4>1. Behind(f[i], x)
        BY <2>3, <3>1 DEF IsPage
      <4> QED
        BY <2>5, <3>1, <3>3, <4>1
    <3> QED
      BY <1>1, <2>5, <3>2, <3>3
  <2>9. ASSUME NEW i \in DOMAIN g, NEW id \in S \ Listed(S, g) PROVE Behind(g[i], id)
    <3>1. id \in S \ Listed(S, f) /\ id \in left /\ id # x
      BY <2>6, <2>9
    <3>2. CASE i \in DOMAIN f
      <4>1. Behind(f[i], id)
        BY <3>1, <3>2 DEF IsPage
      <4> QED
        BY <2>5, <3>2, <4>1
    <3>3. CASE i = Len(f) + 1
      <4>1. Behind(x, id)
        BY <2>3, <3>1
      <4> QED
        BY <2>5, <3>3, <4>1
    <3> QED
      BY <1>1, <2>5, <3>2, <3>3
  <2>10. IsPage(S, n + 1, g)
    <3>1. Len(g) <= n + 1
      BY <2>7
    <3>2. \A i \in DOMAIN g : \A id \in S \ Listed(S, g) : Behind(g[i], id)
      BY <2>9
    <3>3. \A i, j \in DOMAIN g : i < j => Behind(g[i], g[j])
      BY <2>8
    <3> QED
      BY <2>5, <2>7, <3>1, <3>2, <3>3, Zenon DEF IsPage
  <2> QED
    BY <2>1, <2>10
<1> QED
  BY <1>2, <1>3

\* The page that the query returns.
LEMMA FirstsArePage ==
  ASSUME NEW S, Dates(S)
  PROVE  IsPage(S, ArchiveLimit + 1, Archive!Firsts(S)[ArchiveLimit + 1])
<1> DEFINE N == ArchiveLimit + 1
           T == {f \in Seq(S) : TRUE}
           step == [p \in T \X (1 .. N) |-> More(S, p[1])]
<1>1. N \in Nat
  BY ArchiveAssumption
<1>2. <<>> \in T
  OBVIOUS
<1>3. \A f \in T : More(S, f) \in T
  <2> SUFFICES ASSUME NEW f \in Seq(S) PROVE More(S, f) \in Seq(S)
    OBVIOUS
  <2> DEFINE left == S \ {f[i] : i \in DOMAIN f}
  <2>1. CASE left = {}
    BY <2>1 DEF More
  <2>2. CASE left # {}
    <3>1. Dates(left)
      BY DEF Dates
    <3>2. Archive!First(left) \in left
      <4> HIDE DEF left
      <4> QED
        BY <2>2, <3>1, FirstIsFirst
    <3>3. Append(f, Archive!First(left)) \in Seq(S)
      BY <3>2
    <3>4. More(S, f) = Append(f, Archive!First(left))
      BY <2>2, Zenon DEF More
    <3> QED
      BY <3>3, <3>4
  <2> QED
    BY <2>1, <2>2
<1>4. step \in [T \X (1 .. N) -> T]
  BY <1>3
<1>5. \A f \in T, n \in 1 .. N : step[<<f, n>>] = More(S, f)
  OBVIOUS
<1>6. PICK g \in [0 .. N -> T] : g[0] = <<>> /\ \A n \in 1 .. N : g[n] = step[<<g[n - 1], n>>]
  <2> HIDE DEF step, T, N
  <2>1. \E g : Iterates(g, N, T, <<>>, step)
    BY <1>1, <1>2, <1>4, LoopsCompute
  <2> QED
    BY <2>1 DEF Iterates
<1>7. g = [n \in 0 .. N |-> IF n = 0 THEN <<>> ELSE More(S, g[n - 1])]
  <2>1. \A n \in 0 .. N : g[n] = IF n = 0 THEN <<>> ELSE More(S, g[n - 1])
    <3> SUFFICES ASSUME NEW n \in 0 .. N, n # 0 PROVE g[n] = More(S, g[n - 1])
      BY <1>6
    <3>1. n \in 1 .. N /\ n - 1 \in 0 .. N
      BY <1>1
    <3>2. g[n - 1] \in T
      BY <1>6, <3>1
    <3> HIDE DEF T, step
    <3> QED
      BY <1>5, <1>6, <3>1, <3>2
  <2> HIDE DEF T, N
  <2> QED
    BY <1>6, <2>1
<1> DEFINE F == Archive!Firsts(S)
<1>8. F = [n \in 0 .. N |-> IF n = 0 THEN <<>> ELSE More(S, F[n - 1])]
  BY <1>7, Zenon DEF Archive!Firsts, More
<1> HIDE DEF F, N
<1> DEFINE good == [n \in 0 .. N |-> IF IsPage(S, n, F[n]) THEN 1 ELSE 0]
<1>9. good[0] \in {1}
  <2>1. F[0] = <<>>
    BY <1>1, <1>8
  <2>2. <<>> \in Seq(S) /\ Len(<<>>) = 0 /\ DOMAIN <<>> = {}
    OBVIOUS
  <2>3. IsPage(S, 0, F[0])
    BY <2>1, <2>2 DEF IsPage
  <2> QED
    BY <1>1, <2>3
<1>10. ASSUME NEW n \in 1 .. N, good[n - 1] \in {1} PROVE good[n] \in {1}
  <2>1. n \in 0 .. N /\ n - 1 \in 0 .. N /\ n - 1 \in Nat /\ n - 1 + 1 = n /\ n # 0
    BY <1>1
  <2>2. IsPage(S, n - 1, F[n - 1])
    BY <1>10, <2>1
  <2>3. IsPage(S, n - 1 + 1, More(S, F[n - 1]))
    BY <2>1, <2>2, MoreIsPage
  <2>4. F[n] = More(S, F[n - 1])
    BY <1>8, <2>1
  <2>5. IsPage(S, n, F[n])
    BY <2>1, <2>3, <2>4
  <2> QED
    BY <2>1, <2>5
<1>11. good[N] \in {1}
  <2> HIDE DEF good
  <2>1. \A n \in 0 .. N : good[n] \in {1}
    BY <1>1, <1>9, <1>10, StepByStep
  <2> QED
    BY <1>1, <2>1
<1>12. IsPage(S, N, F[N])
  <2>1. N \in 0 .. N
    BY <1>1
  <2> QED
    BY <1>11, <2>1
<1> QED
  BY <1>12 DEF F, N

\* The rows have dates, and ids of the order.
LEMMA RowsHaveDates == Archive!FilesInv /\ Archive!RowsInv => Dates(DOMAIN r2)
<1> SUFFICES ASSUME Archive!FilesInv, Archive!RowsInv, NEW id \in DOMAIN r2
             PROVE  id \in Archive!Ranked /\ r2[id].updated \in Nat
  BY DEF Dates
<1>1. r2[id] \in Archive!Row(r11)
  BY DEF Archive!RowsInv
<1>2. PICK record \in Archive!Known : record.kind \in Archive!Traces /\ record.id = id
  BY DEF Archive!RowsInv
<1>3. CASE record \in Archive!Outside(r11)
  <2>1. Archive!IsSetting(r11)
    BY ArchiveAssumption DEF Archive!FilesInv
  <2>2. record.id \in Archive!Ranked
    BY <1>2, <1>3, <2>1 DEF Archive!IsSetting
  <2> QED
    BY <1>1, <1>2, <2>2 DEF Archive!Row
<1>4. ASSUME NEW k \in DOMAIN r5, NEW context \in {None, "server"}, record = Archive!Snapshot(k, context)
      PROVE  record.id = ArchiveRun
  BY <1>4 DEF Archive!Snapshot, Archive!Native
<1> QED
  BY <1>1, <1>2, <1>3, <1>4, ArchiveAssumption DEF Archive!Known, Archive!Row

\* Two sequences, one after the other.
LEMMA Joined ==
  ASSUME NEW S, NEW s \in Seq(S), NEW t \in Seq(S)
  PROVE  /\ s \o t \in Seq(S) /\ Len(s \o t) = Len(s) + Len(t)
         /\ DOMAIN (s \o t) = 1 .. Len(s) + Len(t)
         /\ \A i \in 1 .. Len(s) : (s \o t)[i] = s[i]
         /\ \A i \in 1 .. Len(t) : (s \o t)[Len(s) + i] = t[i]
  OBVIOUS

\* And each of its elements is of the one or the other.
LEMMA JoinedParts ==
  ASSUME NEW S, NEW s \in Seq(S), NEW t \in Seq(S), NEW i \in DOMAIN (s \o t)
  PROVE  \/ i \in DOMAIN s /\ (s \o t)[i] = s[i]
         \/ \E j \in DOMAIN t : i = Len(s) + j /\ (s \o t)[i] = t[j]
<1>1. Len(s) \in Nat /\ Len(t) \in Nat /\ DOMAIN s = 1 .. Len(s) /\ DOMAIN t = 1 .. Len(t)
  OBVIOUS
<1>2. i \in 1 .. Len(s) + Len(t)
  BY Joined
<1>3. CASE i \in 1 .. Len(s)
  BY <1>1, <1>3, Joined
<1>4. CASE i \notin 1 .. Len(s)
  <2>1. i - Len(s) \in 1 .. Len(t) /\ i = Len(s) + (i - Len(s))
    BY <1>1, <1>2, <1>4
  <2>2. (s \o t)[Len(s) + (i - Len(s))] = t[i - Len(s)]
    BY <2>1, Joined
  <2> QED
    BY <1>1, <2>1, <2>2, Zenon
<1> QED
  BY <1>3, <1>4

\* The next page has only runs that were not shown, and those that are left are
\* behind its last one.
LEMMA PagesStepPage ==
  Archive!FilesInv /\ Archive!RowsInv /\ Archive!PagesInv /\ Archive!Page => Archive!PagesInv'
<1> SUFFICES ASSUME Archive!FilesInv, Archive!RowsInv, Archive!PagesInv, Archive!Page
             PROVE  Archive!PagesInv'
  OBVIOUS
<1> DEFINE S == Archive!Behind(r7.source, r7.cursor)
           found == Archive!Firsts(S)[ArchiveLimit + 1]
           items == SubSeq(found, 1, Archive!Lesser(ArchiveLimit, Len(found)))
           seen == r7.shown
           last == Archive!Position(items[ArchiveLimit])
           more == Len(found) > ArchiveLimit
<1>1. /\ r7.pc = "next" /\ r2' = r2 /\ r8' = r8
      /\ r7' = [r7 EXCEPT !.pc = IF more THEN "next" ELSE "done", !.shown = @ \o items,
                          !.cursor = IF more THEN last ELSE None]
  BY Zenon DEF Archive!Page, Archive!ListTraces
<1>2. DOMAIN r7 = {"pc", "source", "cursor", "shown"}
  BY DEF Archive!PagesInv, Archive!NotReading
<1>3. /\ DOMAIN r7' = DOMAIN r7 /\ r7'.source = r7.source
      /\ r7'.pc = IF more THEN "next" ELSE "done"
      /\ r7'.shown = seen \o items
      /\ r7'.cursor = IF more THEN last ELSE None
  <2> HIDE DEF more, items, last
  <2> QED
    BY <1>1, <1>2
<1>4. /\ seen \in Seq(DOMAIN r2)
      /\ \A i, j \in DOMAIN seen : seen[i] = seen[j] => i = j
      /\ r7.cursor = None => seen = <<>>
      /\ r7.cursor # None => r7.cursor \in Positions
                              /\ \A i \in DOMAIN seen : ~ Archive!Precedes(r7.cursor, Archive!Position(seen[i]))
      /\ r8 \subseteq {seen[i] : i \in DOMAIN seen} \cup S
  BY <1>1, Zenon DEF Archive!PagesInv, Positions
<1>5. Dates(DOMAIN r2)
  BY RowsHaveDates
<1>6. S \subseteq DOMAIN r2
  BY DEF Archive!Behind, Archive!Matching
<1>7. Dates(S) /\ \A id \in S : r7.cursor = None \/ Archive!Precedes(r7.cursor, Archive!Position(id))
  BY <1>5, <1>6 DEF Dates, Archive!Behind
<1>8. IsPage(S, ArchiveLimit + 1, found)
  <2> HIDE DEF S
  <2> QED
    BY <1>7, FirstsArePage
<1>9. ArchiveLimit \in Nat /\ ArchiveLimit > 0
  BY ArchiveAssumption
<1>10. /\ found \in Seq(S) /\ Len(found) \in Nat /\ DOMAIN found = 1 .. Len(found)
       /\ Len(found) <= ArchiveLimit + 1
       /\ Len(found) = ArchiveLimit + 1 \/ Listed(S, found) = S
       /\ \A i, j \in DOMAIN found : i < j => Behind(found[i], found[j])
       /\ \A i \in DOMAIN found : \A id \in S \ Listed(S, found) : Behind(found[i], id)
  BY <1>8 DEF IsPage
<1> HIDE DEF found, S
<1> DEFINE m == Archive!Lesser(ArchiveLimit, Len(found))
<1>26. Len(found) \in Nat /\ Len(found) <= ArchiveLimit + 1
  BY <1>10
<1>11. m \in 0 .. Len(found) /\ (more => m = ArchiveLimit) /\ (~ more => m = Len(found))
  <2>1. CASE ArchiveLimit <= Len(found)
    <3>1. m = ArchiveLimit
      BY <2>1 DEF Archive!Lesser
    <3> QED
      BY <1>9, <1>26, <2>1, <3>1
  <2>2. CASE ~ (ArchiveLimit <= Len(found))
    <3>1. m = Len(found)
      BY <2>2 DEF Archive!Lesser
    <3> QED
      BY <1>9, <1>26, <2>2, <3>1
  <2> QED
    BY <2>1, <2>2
<1>12. /\ items \in Seq(S) /\ Len(items) = m /\ DOMAIN items = 1 .. m
       /\ \A i \in 1 .. m : items[i] = found[i]
  <2> HIDE DEF m
  <2> QED
    BY <1>10, <1>11, Prefix DEF m
<1> HIDE DEF items
<1>13. \A i \in 1 .. m : i \in DOMAIN found /\ items[i] \in S /\ Archive!Position(items[i]) \in Positions
  <2>1. ASSUME NEW i \in 1 .. m PROVE i \in DOMAIN found /\ items[i] \in S
    <3>1. i \in DOMAIN found /\ i \in DOMAIN items
      BY <1>10, <1>11, <1>12
    <3> QED
      BY <1>12, <3>1, Elements
  <2> QED
    BY <1>7, <2>1, PositionsDiffer
<1>14. \A i \in DOMAIN seen : seen[i] \in DOMAIN r2 /\ Archive!Position(seen[i]) \in Positions
  <2> SUFFICES ASSUME NEW i \in DOMAIN seen
               PROVE  seen[i] \in DOMAIN r2 /\ Archive!Position(seen[i]) \in Positions
    OBVIOUS
  <2>1. seen[i] \in DOMAIN r2
    BY <1>4, Elements
  <2> QED
    BY <1>5, <2>1, PositionsDiffer
<1>15. seen \o items \in Seq(DOMAIN r2) /\ items \in Seq(DOMAIN r2)
  <2>1. items \in Seq(DOMAIN r2)
    BY <1>6, <1>12, Wider DEF S
  <2> QED
    BY <1>4, <2>1, Joined
<1>16. ASSUME NEW i \in DOMAIN seen, NEW j \in DOMAIN items PROVE seen[i] # items[j]
  <2>1. r7.cursor # None
    BY <1>4, <1>16
  <2>2. ~ Archive!Precedes(r7.cursor, Archive!Position(seen[i]))
    BY <1>4, <2>1
  <2>3. Archive!Precedes(r7.cursor, Archive!Position(items[j]))
    BY <1>7, <1>12, <1>13, <2>1
  <2> QED
    BY <2>2, <2>3
<1>17. ASSUME NEW i \in DOMAIN items, NEW j \in DOMAIN items, items[i] = items[j] PROVE i = j
  <2>1. i \in 1 .. m /\ j \in 1 .. m /\ i \in DOMAIN found /\ j \in DOMAIN found
    BY <1>12, <1>13
  <2>2. ~ Archive!Precedes(Archive!Position(items[i]), Archive!Position(items[i]))
    BY <1>13, <2>1, PageOrder
  <2>3. CASE i < j
    <3>1. Archive!Precedes(Archive!Position(items[i]), Archive!Position(items[j]))
      BY <1>10, <1>12, <2>1, <2>3 DEF Behind
    <3> QED
      BY <1>17, <2>2, <3>1
  <2>4. CASE j < i
    <3>1. Archive!Precedes(Archive!Position(items[j]), Archive!Position(items[i]))
      BY <1>10, <1>12, <2>1, <2>4 DEF Behind
    <3> QED
      BY <1>17, <2>2, <3>1
  <2> QED
    BY <1>11, <2>1, <2>3, <2>4
<1> DEFINE all == seen \o items
<1>18. \A i \in DOMAIN all : \/ i \in DOMAIN seen /\ all[i] = seen[i]
                             \/ \E j \in DOMAIN items : i = Len(seen) + j /\ all[i] = items[j]
  BY <1>4, <1>15, JoinedParts
<1>19. /\ \A i \in DOMAIN seen : i \in DOMAIN all /\ all[i] = seen[i]
       /\ \A j \in DOMAIN items : Len(seen) + j \in DOMAIN all /\ all[Len(seen) + j] = items[j]
  <2>1. Len(seen) \in Nat /\ DOMAIN seen = 1 .. Len(seen) /\ Len(items) \in Nat /\ DOMAIN items = 1 .. Len(items)
    BY <1>4, <1>11, <1>12
  <2>2. DOMAIN all = 1 .. Len(seen) + Len(items)
    BY <1>4, <1>15, Joined
  <2>3. /\ \A i \in 1 .. Len(seen) : all[i] = seen[i]
        /\ \A j \in 1 .. Len(items) : all[Len(seen) + j] = items[j]
    BY <1>4, <1>15, Joined
  <2> HIDE DEF all, seen
  <2>4. /\ \A i \in DOMAIN seen : i \in DOMAIN all
        /\ \A j \in DOMAIN items : Len(seen) + j \in DOMAIN all
    BY <2>1, <2>2
  <2> QED
    BY <2>1, <2>3, <2>4
<1>20. all \in Seq(DOMAIN r2)
  BY <1>15
<1>21. r7'.shown = all
  BY <1>3
<1> HIDE DEF all, seen, last, more, m
<1>22. \A i, j \in DOMAIN all : all[i] = all[j] => i = j
  BY <1>4, <1>16, <1>17, <1>18
<1>23. {all[i] : i \in DOMAIN all} = {seen[i] : i \in DOMAIN seen} \cup {items[j] : j \in DOMAIN items}
  BY <1>18, <1>19
<1>24. CASE ~ more
  <2>1. Len(found) # ArchiveLimit + 1
    BY <1>9, <1>24, <1>26 DEF more
  <2>2. Listed(S, found) = S /\ m = Len(found)
    BY <1>10, <1>11, <1>24, <2>1
  <2>3. S \subseteq {items[j] : j \in DOMAIN items}
    BY <1>10, <1>12, <2>2 DEF Listed
  <2>4. r8 \subseteq {all[i] : i \in DOMAIN all}
    BY <1>4, <1>23, <2>3
  <2>5. r7'.pc = "done" /\ r7'.cursor = None
    BY <1>3, <1>24
  <2>6. /\ DOMAIN r7' = {"pc", "source", "cursor", "shown"}
        /\ r7'.shown \in Seq(DOMAIN r2')
        /\ \A i, j \in DOMAIN r7'.shown : r7'.shown[i] = r7'.shown[j] => i = j
        /\ r8' \subseteq {r7'.shown[i] : i \in DOMAIN r7'.shown}
    <3>1. DOMAIN r7' = {"pc", "source", "cursor", "shown"} /\ r2' = r2 /\ r8' = r8
      BY <1>1, <1>2, <1>3
    <3> QED
      BY <1>20, <1>21, <1>22, <2>4, <3>1, Zenon
  <2> QED
    BY <2>5, <2>6 DEF Archive!PagesInv, Archive!NotReading
<1>25. CASE more
  <2>1. m = ArchiveLimit /\ ArchiveLimit \in 1 .. m /\ ArchiveLimit \in DOMAIN found /\ last = Archive!Position(items[ArchiveLimit])
    <3>1. m = ArchiveLimit
      BY <1>11, <1>25
    <3>2. ArchiveLimit \in 1 .. m
      BY <1>9, <3>1
    <3> QED
      BY <1>13, <3>1, <3>2 DEF last
  <2>2. last \in Positions /\ items[ArchiveLimit] = found[ArchiveLimit] /\ items[ArchiveLimit] \in S
    BY <1>12, <1>13, <2>1
  <2>3. last # None
    BY <2>2, ArchiveAssumption DEF Positions
  <2>4. ASSUME NEW id \in DOMAIN r2, Archive!Precedes(last, Archive!Position(id)) PROVE id \notin {all[i] : i \in DOMAIN all}
    <3>0. Archive!Position(id) \in Positions
      BY <1>5, PositionsDiffer
    <3>1. ASSUME NEW j \in DOMAIN items, items[j] = id PROVE FALSE
      <4>1. j \in 1 .. m /\ j \in DOMAIN found /\ items[j] = found[j]
        BY <1>12, <1>13
      <4>2. CASE j < ArchiveLimit
        <5>1. Archive!Precedes(Archive!Position(items[j]), last)
          BY <1>10, <2>1, <2>2, <4>1, <4>2 DEF Behind
        <5> QED
          BY <2>2, <2>4, <3>0, <3>1, <5>1, PageOrder
      <4>3. CASE j = ArchiveLimit
        BY <2>1, <2>2, <2>4, <3>1, <4>3, PageOrder
      <4> QED
        BY <1>9, <2>1, <4>1, <4>2, <4>3
    <3>2. ASSUME NEW i \in DOMAIN seen, seen[i] = id PROVE FALSE
      <4>1. r7.cursor # None
        BY <1>4, <3>2
      <4>2. ~ Archive!Precedes(r7.cursor, Archive!Position(id)) /\ r7.cursor \in Positions
        BY <1>4, <3>2, <4>1
      <4>3. Archive!Precedes(r7.cursor, last)
        BY <1>7, <2>1, <2>2, <4>1
      <4> QED
        BY <2>2, <2>4, <3>0, <4>2, <4>3, PageOrder
    <3> QED
      BY <1>23, <3>1, <3>2
  <2>5. \A i \in DOMAIN all : ~ Archive!Precedes(last, Archive!Position(all[i]))
    <3> SUFFICES ASSUME NEW i \in DOMAIN all, Archive!Precedes(last, Archive!Position(all[i])) PROVE FALSE
      OBVIOUS
    <3>1. all[i] \in DOMAIN r2
      BY <1>20, Elements
    <3> QED
      BY <2>4, <3>1
  <2>6. ASSUME NEW id \in S PROVE id \in {items[j] : j \in DOMAIN items} \/ Archive!Precedes(last, Archive!Position(id))
    <3>1. CASE id \in Listed(S, found)
      <4>1. PICK j \in DOMAIN found : found[j] = id
        BY <3>1 DEF Listed
      <4>2. CASE j \in 1 .. m
        BY <1>12, <4>1, <4>2
      <4>3. CASE j \notin 1 .. m
        <5>0. j \in 1 .. Len(found)
          BY <1>10, <4>1
        <5>1. ArchiveLimit < j
          BY <1>9, <1>26, <2>1, <4>3, <5>0
        <5>2. Behind(found[ArchiveLimit], found[j])
          BY <1>10, <2>1, <4>1, <5>1
        <5> QED
          BY <2>1, <2>2, <4>1, <5>2 DEF Behind
      <4> QED
        BY <4>2, <4>3
    <3>2. CASE id \notin Listed(S, found)
      <4>1. Behind(found[ArchiveLimit], id)
        BY <1>10, <2>1, <3>2
      <4> QED
        BY <2>1, <2>2, <4>1 DEF Behind
    <3> QED
      BY <3>1, <3>2
  <2>7. /\ r7'.pc = "next" /\ r7'.cursor = last /\ r7'.source = r7.source /\ r7'.shown = all
        /\ DOMAIN r7' = {"pc", "source", "cursor", "shown"}
    BY <1>2, <1>3, <1>21, <1>25
  <2>8. \A id \in S : Archive!Precedes(last, Archive!Position(id))
                    => id \in Archive!Behind(r7.source, r7.cursor)'
    BY <1>1, <2>7 DEF S, Archive!Behind, Archive!Matching, Archive!Position
  <2>9. r8' \subseteq {all[i] : i \in DOMAIN all} \cup Archive!Behind(r7.source, r7.cursor)'
    BY <1>1, <1>4, <1>23, <2>6, <2>8
  <2>10. \A i \in DOMAIN all : ~ Archive!Precedes(last, <<r2'[all[i]].updated, all[i]>>)
    BY <1>1, <2>5, Zenon DEF Archive!Position
  <2>11. /\ r7'.shown \in Seq(DOMAIN r2')
         /\ \A i, j \in DOMAIN r7'.shown : r7'.shown[i] = r7'.shown[j] => i = j
         /\ r7'.cursor # None /\ r7'.cursor \in Nat \X Archive!Ranked
         /\ \A i \in DOMAIN r7'.shown : ~ Archive!Precedes(r7'.cursor, <<r2'[r7'.shown[i]].updated, r7'.shown[i]>>)
         /\ r8' \subseteq {r7'.shown[i] : i \in DOMAIN r7'.shown} \cup Archive!Behind(r7.source, r7.cursor)'
    <3>1. r2' = r2 /\ last \in Nat \X Archive!Ranked
      BY <1>1, <2>2 DEF Positions
    <3> QED
      BY <1>20, <1>22, <2>3, <2>7, <2>9, <2>10, <3>1, Zenon
  <2> QED
    BY <2>7, <2>11 DEF Archive!PagesInv, Archive!NotReading, Archive!Position
<1> QED
  BY <1>24, <1>25

\* What a record is that may be archived: of the setting, or a snapshot of Run.
LEMMA KnownRecords ==
  ASSUME Archive!FilesInv, NEW record \in Archive!Known
  PROVE  /\ DOMAIN record = {"kind", "id", "revision", "updated", "text", "context", "breaks"}
         /\ record.context = None \/ record.context \in Archive!Sources(r11)
         /\ record.kind \in Archive!Traces \cup {"other", "invalid"}
         /\ record.kind \in Archive!Traces =>
              /\ record.id \in Archive!Ranked /\ record.revision \in Nat
              /\ record.updated \in Nat \cup {None} /\ record.text \in Archive!Texts(r11)
              /\ record.kind = "legacy" <=> record.text = "legacy"
              /\ record.id # ArchiveRun => record \in Archive!Outside(r11)
              /\ record.id = ArchiveRun =>
                   /\ record.kind = "native" /\ record.revision \in DOMAIN r5
                   /\ record.updated = r5[record.revision] /\ record.text = "own"
                   /\ record.context # None => record.context = "server"
                   /\ record.context = None => record = Archive!Snapshot(record.revision, None)
<1>1. Archive!IsSetting(r11)
  BY ArchiveAssumption DEF Archive!FilesInv
<1>2. CASE record \in Archive!Outside(r11)
  <2>1. /\ DOMAIN record = {"kind", "id", "revision", "updated", "text", "context", "breaks"}
        /\ record.kind \in Archive!Traces \cup {"other", "invalid"}
        /\ record.kind \in Archive!Traces =>
              /\ record.id \in Archive!Ranked \ {ArchiveRun} /\ record.revision \in Nat
              /\ record.updated \in Nat \cup {None}
              /\ record.kind = "legacy" <=> record.text = "legacy"
    BY <1>1, <1>2 DEF Archive!IsSetting
  <2>2. record.context \in Archive!Sources(r11) /\ record.text \in Archive!Texts(r11)
    BY <1>2 DEF Archive!Sources, Archive!Texts
  <2> QED
    BY <1>2, <2>1, <2>2
<1>3. ASSUME NEW k \in DOMAIN r5, NEW context \in {None, "server"}, record = Archive!Snapshot(k, context)
      PROVE  /\ DOMAIN record = {"kind", "id", "revision", "updated", "text", "context", "breaks"}
             /\ record.kind = "native" /\ record.id = ArchiveRun /\ record.revision = k
             /\ record.updated = r5[k] /\ record.text = "own" /\ record.context = context
             /\ k \in Nat /\ r5[k] \in Nat
  <2>1. k \in Nat /\ r5[k] \in Nat
    BY DEF Archive!FilesInv
  <2> QED
    BY <1>3, <2>1 DEF Archive!Snapshot, Archive!Native
<1>4. /\ "own" \in Archive!Texts(r11) /\ "server" \in Archive!Sources(r11)
      /\ "native" \in Archive!Traces
  BY DEF Archive!Texts, Archive!Sources, Archive!Traces
<1>5. CASE record \notin Archive!Outside(r11)
  <2>1. PICK k \in DOMAIN r5, context \in {None, "server"} : record = Archive!Snapshot(k, context)
    BY <1>5 DEF Archive!Known
  <2>2. /\ DOMAIN record = {"kind", "id", "revision", "updated", "text", "context", "breaks"}
        /\ record.kind = "native" /\ record.id = ArchiveRun /\ record.revision = k
        /\ record.updated = r5[k] /\ record.text = "own" /\ record.context = context
        /\ k \in Nat /\ r5[k] \in Nat
    BY <1>3, <2>1
  <2>3. /\ record.context # None => record.context = "server"
        /\ record.context = None => record = Archive!Snapshot(record.revision, None)
    BY <2>1, <2>2
  <2> QED
    BY <1>4, <2>2, <2>3, ArchiveAssumption
<1> QED
  BY <1>2, <1>5

\* Two records of one run.
LEMMA KnownPairs ==
  ASSUME Archive!FilesInv, NEW a \in Archive!Known, NEW b \in Archive!Known,
         a.kind \in Archive!Traces, b.kind \in Archive!Traces, a.id = b.id
  PROVE  /\ a.kind = "legacy" => b.kind = "legacy" /\ b.revision = a.revision /\ b.updated = a.updated
         /\ a.revision < b.revision => a.updated \in Nat /\ b.updated \in Nat /\ a.updated <= b.updated
<1>1. Archive!IsSetting(r11)
  BY ArchiveAssumption DEF Archive!FilesInv
<1>2. CASE a.id # ArchiveRun
  <2>1. a \in Archive!Outside(r11) /\ b \in Archive!Outside(r11)
    BY <1>2, KnownRecords
  <2>2. a.updated \in Nat \cup {None} /\ b.updated \in Nat \cup {None}
    BY KnownRecords
  <2>3. /\ a.kind = "legacy" => b.kind = "legacy" /\ b.revision = a.revision /\ b.updated = a.updated
        /\ a.revision < b.revision => a.updated # None /\ b.updated # None /\ a.updated <= b.updated
    BY <1>1, <2>1 DEF Archive!IsSetting
  <2> QED
    BY <2>2, <2>3
<1>3. CASE a.id = ArchiveRun
  <2>1. /\ a.kind = "native" /\ a.revision \in DOMAIN r5 /\ a.updated = r5[a.revision]
        /\ b.revision \in DOMAIN r5 /\ b.updated = r5[b.revision]
    BY <1>3, KnownRecords
  <2>2. /\ r5 \in Seq(Nat)
        /\ \A k \in DOMAIN r5 : \A l \in DOMAIN r5 : k < l => r5[k] < r5[l]
    BY DEF Archive!FilesInv
  <2>3. r5[a.revision] \in Nat /\ r5[b.revision] \in Nat
    BY <2>1, <2>2
  <2>4. a.revision < b.revision => r5[a.revision] < r5[b.revision]
    BY <2>1, <2>2
  <2> QED
    BY <2>1, <2>3, <2>4
<1> QED
  BY <1>2, <1>3

\* Files and snapshots are added, and none is lost.
Grows ==
  /\ r11' = r11
  /\ \A k \in DOMAIN r5 : k \in DOMAIN r5' /\ r5'[k] = r5[k]
  /\ \A i \in DOMAIN r3 : i \in DOMAIN r3' /\ r3'[i] = r3[i]

LEMMA KnownGrows == ASSUME Grows PROVE Archive!Known \subseteq Archive!Known'
<1> SUFFICES ASSUME NEW record \in Archive!Known PROVE record \in Archive!Known'
  OBVIOUS
<1>1. CASE record \in Archive!Outside(r11)
  BY <1>1 DEF Grows, Archive!Known
<1>2. ASSUME NEW k \in DOMAIN r5, NEW context \in {None, "server"}, record = Archive!Snapshot(k, context)
      PROVE  record \in Archive!Known'
  <2>1. k \in DOMAIN r5' /\ r5'[k] = r5[k]
    BY DEF Grows
  <2>2. record = Archive!Native(ArchiveRun, k, r5'[k], "own", context)
    BY <1>2, <2>1 DEF Archive!Snapshot
  <2> QED
    BY <2>1, <2>2 DEF Archive!Known, Archive!Snapshot
<1> QED
  BY <1>1, <1>2 DEF Archive!Known

\* A sequence is one of its elements.
LEMMA OwnElements == ASSUME NEW S, NEW s \in Seq(S) PROVE s \in Seq({s[i] : i \in DOMAIN s})
<1>1. Len(s) \in Nat /\ DOMAIN s = 1 .. Len(s) /\ s = [i \in 1 .. Len(s) |-> s[i]]
  OBVIOUS
<1>2. s \in [1 .. Len(s) -> {s[i] : i \in DOMAIN s}]
  BY <1>1
<1> QED
  BY <1>1, <1>2, FunctionIsSeq

\* The records of a file are as they were when they are archived.
LEMMA CleanRecords ==
  ASSUME Archive!FilesInv, NEW content \in r11.contents \cup Archive!Exports
  PROVE  [content EXCEPT !.escaped = FALSE].records \in Seq(Archive!Known)
<1>1. CASE content \in r11.contents
  <2>1. Archive!IsSetting(r11)
    BY ArchiveAssumption DEF Archive!FilesInv
  <2>2. DOMAIN content = {"format", "parses", "escaped", "records"} /\ content.records \in Seq(Archive!Outside(r11))
    BY <1>1, <2>1 DEF Archive!IsSetting
  <2>3. content.records \in Seq(Archive!Known)
    BY <2>2, Wider DEF Archive!Known
  <2> QED
    BY <2>2, <2>3
<1>2. CASE content \in Archive!Exports
  <2>1. PICK k \in DOMAIN r5, context \in {None, "server"} :
          content = [format |-> "json", parses |-> TRUE, escaped |-> TRUE,
                     records |-> <<Archive!Snapshot(k, context)>>]
    BY <1>2 DEF Archive!Exports
  <2>2. Archive!Snapshot(k, context) \in Archive!Known
    BY DEF Archive!Known
  <2>3. [content EXCEPT !.escaped = FALSE].records = <<Archive!Snapshot(k, context)>>
    BY <2>1
  <2> HIDE DEF Archive!Known
  <2> QED
    BY <2>2, <2>3, SMTT(30)
<1> QED
  BY <1>1, <1>2

\* Archiving a file adds it or not.
LEMMA StoreStep ==
  ASSUME Archive!FilesInv, NEW path, NEW content \in r11.contents \cup Archive!Exports,
         Archive!Store(path, content), UNCHANGED <<r5, r11>>
  PROVE  Archive!FilesInv' /\ Grows
<1> DEFINE clean == [content EXCEPT !.escaped = FALSE]
<1>1. CASE UNCHANGED <<r3, r4>>
  BY <1>1 DEF Archive!FilesInv, Archive!Known, Archive!Snapshot, Grows
<1>2. CASE ~ UNCHANGED <<r3, r4>>
  <2> DEFINE x == [path |-> path, content |-> clean, at |-> r4]
             S == {r3[i] : i \in DOMAIN r3}
  <2>1. r3' = Append(r3, x) /\ r4' = r4 + 1
    BY <1>2, Zenon DEF Archive!Store
  <2>2. r3 \in Seq(S \cup {x})
    BY Wider DEF Archive!FilesInv
  <2>3. clean.records \in Seq(Archive!Known)
    BY CleanRecords
  <2>4. r4 \in Nat
    BY DEF Archive!FilesInv
  <2>5. x.at = r4 /\ x.content = clean
    OBVIOUS
  <2> HIDE DEF x, S, clean
  <2>6. /\ Append(r3, x) \in Seq(S \cup {x}) /\ Len(r3) \in Nat /\ DOMAIN r3 = 1 .. Len(r3)
        /\ DOMAIN Append(r3, x) = 1 .. (Len(r3) + 1)
        /\ \A i \in DOMAIN r3 : Append(r3, x)[i] = r3[i]
        /\ Append(r3, x)[Len(r3) + 1] = x
    BY <2>2, Appended
  <2>7. r3' \in Seq({r3'[i] : i \in DOMAIN r3'})
    BY <2>1, <2>6, OwnElements
  <2>8. Grows
    <3>1. \A i \in DOMAIN r3 : i \in DOMAIN r3'
      BY <2>1, <2>6
    <3> QED
      BY <2>1, <2>6, <3>1 DEF Grows
  <2>9. Archive!Known' = Archive!Known
    BY DEF Archive!Known, Archive!Snapshot
  <2>10. ASSUME NEW i \in DOMAIN r3' PROVE r3'[i].at \in Nat /\ r3'[i].content.records \in Seq(Archive!Known)
    <3>1. CASE i \in DOMAIN r3
      <4>1. r3'[i] = r3[i]
        BY <2>1, <2>6, <3>1
      <4> QED
        BY <3>1, <4>1 DEF Archive!FilesInv
    <3>2. CASE i = Len(r3) + 1
      <4>1. r3'[i] = x
        BY <2>1, <2>6, <3>2
      <4> QED
        BY <2>3, <2>4, <2>5, <4>1
    <3> QED
      BY <2>1, <2>6, <3>1, <3>2
  <2>11. \A k \in DOMAIN r5' : r5'[k] < r4' /\ \A l \in DOMAIN r5' : k < l => r5'[k] < r5'[l]
    <3> SUFFICES ASSUME NEW k \in DOMAIN r5 PROVE r5[k] < r4 + 1 /\ \A l \in DOMAIN r5 : k < l => r5[k] < r5[l]
      BY <2>1
    <3>1. r5[k] \in Nat /\ r5[k] < r4 /\ \A l \in DOMAIN r5 : k < l => r5[k] < r5[l]
      BY DEF Archive!FilesInv
    <3> QED
      BY <2>4, <3>1
  <2>12. r11' \in ArchiveSettings /\ r4' \in Nat /\ r5' \in Seq(Nat)
    BY <2>1, <2>4 DEF Archive!FilesInv
  <2> QED
    BY <2>7, <2>8, <2>9, <2>10, <2>11, <2>12 DEF Archive!FilesInv
<1> QED
  BY <1>1, <1>2

\* Run returns: another revision, later than the others.
LEMMA ReturnStep == Archive!FilesInv /\ Archive!Return => Archive!FilesInv' /\ Grows
<1> SUFFICES ASSUME Archive!FilesInv, Archive!Return PROVE Archive!FilesInv' /\ Grows
  OBVIOUS
<1>1. r5' = Append(r5, r4) /\ r4' = r4 + 1 /\ r3' = r3 /\ r11' = r11
  BY DEF Archive!Return
<1>2. r5 \in Seq(Nat) /\ r4 \in Nat /\ \A k \in DOMAIN r5 : r5[k] < r4 /\ \A l \in DOMAIN r5 : k < l => r5[k] < r5[l]
  BY DEF Archive!FilesInv
<1>3. /\ r5' \in Seq(Nat) /\ Len(r5) \in Nat /\ DOMAIN r5 = 1 .. Len(r5)
      /\ DOMAIN r5' = 1 .. (Len(r5) + 1)
      /\ \A i \in DOMAIN r5 : r5'[i] = r5[i]
      /\ r5'[Len(r5) + 1] = r4
  BY <1>1, <1>2, Appended
<1>4. Grows
  <2>1. \A k \in DOMAIN r5 : k \in DOMAIN r5'
    BY <1>3
  <2> QED
    BY <1>1, <1>3, <2>1 DEF Grows
<1>5. \A k \in DOMAIN r5' : r5'[k] < r4' /\ \A l \in DOMAIN r5' : k < l => r5'[k] < r5'[l]
  <2> SUFFICES ASSUME NEW k \in DOMAIN r5' PROVE r5'[k] < r4' /\ \A l \in DOMAIN r5' : k < l => r5'[k] < r5'[l]
    OBVIOUS
  <2>1. CASE k \in DOMAIN r5
    <3>1. r5'[k] = r5[k] /\ r5[k] \in Nat /\ r5[k] < r4
      BY <1>2, <1>3, <2>1
    <3>2. ASSUME NEW l \in DOMAIN r5', k < l PROVE r5'[k] < r5'[l]
      <4>1. CASE l \in DOMAIN r5
        BY <1>2, <1>3, <2>1, <3>2, <4>1
      <4>2. CASE l \notin DOMAIN r5
        <5>1. l = Len(r5) + 1
          BY <1>3, <4>2
        <5> QED
          BY <1>3, <3>1, <5>1
      <4> QED
        BY <4>1, <4>2
    <3> QED
      BY <1>1, <1>2, <3>1, <3>2
  <2>2. CASE k \notin DOMAIN r5
    <3>1. k = Len(r5) + 1
      BY <1>3, <2>2
    <3>2. \A l \in DOMAIN r5' : ~ (k < l)
      BY <1>3, <3>1
    <3> QED
      BY <1>1, <1>2, <1>3, <3>1, <3>2
  <2> QED
    BY <2>1, <2>2
<1>6. Archive!Known \subseteq Archive!Known'
  BY <1>4, KnownGrows
<1>7. \A i \in DOMAIN r3' : r3'[i].at \in Nat /\ r3'[i].content.records \in Seq(Archive!Known')
  <2> SUFFICES ASSUME NEW i \in DOMAIN r3 PROVE r3[i].at \in Nat /\ r3[i].content.records \in Seq(Archive!Known')
    BY <1>1
  <2>1. r3[i].at \in Nat /\ r3[i].content.records \in Seq(Archive!Known)
    BY DEF Archive!FilesInv
  <2> QED
    BY <1>6, <2>1, Wider
<1>8. r4' \in Nat /\ r11' \in ArchiveSettings /\ r3' \in Seq({r3'[i] : i \in DOMAIN r3'})
  BY <1>1, <1>2 DEF Archive!FilesInv
<1> QED
  BY <1>3, <1>4, <1>5, <1>7, <1>8 DEF Archive!FilesInv

\* So the files are kept by every step.
LEMMA FilesStep == Archive!FilesInv /\ Archive!Next => Archive!FilesInv' /\ Grows
<1> SUFFICES ASSUME Archive!FilesInv, Archive!Next PROVE Archive!FilesInv' /\ Grows
  OBVIOUS
<1>1. CASE UNCHANGED <<r3, r4, r5, r11>>
  <2>1. Archive!Known' = Archive!Known
    BY <1>1 DEF Archive!Known, Archive!Snapshot
  <2> QED
    BY <1>1, <2>1 DEF Archive!FilesInv, Grows
<1>2. CASE Archive!Return
  BY <1>2, ReturnStep
<1>3. ASSUME NEW path \in ArchivePaths, NEW content \in r11.contents \cup Archive!Exports,
             Archive!WriteJsonArtifact(path, content)
      PROVE  Archive!FilesInv' /\ Grows
  <2>1. Archive!Store(path, content) /\ UNCHANGED <<r5, r11>>
    BY <1>3 DEF Archive!WriteJsonArtifact, Archive!SaveJsonFile
  <2> QED
    BY <2>1, StoreStep
<1>4. ASSUME NEW content \in r11.contents \cup Archive!Exports, Archive!ImportFile(content)
      PROVE  Archive!FilesInv' /\ Grows
  <2>1. UNCHANGED <<r5, r11>>
    BY <1>4 DEF Archive!ImportFile
  <2>2. UNCHANGED <<r3, r4>> \/ Archive!Store(Head(r6.todo), content)
    BY <1>4 DEF Archive!ImportFile, Archive!SaveJsonFile
  <2> QED
    BY <1>1, <2>1, <2>2, StoreStep
<1>5. \/ Archive!Return \/ UNCHANGED <<r3, r4, r5, r11>>
      \/ \E path \in ArchivePaths, content \in r11.contents \cup Archive!Exports :
           Archive!WriteJsonArtifact(path, content)
      \/ \E content \in r11.contents \cup Archive!Exports : Archive!ImportFile(content)
  BY DEF Archive!Next, Archive!Persist, Archive!Call, Archive!SkipFile, Archive!Convert, Archive!EndOfFile,
     Archive!GetTrace, Archive!GetTraceContext, Archive!SaveRecord, Archive!DatabaseFails,
     Archive!Finish, Archive!Exit, Archive!Open, Archive!Page
<1> QED
  BY <1>1, <1>2, <1>3, <1>4, <1>5

\* A row stays; when its run is saved again, its revision and its date go up.
RowsMove ==
  /\ r11' = r11
  /\ \A id \in DOMAIN r2 :
       /\ id \in DOMAIN r2'
       /\ r2[id].revision <= r2'[id].revision /\ r2[id].updated <= r2'[id].updated
       /\ r2'[id].text = r2[id].text /\ r2'[id].source = r2[id].source

\* What is said to be fixed has not changed.
FixedStay == \A id \in r8' : id \in r8 /\ (id \in DOMAIN r2 => r2'[id] = r2[id])

\* Nothing is saved.
LEMMA RowsStay ==
  ASSUME Archive!RowsInv, Archive!FilesInv, Grows, UNCHANGED <<r2, r8>>
  PROVE  Archive!RowsInv' /\ RowsMove /\ FixedStay
<1>1. RowsMove /\ FixedStay
  <2>1. \A id \in DOMAIN r2 : r2[id].revision \in Nat /\ r2[id].updated \in Nat
    BY DEF Archive!RowsInv, Archive!Row
  <2>2. r11' = r11
    BY DEF Grows
  <2> QED
    BY <2>1, <2>2 DEF RowsMove, FixedStay
<1>2. Archive!Known \subseteq Archive!Known'
  BY KnownGrows
<1>3. \A id \in DOMAIN r2' :
        /\ r2'[id] \in Archive!Row(r11)
        /\ \E record \in Archive!Known' :
             /\ record.kind \in Archive!Traces /\ record.id = id
             /\ record.revision = r2'[id].revision /\ record.text = r2'[id].text
             /\ record.updated \in {None, r2'[id].updated}
  <2> SUFFICES ASSUME NEW id \in DOMAIN r2
               PROVE  /\ r2[id] \in Archive!Row(r11)
                      /\ \E record \in Archive!Known' :
                           /\ record.kind \in Archive!Traces /\ record.id = id
                           /\ record.revision = r2[id].revision /\ record.text = r2[id].text
                           /\ record.updated \in {None, r2[id].updated}
    BY Zenon
  <2>1. PICK record \in Archive!Known :
             /\ record.kind \in Archive!Traces /\ record.id = id
             /\ record.revision = r2[id].revision /\ record.text = r2[id].text
             /\ record.updated \in {None, r2[id].updated}
    BY DEF Archive!RowsInv
  <2>2. r2[id] \in Archive!Row(r11)
    BY DEF Archive!RowsInv
  <2> QED
    BY <1>2, <2>1, <2>2, Zenon
<1>4. Archive!Row(r11)' = Archive!Row(r11)
  BY DEF Grows
<1> QED
  BY <1>1, <1>3, <1>4, Zenon DEF Archive!RowsInv, Grows

\* A record is saved: if its run has a row, it is a later revision of it.
LEMMA PutStep ==
  ASSUME Archive!FilesInv, Archive!RowsInv, NEW record \in Archive!Known, record.kind \in Archive!Traces,
         NEW trace, trace.id = record.id, trace.revision = record.revision, trace.text = record.text,
         trace.updated \in Nat, record.updated \in {None, trace.updated},
         NEW source \in Archive!Sources(r11),
         ~ Archive!Conflicts(trace, source), ~ Archive!IsOld(trace), Archive!Put(trace, source),
         UNCHANGED <<r5, r11>>
  PROVE  Archive!RowsInv' /\ RowsMove /\ FixedStay
<1> DEFINE x == trace.id
           row == [revision |-> trace.revision, updated |-> trace.updated, text |-> trace.text, source |-> source]
<1>1. r2' = [id \in DOMAIN r2 \cup {x} |-> IF id = x THEN row ELSE r2[id]] /\ r8' = r8 \ {x}
  BY Zenon DEF Archive!Put
<1>2. /\ record.revision \in Nat /\ record.text \in Archive!Texts(r11)
  BY KnownRecords
<1>3. row \in Archive!Row(r11)
  BY <1>2 DEF Archive!Row
<1>4. ASSUME x \in DOMAIN r2
      PROVE  /\ r2[x].revision <= row.revision /\ r2[x].updated <= row.updated
             /\ r2[x].text = row.text /\ r2[x].source = row.source
  <2>1. r2[x] \in Archive!Row(r11)
    BY <1>4 DEF Archive!RowsInv
  <2>2. r2[x].revision < trace.revision
    BY <1>2, <1>4, <2>1 DEF Archive!IsOld, Archive!Has, Archive!Row
  <2>3. r2[x].source = source /\ r2[x].text = trace.text
    BY <1>4, <2>2 DEF Archive!Conflicts, Archive!Has
  <2>4. PICK other \in Archive!Known :
             /\ other.kind \in Archive!Traces /\ other.id = x
             /\ other.revision = r2[x].revision
             /\ other.updated \in {None, r2[x].updated}
    BY <1>4 DEF Archive!RowsInv
  <2>5. other.updated \in Nat /\ record.updated \in Nat /\ other.updated <= record.updated
    BY <2>2, <2>4, KnownPairs
  <2>6. other.updated = r2[x].updated /\ record.updated = trace.updated
    BY <2>4, <2>5, ArchiveAssumption
  <2>7. r2[x].revision \in Nat
    BY <2>1 DEF Archive!Row
  <2> QED
    BY <1>2, <2>2, <2>3, <2>5, <2>6, <2>7
<1>5. Archive!Known' = Archive!Known
  BY DEF Archive!Known, Archive!Snapshot
<1>6. row.revision = record.revision /\ row.text = record.text /\ row.updated = trace.updated
  OBVIOUS
<1> HIDE DEF row, x
<1>7. RowsMove
  <2> SUFFICES ASSUME NEW id \in DOMAIN r2
               PROVE  /\ id \in DOMAIN r2'
                      /\ r2[id].revision <= r2'[id].revision /\ r2[id].updated <= r2'[id].updated
                      /\ r2'[id].text = r2[id].text /\ r2'[id].source = r2[id].source
    BY DEF RowsMove
  <2>1. CASE id = x
    BY <1>1, <1>4, <2>1
  <2>2. CASE id # x
    <3>1. r2'[id] = r2[id] /\ id \in DOMAIN r2'
      BY <1>1, <2>2
    <3>2. r2[id].revision \in Nat /\ r2[id].updated \in Nat
      BY DEF Archive!RowsInv, Archive!Row
    <3> QED
      BY <3>1, <3>2
  <2> QED
    BY <2>1, <2>2
<1>8. FixedStay
  BY <1>1 DEF FixedStay
<1>9. ASSUME NEW id \in DOMAIN r2'
      PROVE  /\ r2'[id] \in Archive!Row(r11)
             /\ \E some \in Archive!Known :
                  /\ some.kind \in Archive!Traces /\ some.id = id
                  /\ some.revision = r2'[id].revision /\ some.text = r2'[id].text
                  /\ some.updated \in {None, r2'[id].updated}
  <2>1. CASE id = x
    <3>1. r2'[id] = row
      BY <1>1, <2>1
    <3>2. record.id = id
      BY <2>1 DEF x
    <3> QED
      BY <1>3, <1>6, <3>1, <3>2, Zenon
  <2>2. CASE id # x
    <3>1. r2'[id] = r2[id] /\ id \in DOMAIN r2
      BY <1>1, <2>2
    <3> QED
      BY <3>1, Zenon DEF Archive!RowsInv
  <2> QED
    BY <2>1, <2>2
<1>10. Archive!Row(r11)' = Archive!Row(r11)
  OBVIOUS
<1>11. Archive!RowsInv'
  BY <1>5, <1>9, <1>10, Zenon DEF Archive!RowsInv
<1> QED
  BY <1>7, <1>8, <1>11

\* save_trace: a record is saved, or an older one is passed over.
LEMMA SaveStep ==
  ASSUME Archive!FilesInv, Archive!RowsInv, NEW record \in Archive!Known, record.kind \in Archive!Traces,
         NEW trace, trace.id = record.id, trace.revision = record.revision, trace.text = record.text,
         trace.updated \in Nat, record.updated \in {None, trace.updated},
         NEW source \in Archive!Sources(r11), Archive!SaveTrace(trace, source),
         UNCHANGED <<r3, r4, r5, r11>>
  PROVE  /\ Archive!RowsInv' /\ RowsMove /\ FixedStay
         /\ record.id \in DOMAIN r2' /\ record.revision <= r2'[record.id].revision
         /\ \A id \in DOMAIN r2' : id # record.id => id \in DOMAIN r2 /\ r2'[id] = r2[id]
<1>1. ~ Archive!Conflicts(trace, source)
  BY DEF Archive!SaveTrace
<1>2. record.revision \in Nat
  BY KnownRecords
<1>3. CASE Archive!IsOld(trace)
  <2>1. UNCHANGED <<r2, r8>>
    BY <1>3 DEF Archive!SaveTrace
  <2>2. Grows
    BY DEF Grows
  <2> QED
    BY <1>3, <2>1, <2>2, RowsStay DEF Archive!IsOld, Archive!Has
<1>4. CASE ~ Archive!IsOld(trace)
  <2>1. Archive!Put(trace, source)
    BY <1>4 DEF Archive!SaveTrace
  <2>2. Archive!RowsInv' /\ RowsMove /\ FixedStay
    BY <1>1, <1>4, <2>1, PutStep
  <2>3. /\ record.id \in DOMAIN r2' /\ r2'[record.id].revision = record.revision
        /\ \A id \in DOMAIN r2' : id # record.id => id \in DOMAIN r2 /\ r2'[id] = r2[id]
    BY <2>1 DEF Archive!Put
  <2> QED
    BY <1>2, <2>2, <2>3
<1> QED
  BY <1>3, <1>4

\* A row that moves to the front does not come behind a cursor it was before.
LEMMA FrontIsBefore ==
  ASSUME NEW cursor \in Positions, NEW x \in Archive!Ranked, NEW old \in Nat, NEW new \in Nat, old <= new,
         ~ Archive!Precedes(cursor, <<old, x>>)
  PROVE  ~ Archive!Precedes(cursor, <<new, x>>)
<1>1. cursor[1] \in Nat
  BY DEF Positions
<1>2. /\ <<old, x>>[1] = old /\ <<old, x>>[2] = x
      /\ <<new, x>>[1] = new /\ <<new, x>>[2] = x
  OBVIOUS
<1> DEFINE later == Archive!Rank(cursor[2]) > Archive!Rank(x)
<1>3. /\ Archive!Precedes(cursor, <<old, x>>) <=> cursor[1] > old \/ (cursor[1] = old /\ later)
      /\ Archive!Precedes(cursor, <<new, x>>) <=> cursor[1] > new \/ (cursor[1] = new /\ later)
  BY <1>2, Zenon DEF Archive!Precedes
<1> HIDE DEF later
<1> QED
  BY <1>1, <1>3

\* The pages are as they were when others save.
LEMMA PagesKept ==
  ASSUME Archive!FilesInv, Archive!RowsInv, Archive!PagesInv, Archive!FilesInv', Archive!RowsInv',
         RowsMove, FixedStay, UNCHANGED r7
  PROVE  Archive!PagesInv'
<1> DEFINE shown == r7.shown
           seen == {shown[i] : i \in DOMAIN shown}
           later == Archive!Behind(r7.source, r7.cursor)
<1>1. Dates(DOMAIN r2)
  BY RowsHaveDates
<1>2. \A id \in DOMAIN r2' : r2'[id].updated \in Nat
  BY DEF Archive!RowsInv, Archive!Row
<1>3. DOMAIN r2 \subseteq DOMAIN r2' /\ r8' \subseteq r8
  BY DEF RowsMove, FixedStay
<1>4. shown \in Seq(DOMAIN r2) /\ \A i, j \in DOMAIN shown : shown[i] = shown[j] => i = j
  BY DEF Archive!PagesInv
<1>5. shown \in Seq(DOMAIN r2')
  BY <1>3, <1>4, Wider
<1>6. r7.pc = "idle" => shown = <<>> /\ r7.cursor = None /\ r8' = {}
  BY <1>3 DEF Archive!PagesInv
<1>7. r7.pc = "done" => r8' \subseteq seen
  BY <1>3 DEF Archive!PagesInv
<1>8. ASSUME r7.pc = "next"
      PROVE  /\ r7.cursor = None => shown = <<>>
             /\ r7.cursor # None =>
                  /\ r7.cursor \in Nat \X Archive!Ranked
                  /\ \A i \in DOMAIN shown : ~ Archive!Precedes(r7.cursor, <<r2'[shown[i]].updated, shown[i]>>)
             /\ r8' \subseteq seen \cup later'
  <2>1. r7.cursor = None => shown = <<>>
    BY <1>8 DEF Archive!PagesInv
  <2>2. r7.cursor # None => r7.cursor \in Positions
    BY <1>8 DEF Archive!PagesInv, Positions
  <2>3. ASSUME r7.cursor # None, NEW i \in DOMAIN shown
        PROVE  ~ Archive!Precedes(r7.cursor, <<r2'[shown[i]].updated, shown[i]>>)
    <3>1. PICK x : x = shown[i]
      OBVIOUS
    <3>2. x \in DOMAIN r2
      BY <1>4, <3>1, Elements
    <3>3. ~ Archive!Precedes(r7.cursor, <<r2[x].updated, x>>)
      BY <1>8, <2>3, <3>1 DEF Archive!PagesInv, Archive!Position
    <3>4. x \in Archive!Ranked /\ r2[x].updated \in Nat
      BY <1>1, <3>2 DEF Dates
    <3>5. r2'[x].updated \in Nat /\ r2[x].updated <= r2'[x].updated
      BY <1>2, <1>3, <3>2 DEF RowsMove
    <3>6. ~ Archive!Precedes(r7.cursor, <<r2'[x].updated, x>>)
      BY <2>2, <2>3, <3>3, <3>4, <3>5, FrontIsBefore
    <3> QED
      BY <3>1, <3>6
  <2>4. ASSUME NEW id \in r8', id \notin seen PROVE id \in later'
    <3>1. id \in r8
      BY <1>3
    <3>2. id \in later
      BY <1>8, <2>4, <3>1 DEF Archive!PagesInv
    <3>3. id \in DOMAIN r2
      BY <3>2 DEF Archive!Behind, Archive!Matching
    <3>4. id \in DOMAIN r2' /\ r2'[id] = r2[id]
      BY <1>3, <3>3 DEF FixedStay
    <3> QED
      BY <3>2, <3>3, <3>4 DEF Archive!Behind, Archive!Matching, Archive!Position
  <2>5. r7.cursor # None => r7.cursor \in Nat \X Archive!Ranked
    BY <2>2 DEF Positions
  <2> QED
    BY <2>1, <2>3, <2>4, <2>5
<1>9. DOMAIN r7 = DOMAIN Archive!NotReading /\ r7.pc \in {"idle", "next", "done"}
  BY DEF Archive!PagesInv
<1> QED
  BY <1>4, <1>5, <1>6, <1>7, <1>8, <1>9 DEF Archive!PagesInv, Archive!NotReading, Archive!Position

\* A client asks for the first page: everything it asks for is before it.
LEMMA PagesStepOpen ==
  ASSUME Archive!PagesInv, NEW source \in r11.filters, Archive!Open(source)
  PROVE  Archive!PagesInv'
<1>1. r7.pc = "idle" /\ r2' = r2 /\ r7' = [r7 EXCEPT !.pc = "next", !.source = source]
  BY DEF Archive!Open
<1>2. DOMAIN r7 = {"pc", "source", "cursor", "shown"}
  BY DEF Archive!PagesInv, Archive!NotReading
<1>3. /\ DOMAIN r7' = {"pc", "source", "cursor", "shown"}
      /\ r7'.pc = "next" /\ r7'.source = source /\ r7'.cursor = r7.cursor /\ r7'.shown = r7.shown
  BY <1>1, <1>2
<1>4. r7.cursor = None /\ r7.shown = <<>>
  BY <1>1 DEF Archive!PagesInv
<1>5. r8' = Archive!Matching(source)
  BY DEF Archive!Open
<1>6. Archive!Matching(source) = Archive!Behind(r7.source, r7.cursor)'
  BY <1>1, <1>3, <1>4 DEF Archive!Behind, Archive!Matching
<1>7. <<>> \in Seq(DOMAIN r2') /\ DOMAIN <<>> = {}
  OBVIOUS
<1> QED
  BY <1>3, <1>4, <1>5, <1>6, <1>7 DEF Archive!PagesInv, Archive!NotReading

\* A record is dated, and else as it was.
LEMMA DatedRecord ==
  ASSUME Archive!FilesInv, NEW record \in Archive!Known, record.kind \in Archive!Traces,
         NEW existing, existing # None => existing.updated \in Nat, NEW file, file.at \in Nat,
         NEW trace, trace = Archive!Dated(record, existing, file)
  PROVE  /\ trace.id = record.id /\ trace.revision = record.revision
         /\ trace.text = record.text
         /\ trace.updated \in Nat /\ record.updated \in {None, trace.updated}
         /\ record.updated = None => trace.updated = IF existing # None THEN existing.updated ELSE file.at
<1>1. /\ DOMAIN record = {"kind", "id", "revision", "updated", "text", "context", "breaks"}
      /\ record.updated \in Nat \cup {None}
  BY KnownRecords
<1> DEFINE date == IF record.updated # None THEN record.updated
                   ELSE IF existing # None THEN existing.updated ELSE file.at
<1>2. trace = [record EXCEPT !.updated = date]
  BY Zenon DEF Archive!Dated
<1>3. date \in Nat /\ record.updated \in {None, date}
  BY <1>1
<1>4. record.updated = None => date = IF existing # None THEN existing.updated ELSE file.at
  OBVIOUS
<1> HIDE DEF date
<1>5. /\ trace.id = record.id /\ trace.revision = record.revision
      /\ trace.text = record.text /\ trace.updated = date
  BY <1>1, <1>2
<1> QED
  BY <1>3, <1>4, <1>5

\* A row is no None, and a row has a date.
LEMMA RowsAreRows ==
  ASSUME Archive!FilesInv, Archive!RowsInv, NEW id \in DOMAIN r2
  PROVE  r2[id] # None /\ r2[id].updated \in Nat /\ r2[id].revision \in Nat
<1>1. Archive!IsSetting(r11)
  BY ArchiveAssumption DEF Archive!FilesInv
<1>2. r2[id] \in Archive!Row(r11)
  BY DEF Archive!RowsInv
<1>3. None \notin Archive!Row(r11)
  BY <1>1, Zenon DEF Archive!IsSetting
<1> QED
  BY <1>2, <1>3 DEF Archive!Row

\* A record in the archive.
LEMMA ArchivedRecords ==
  ASSUME Archive!FilesInv, NEW i \in DOMAIN r3
  PROVE  /\ r3[i].at \in Nat /\ r3[i].content.records \in Seq(Archive!Known)
         /\ \A j \in DOMAIN r3[i].content.records : r3[i].content.records[j] \in Archive!Known
<1>1. r3[i].at \in Nat /\ r3[i].content.records \in Seq(Archive!Known)
  BY DEF Archive!FilesInv
<1> QED
  BY <1>1, Elements

\* The record at hand, and what is saved of it.
LEMMA RecordAtHand ==
  ASSUME Archive!FilesInv, Archive!RowsInv, Archive!ScriptInv, r6.pc \in {"existing", "save"}
  PROVE  /\ r6.file \in DOMAIN r3 /\ r6.record \in DOMAIN r3[r6.file].content.records
         /\ Archive!Current \in Archive!Known /\ Archive!Current.kind \in Archive!Traces
         /\ Archive!Archived.at \in Nat
         /\ r6.existing # None => Archive!Current.updated # None \/ r6.existing.updated \in Nat
         /\ Archive!Incoming.id = Archive!Current.id
         /\ Archive!Incoming.revision = Archive!Current.revision
         /\ Archive!Incoming.text = Archive!Current.text
         /\ Archive!Incoming.updated \in Nat
         /\ Archive!Current.updated \in {None, Archive!Incoming.updated}
<1>1. /\ r6.file \in Nat /\ r6.record \in Nat /\ r6.file > 0 /\ r6.record > 0
      /\ r6.upto \in 0 .. Len(r3) /\ r6.file <= r6.upto
      /\ r6.record <= Len(Archive!Archived.content.records)
      /\ Archive!Current.kind \in Archive!Traces
  BY DEF Archive!ScriptInv
<1>2. r6.file \in DOMAIN r3
  <2>1. Len(r3) \in Nat /\ DOMAIN r3 = 1 .. Len(r3)
    BY DEF Archive!FilesInv
  <2> QED
    BY <1>1, <2>1
<1>3. /\ r3[r6.file].at \in Nat /\ r3[r6.file].content.records \in Seq(Archive!Known)
      /\ \A j \in DOMAIN r3[r6.file].content.records : r3[r6.file].content.records[j] \in Archive!Known
  BY <1>2, ArchivedRecords
<1>4. r6.record \in DOMAIN r3[r6.file].content.records
  <2>1. r6.record <= Len(r3[r6.file].content.records)
    BY <1>1 DEF Archive!Archived
  <2> QED
    BY <1>1, <1>3, <2>1
<1>5. Archive!Current \in Archive!Known /\ Archive!Archived.at \in Nat
  BY <1>3, <1>4, Zenon DEF Archive!Current, Archive!Archived
<1>6. Archive!Current.updated = None => Archive!Current.id # ArchiveRun
  <2>1. Archive!Current.id = ArchiveRun =>
          Archive!Current.revision \in DOMAIN r5 /\ Archive!Current.updated = r5[Archive!Current.revision]
    BY <1>1, <1>5, KnownRecords
  <2>2. r5 \in Seq(Nat)
    BY DEF Archive!FilesInv
  <2> QED
    BY <2>1, <2>2, ArchiveAssumption
<1>7. r6.existing # None /\ Archive!Current.updated = None => r6.existing.updated \in Nat
  <2> SUFFICES ASSUME r6.existing # None, Archive!Current.updated = None PROVE r6.existing.updated \in Nat
    OBVIOUS
  <2>1. Archive!Undisturbed(Archive!Current)
    BY <1>6 DEF Archive!Undisturbed
  <2>2. r6.existing = IF Archive!Has(Archive!Current.id) THEN r2[Archive!Current.id] ELSE None
    BY <2>1 DEF Archive!ScriptInv
  <2>3. Archive!Current.id \in DOMAIN r2 /\ r6.existing = r2[Archive!Current.id]
    BY <2>2 DEF Archive!Has
  <2> QED
    BY <2>3, RowsAreRows
<1>8. PICK existing : existing = IF Archive!Current.updated = None THEN r6.existing ELSE None
  OBVIOUS
<1>9. existing # None => existing.updated \in Nat
  BY <1>7, <1>8
<1>10. Archive!Incoming = Archive!Dated(Archive!Current, existing, Archive!Archived)
  BY <1>8, Zenon DEF Archive!Incoming, Archive!Dated
<1>11. /\ Archive!Incoming.id = Archive!Current.id
       /\ Archive!Incoming.revision = Archive!Current.revision
       /\ Archive!Incoming.text = Archive!Current.text
       /\ Archive!Incoming.updated \in Nat
       /\ Archive!Current.updated \in {None, Archive!Incoming.updated}
  BY <1>1, <1>5, <1>9, <1>10, DatedRecord
<1> QED
  BY <1>1, <1>2, <1>4, <1>5, <1>7, <1>11

\* persist_trace.
LEMMA PersistStep ==
  ASSUME Archive!FilesInv, Archive!RowsInv, NEW k \in DOMAIN r5, Archive!Persist(k)
  PROVE  /\ Archive!RowsInv' /\ RowsMove /\ FixedStay
         /\ \A id \in DOMAIN r2' : id # ArchiveRun => id \in DOMAIN r2 /\ r2'[id] = r2[id]
<1> DEFINE record == Archive!Snapshot(k, "server")
<1>1. record \in Archive!Known
  BY DEF Archive!Known
<1>2. r5[k] \in Nat
  BY DEF Archive!FilesInv
<1>3. /\ record.kind \in Archive!Traces /\ record.updated \in Nat /\ record.id = ArchiveRun
  BY <1>2 DEF Archive!Snapshot, Archive!Native, Archive!Traces
<1>4. "server" \in Archive!Sources(r11)
  BY DEF Archive!Sources
<1>5. Archive!SaveTrace(record, "server") /\ UNCHANGED <<r3, r4, r5, r11>>
  BY DEF Archive!Persist
<1> HIDE DEF record
<1> QED
  BY <1>1, <1>3, <1>4, <1>5, SaveStep

\* The script saves a record.
LEMMA SaveRecordStep ==
  ASSUME Archive!FilesInv, Archive!RowsInv, Archive!ScriptInv, Archive!SaveRecord
  PROVE  /\ Archive!RowsInv' /\ RowsMove /\ FixedStay
         /\ \A id \in DOMAIN r2' : id # Archive!Current.id => id \in DOMAIN r2 /\ r2'[id] = r2[id]
         /\ ~ Archive!Conflicts(Archive!Incoming, r6.source) =>
              /\ Archive!Current.id \in DOMAIN r2'
              /\ Archive!Current.revision <= r2'[Archive!Current.id].revision
<1>1. r6.pc = "save" /\ UNCHANGED <<r3, r4, r5, r11>>
  BY DEF Archive!SaveRecord
<1>2. CASE Archive!Conflicts(Archive!Incoming, r6.source)
  <2>1. UNCHANGED <<r2, r8>>
    BY <1>2 DEF Archive!SaveRecord
  <2>2. Grows
    BY <1>1 DEF Grows
  <2> QED
    BY <1>2, <2>1, <2>2, RowsStay
<1>3. CASE ~ Archive!Conflicts(Archive!Incoming, r6.source)
  <2>1. Archive!SaveTrace(Archive!Incoming, r6.source)
    BY <1>3 DEF Archive!SaveRecord
  <2>2. r6.source \in Archive!Sources(r11)
    BY <1>1 DEF Archive!ScriptInv
  <2>3. PICK record : record = Archive!Current
    OBVIOUS
  <2>4. PICK trace : trace = Archive!Incoming
    OBVIOUS
  <2>5. /\ record \in Archive!Known /\ record.kind \in Archive!Traces
        /\ trace.id = record.id /\ trace.revision = record.revision /\ trace.text = record.text
        /\ trace.updated \in Nat /\ record.updated \in {None, trace.updated}
    BY <1>1, <2>3, <2>4, RecordAtHand, Zenon
  <2>6. PICK source \in Archive!Sources(r11) : source = r6.source
    BY <2>2
  <2>7. Archive!SaveTrace(trace, source)
    BY <2>1, <2>4, <2>6, Zenon
  <2>8. /\ Archive!RowsInv' /\ RowsMove /\ FixedStay
        /\ record.id \in DOMAIN r2' /\ record.revision <= r2'[record.id].revision
        /\ \A id \in DOMAIN r2' : id # record.id => id \in DOMAIN r2 /\ r2'[id] = r2[id]
    BY <1>1, <2>5, <2>7, SaveStep
  <2> QED
    BY <2>3, <2>8, Zenon
<1> QED
  BY <1>2, <1>3

\* So the rows are kept by every step.
LEMMA RowsStep ==
  ASSUME Archive!FilesInv, Archive!RowsInv, Archive!ScriptInv, Archive!Next
  PROVE  /\ Archive!RowsInv' /\ RowsMove
         /\ FixedStay \/ \E source \in r11.filters : Archive!Open(source)
<1>1. CASE UNCHANGED <<r2, r8>>
  <2>1. Grows
    BY FilesStep
  <2> QED
    BY <1>1, <2>1, RowsStay
<1>2. ASSUME NEW k \in DOMAIN r5, Archive!Persist(k) PROVE Archive!RowsInv' /\ RowsMove /\ FixedStay
  BY <1>2, PersistStep
<1>3. CASE Archive!SaveRecord
  BY <1>3, SaveRecordStep
<1>4. ASSUME NEW source \in r11.filters, Archive!Open(source) PROVE Archive!RowsInv' /\ RowsMove /\ r2' = r2
  <2>1. UNCHANGED <<r2, r3, r4, r5, r11>>
    BY <1>4 DEF Archive!Open
  <2>2. Archive!Known' = Archive!Known
    BY <2>1 DEF Archive!Known, Archive!Snapshot
  <2>3. Archive!RowsInv'
    BY <2>1, <2>2 DEF Archive!RowsInv, Archive!Row, Archive!Texts, Archive!Sources, Archive!Outside
  <2>4. \A id \in DOMAIN r2 : r2[id].revision \in Nat /\ r2[id].updated \in Nat
    BY DEF Archive!RowsInv, Archive!Row
  <2> QED
    BY <2>1, <2>3, <2>4 DEF RowsMove
<1>5. \/ UNCHANGED <<r2, r8>>
      \/ \E k \in DOMAIN r5 : Archive!Persist(k)
      \/ Archive!SaveRecord
      \/ \E source \in r11.filters : Archive!Open(source)
  BY DEF Archive!Next, Archive!Return, Archive!WriteJsonArtifact, Archive!ImportFile, Archive!Call, Archive!SkipFile,
     Archive!Convert, Archive!EndOfFile, Archive!GetTrace, Archive!GetTraceContext, Archive!DatabaseFails,
     Archive!Finish, Archive!Exit, Archive!Page
<1> QED
  BY <1>1, <1>2, <1>3, <1>4, <1>5

\* And so are the pages.
LEMMA PagesStep ==
  ASSUME Archive!FilesInv, Archive!RowsInv, Archive!ScriptInv, Archive!PagesInv, Archive!Next
  PROVE  Archive!PagesInv'
<1>1. Archive!FilesInv' /\ Archive!RowsInv' /\ RowsMove
  BY FilesStep, RowsStep
<1>2. CASE Archive!Page
  BY <1>2, PagesStepPage
<1>3. CASE \E source \in r11.filters : Archive!Open(source)
  BY <1>3, PagesStepOpen
<1>4. CASE ~ Archive!Page /\ ~ \E source \in r11.filters : Archive!Open(source)
  <2>1. FixedStay
    BY <1>4, RowsStep
  <2>2. UNCHANGED r7
    BY <1>4 DEF Archive!Next, Archive!Return, Archive!Persist, Archive!WriteJsonArtifact, Archive!ImportFile,
       Archive!Call, Archive!SkipFile, Archive!Convert, Archive!EndOfFile, Archive!GetTrace,
       Archive!GetTraceContext, Archive!SaveRecord, Archive!DatabaseFails, Archive!Finish, Archive!Exit
  <2> QED
    BY <1>1, <2>1, <2>2, PagesKept
<1> QED
  BY <1>2, <1>3, <1>4

\* A legacy record that was saved is known, in whatever copy it comes again.
LEMMA LegacyIsKnown ==
  ASSUME Archive!FilesInv, Archive!RowsInv, NEW record \in Archive!Known, record.kind = "legacy",
         record.id \in DOMAIN r2, NEW file, file.at \in Nat
  PROVE  Archive!IsKnown(Archive!Dated(record, r2[record.id], file), r2[record.id])
<1>1. PICK row : row = r2[record.id]
  OBVIOUS
<1>2. PICK trace : trace = Archive!Dated(record, row, file)
  OBVIOUS
<1>3. record.kind \in Archive!Traces
  BY DEF Archive!Traces
<1>4. row # None /\ row.updated \in Nat
  BY <1>1, RowsAreRows
<1>5. PICK other \in Archive!Known :
         /\ other.kind \in Archive!Traces /\ other.id = record.id
         /\ other.revision = row.revision /\ other.text = row.text
         /\ other.updated \in {None, row.updated}
  BY <1>1 DEF Archive!RowsInv
<1>6. other.kind = "legacy" /\ other.revision = record.revision /\ other.updated = record.updated
  BY <1>3, <1>5, KnownPairs
<1>7. record.text = "legacy" /\ other.text = "legacy"
  BY <1>3, <1>5, <1>6, KnownRecords
<1>8. /\ trace.revision = record.revision /\ trace.text = record.text
      /\ record.updated \in {None, trace.updated}
      /\ record.updated = None => trace.updated = row.updated
  BY <1>2, <1>3, <1>4, DatedRecord
<1>9. trace.updated = row.updated
  BY <1>5, <1>6, <1>8
<1>10. trace.revision = row.revision /\ trace.text = row.text
  BY <1>5, <1>6, <1>7, <1>8
<1>11. Archive!IsKnown(trace, row)
  BY <1>4, <1>9, <1>10 DEF Archive!IsKnown
<1> QED
  BY <1>1, <1>2, <1>11, Zenon

\* So it is never in conflict with what was saved.
LEMMA LegacyIsAccepted ==
  ASSUME Archive!FilesInv, Archive!RowsInv, Archive!ScriptInv, r6.pc = "save",
         Archive!Current.kind = "legacy"
  PROVE  ~ Archive!Has(Archive!Current.id)
<1> SUFFICES ASSUME Archive!Has(Archive!Current.id) PROVE FALSE
  OBVIOUS
<1>1. Archive!Current \in Archive!Known /\ Archive!Archived.at \in Nat
  BY RecordAtHand
<1>2. Archive!Current.id # ArchiveRun
  BY <1>1, KnownRecords DEF Archive!Traces
<1>3. Archive!Current.id \in DOMAIN r2
  BY DEF Archive!Has
<1>4. Archive!IsKnown(Archive!Dated(Archive!Current, r2[Archive!Current.id], Archive!Archived),
                      r2[Archive!Current.id])
  BY <1>1, <1>3, LegacyIsKnown
<1>5. Archive!Undisturbed(Archive!Current)
  BY <1>2 DEF Archive!Undisturbed
<1>6. r6.existing = r2[Archive!Current.id]
  BY <1>5 DEF Archive!ScriptInv
<1>7. ~ Archive!IsKnown(Archive!Incoming, r6.existing)
  BY DEF Archive!ScriptInv
<1> QED
  BY <1>4, <1>6, <1>7, Zenon DEF Archive!Incoming

Fields == {"pc", "todo", "seen", "convert", "upto", "file", "record", "existing", "source", "failed", "started"}

\* The script goes on with the next record.
LEMMA NextRecordIs ==
  ASSUME Archive!ScriptInv, NEW next, next = Archive!NextRecord
  PROVE  /\ DOMAIN next = Fields /\ next.pc = "record" /\ next.record = r6.record + 1
         /\ next.upto = r6.upto /\ next.file = r6.file /\ next.failed = r6.failed
<1>1. DOMAIN r6 = Fields
  BY DEF Archive!ScriptInv, Archive!Idle, Fields
<1> QED
  BY <1>1 DEF Archive!NextRecord, Fields

LEMMA FailedIs ==
  ASSUME Archive!ScriptInv, NEW why, NEW next, next = Archive!Failed(why)
  PROVE  /\ DOMAIN next = Fields /\ next.pc = "record" /\ next.record = r6.record + 1
         /\ next.upto = r6.upto /\ next.file = r6.file
         /\ next.failed = r6.failed \cup {Archive!Failure(why, Archive!Current.kind)}
<1>1. PICK some : some = Archive!NextRecord
  OBVIOUS
<1>2. /\ DOMAIN some = Fields /\ some.pc = "record" /\ some.record = r6.record + 1
      /\ some.upto = r6.upto /\ some.file = r6.file /\ some.failed = r6.failed
  BY <1>1, NextRecordIs
<1>3. PICK failure : failure = Archive!Failure(why, Archive!Current.kind)
  OBVIOUS
<1>4. next = [some EXCEPT !.failed = @ \cup {failure}]
  BY <1>1, <1>3, Zenon DEF Archive!Failed
<1> QED
  BY <1>2, <1>3, <1>4 DEF Fields

LEMMA NextFileIs ==
  ASSUME Archive!ScriptInv, NEW next, next = Archive!NextFile
  PROVE  /\ DOMAIN next = Fields /\ next.pc = r6.pc /\ next.record = r6.record
         /\ next.upto = r6.upto /\ next.file = r6.file /\ next.failed = r6.failed
<1>1. DOMAIN r6 = Fields
  BY DEF Archive!ScriptInv, Archive!Idle, Fields
<1> QED
  BY <1>1 DEF Archive!NextFile, Fields

\* A failure is a conflict of a legacy record only if it is called so.
LEMMA Failures ==
  ASSUME NEW why, NEW kind, why # "conflict" \/ kind # "legacy"
  PROVE  Archive!Failure("conflict", "legacy") # Archive!Failure(why, kind)
BY DEF Archive!Failure

\* Where the script has no record at hand, it has only to count.
LEMMA ScriptGoesOn ==
  ASSUME DOMAIN r6' = Fields, r6'.pc \in {"idle", "files", "record", "exit"},
         r6'.upto \in 0 .. Len(r3'), r6'.file \in Nat, r6'.record \in Nat,
         Archive!Failure("conflict", "legacy") \notin r6'.failed,
         r9' => r6'.pc \in {"record", "exit"}, r9' /\ r6'.pc = "exit" => r6'.file > r6'.upto,
         r6'.pc = "record" => r6'.file > 0 /\ r6'.record > 0
  PROVE  Archive!ScriptInv'
BY DEF Archive!ScriptInv, Archive!Idle, Fields

\* Others work: the archive grows, and the rows are as the script knows them,
\* but for Run's after a save.
LEMMA ScriptKept ==
  ASSUME Archive!FilesInv, Archive!FilesInv', Archive!ScriptInv, Grows, UNCHANGED r6, r9' => r9,
         \A id : r9' \/ id # ArchiveRun =>
            /\ id \in DOMAIN r2' <=> id \in DOMAIN r2
            /\ id \in DOMAIN r2 => r2'[id] = r2[id]
  PROVE  Archive!ScriptInv'
<1>1. r3 \in Seq({r3[i] : i \in DOMAIN r3}) /\ r3' \in Seq({r3'[i] : i \in DOMAIN r3'})
  BY DEF Archive!FilesInv
<1>2. /\ DOMAIN r3 = 1 .. Len(r3) /\ DOMAIN r3' = 1 .. Len(r3')
      /\ Len(r3) \in Nat /\ Len(r3') \in Nat
  BY <1>1
<1>3. \A i \in DOMAIN r3 : i \in DOMAIN r3' /\ r3'[i] = r3[i]
  BY DEF Grows
<1>4. Len(r3) <= Len(r3')
  <2>1. CASE Len(r3) = 0
    BY <1>2, <2>1
  <2>2. CASE Len(r3) # 0
    <3>1. Len(r3) \in DOMAIN r3
      BY <1>2, <2>2
    <3>2. Len(r3) \in DOMAIN r3'
      BY <1>3, <3>1
    <3> QED
      BY <1>2, <3>2
  <2> QED
    BY <2>1, <2>2
<1>5. r6.upto \in 0 .. Len(r3')
  <2>1. r6.upto \in 0 .. Len(r3)
    BY DEF Archive!ScriptInv
  <2> QED
    BY <1>2, <1>4, <2>1
<1>6. CASE r6.pc \notin {"existing", "save"}
  <2>1. DOMAIN r6 = Fields
    BY DEF Archive!ScriptInv, Archive!Idle, Fields
  <2>2. /\ r6.pc \in {"idle", "files", "record", "exit"} /\ r6.file \in Nat /\ r6.record \in Nat
        /\ Archive!Failure("conflict", "legacy") \notin r6.failed
        /\ r9' => r6.pc \in {"record", "exit"}
        /\ r9' /\ r6.pc = "exit" => r6.file > r6.upto
        /\ r6.pc = "record" => r6.file > 0 /\ r6.record > 0
    BY <1>6 DEF Archive!ScriptInv
  <2> QED
    BY <1>5, <2>1, <2>2, ScriptGoesOn
<1>7. CASE r6.pc \in {"existing", "save"}
  <2>1. r6.file \in DOMAIN r3
    <3>1. r6.file \in Nat /\ r6.file > 0 /\ r6.file <= r6.upto /\ r6.upto \in 0 .. Len(r3)
      BY <1>7 DEF Archive!ScriptInv
    <3> QED
      BY <1>2, <3>1
  <2>2. r3'[r6.file] = r3[r6.file]
    BY <1>3, <2>1
  <2>3. PICK file : file = r3[r6.file]
    OBVIOUS
  <2>4. PICK current : current = file.content.records[r6.record]
    OBVIOUS
  <2>5. /\ Archive!Archived = file /\ Archive!Archived' = file
        /\ Archive!Current = current /\ Archive!Current' = current
        /\ Archive!Incoming' = Archive!Incoming
    BY <2>2, <2>3, <2>4 DEF Archive!Archived, Archive!Current, Archive!Incoming
  <2>6. Archive!Undisturbed(current)' =>
          /\ Archive!Undisturbed(current) /\ (Archive!Has(current.id)' <=> Archive!Has(current.id))
          /\ Archive!Has(current.id) => r2'[current.id] = r2[current.id]
    BY DEF Archive!Undisturbed, Archive!Has
  <2>7. Archive!Undisturbed(current)' /\ r6.pc = "save" => r6.source = Archive!SourceOf(current)'
    <3> SUFFICES ASSUME Archive!Undisturbed(current)', r6.pc = "save"
                 PROVE  r6.source = Archive!SourceOf(current)'
      OBVIOUS
    <3>1. r6.source = Archive!SourceOf(current)
      BY <2>5, <2>6 DEF Archive!ScriptInv
    <3>2. Archive!SourceOf(current)' = Archive!SourceOf(current)
      BY <2>6 DEF Archive!SourceOf
    <3> QED
      BY <3>1, <3>2
  <2>8. Archive!Undisturbed(current)' => r6.existing = IF Archive!Has(current.id)' THEN r2'[current.id] ELSE None
    <3>1. Archive!Undisturbed(current) => r6.existing = IF Archive!Has(current.id) THEN r2[current.id] ELSE None
      BY <1>7, <2>5 DEF Archive!ScriptInv
    <3> QED
      BY <2>6, <3>1
  <2>9. /\ r6.file <= r6.upto /\ ~ Archive!Splits(file.content)
        /\ r6.record <= Len(file.content.records) /\ current.kind \in Archive!Traces
    BY <1>7, <2>5 DEF Archive!ScriptInv
  <2>10. r6.pc = "save" => ~ Archive!IsKnown(Archive!Incoming, r6.existing) /\ r6.source \in Archive!Sources(r11)'
    BY DEF Archive!ScriptInv, Grows
  <2>11. r6.pc = "save" => ~ Archive!IsKnown(Archive!Incoming', r6'.existing)
    BY <2>5, <2>10
  <2>12. /\ DOMAIN r6' = DOMAIN Archive!Idle
         /\ r6'.pc \in {"idle", "files", "record", "existing", "save", "exit"}
         /\ r6'.file \in Nat /\ r6'.record \in Nat
         /\ Archive!Failure("conflict", "legacy") \notin r6'.failed
         /\ r9' => r6'.pc \in {"record", "existing", "save", "exit"}
         /\ r9' /\ r6'.pc = "exit" => r6'.file > r6'.upto
         /\ r6'.file > 0 /\ r6'.record > 0
    BY <1>7 DEF Archive!ScriptInv
  <2>13. r6'.pc \in {"existing", "save"} =>
         /\ r6'.file <= r6'.upto /\ ~ Archive!Splits(Archive!Archived'.content)
         /\ r6'.record <= Len(Archive!Archived'.content.records)
         /\ Archive!Current'.kind \in Archive!Traces
         /\ Archive!Undisturbed(Archive!Current)' =>
              r6'.existing = IF Archive!Has(Archive!Current.id)' THEN r2'[Archive!Current'.id] ELSE None
    BY <2>5, <2>8, <2>9
  <2>14. r6'.pc = "save" =>
         /\ r6'.source \in Archive!Sources(r11)'
         /\ Archive!Undisturbed(Archive!Current)' => r6'.source = Archive!SourceOf(Archive!Current)'
    BY <2>5, <2>7, <2>10
  <2> QED
    BY <1>5, <2>11, <2>12, <2>13, <2>14, Zenon DEF Archive!ScriptInv, Archive!Idle
<1> QED
  BY <1>6, <1>7

\* What the script counts and knows.
LEMMA ScriptNumbers ==
  ASSUME Archive!FilesInv, Archive!FilesInv', Archive!ScriptInv, Grows
  PROVE  /\ r6.upto \in 0 .. Len(r3') /\ r6.file \in Nat /\ r6.record \in Nat
         /\ Archive!Failure("conflict", "legacy") \notin r6.failed
         /\ Len(r3) \in Nat /\ DOMAIN r3 = 1 .. Len(r3) /\ Len(r3) <= Len(r3')
         /\ DOMAIN r6 = Fields
<1>1. r3 \in Seq({r3[i] : i \in DOMAIN r3}) /\ r3' \in Seq({r3'[i] : i \in DOMAIN r3'})
  BY DEF Archive!FilesInv
<1>2. /\ DOMAIN r3 = 1 .. Len(r3) /\ DOMAIN r3' = 1 .. Len(r3')
      /\ Len(r3) \in Nat /\ Len(r3') \in Nat
  BY <1>1
<1>3. Len(r3) <= Len(r3')
  <2>1. CASE Len(r3) = 0
    BY <1>2, <2>1
  <2>2. CASE Len(r3) # 0
    <3>1. Len(r3) \in DOMAIN r3
      BY <1>2, <2>2
    <3>2. Len(r3) \in DOMAIN r3'
      BY <3>1 DEF Grows
    <3> QED
      BY <1>2, <3>2
  <2> QED
    BY <2>1, <2>2
<1>4. r6.upto \in 0 .. Len(r3)
  BY DEF Archive!ScriptInv
<1>5. r6.upto \in 0 .. Len(r3')
  BY <1>2, <1>3, <1>4
<1> QED
  BY <1>2, <1>3, <1>5 DEF Archive!ScriptInv, Archive!Idle, Fields

\* The steps of the script in the files, and its beginning and end.
LEMMA ScriptStepFiles ==
  ASSUME Archive!FilesInv, Archive!FilesInv', Archive!ScriptInv, Grows,
         \/ \E selection, convert : Archive!Call(selection, convert)
         \/ Archive!SkipFile
         \/ \E content : Archive!ImportFile(content)
         \/ Archive!Convert \/ Archive!Finish \/ Archive!Exit
  PROVE  Archive!ScriptInv'
<1>1. /\ r6.upto \in 0 .. Len(r3') /\ r6.file \in Nat /\ r6.record \in Nat
      /\ Archive!Failure("conflict", "legacy") \notin r6.failed
      /\ Len(r3) \in Nat /\ Len(r3) <= Len(r3') /\ DOMAIN r6 = Fields
  BY ScriptNumbers
<1>2. r9 => r6.pc \in {"record", "existing", "save", "exit"}
  BY DEF Archive!ScriptInv
<1>3. ASSUME NEW selection, NEW convert, Archive!Call(selection, convert) PROVE Archive!ScriptInv'
  <2>1. r6.pc = "idle" /\ r9' = r9
    BY <1>3 DEF Archive!Call
  <2>2. CASE r1 = "refused"
    <3>1. r6' = [r6 EXCEPT !.failed = {Archive!Failure("database", None)}, !.pc = "exit"]
      BY <1>3, <2>2 DEF Archive!Call
    <3>2. /\ DOMAIN r6' = Fields /\ r6'.pc = "exit" /\ r6'.upto = r6.upto /\ r6'.file = r6.file
          /\ r6'.record = r6.record /\ r6'.failed = {Archive!Failure("database", None)}
      BY <1>1, <3>1 DEF Fields
    <3>3. Archive!Failure("conflict", "legacy") \notin r6'.failed
      BY <3>2, Failures
    <3> QED
      BY <1>1, <1>2, <2>1, <3>2, <3>3, ScriptGoesOn
  <2>3. CASE r1 # "refused"
    <3>1. r6' = [Archive!Idle EXCEPT !.pc = "files", !.todo = selection, !.convert = convert,
                                     !.started = r6.started]
      BY <1>3, <2>3 DEF Archive!Call
    <3>2. /\ DOMAIN r6' = Fields /\ r6'.pc = "files" /\ r6'.upto = 0 /\ r6'.file = 0
          /\ r6'.record = 0 /\ r6'.failed = {}
      BY <3>1 DEF Archive!Idle, Fields
    <3>3. 0 \in 0 .. Len(r3')
      BY <1>1
    <3> QED
      BY <1>2, <2>1, <3>2, <3>3, ScriptGoesOn
  <2> QED
    BY <2>2, <2>3
<1>4. CASE Archive!SkipFile
  <2>1. r6.pc = "files" /\ r9' = r9 /\ r6' = Archive!NextFile
    BY <1>4 DEF Archive!SkipFile
  <2>2. /\ DOMAIN r6' = Fields /\ r6'.pc = r6.pc /\ r6'.record = r6.record
        /\ r6'.upto = r6.upto /\ r6'.file = r6.file /\ r6'.failed = r6.failed
    BY <2>1, NextFileIs
  <2> QED
    BY <1>1, <1>2, <2>1, <2>2, ScriptGoesOn
<1>5. ASSUME NEW content, Archive!ImportFile(content) PROVE Archive!ScriptInv'
  <2>1. r6.pc = "files" /\ r9' = r9
    BY <1>5 DEF Archive!ImportFile
  <2>2. PICK next : next = Archive!NextFile
    OBVIOUS
  <2>3. /\ DOMAIN next = Fields /\ next.pc = r6.pc /\ next.record = r6.record
        /\ next.upto = r6.upto /\ next.file = r6.file /\ next.failed = r6.failed
    BY <2>2, NextFileIs
  <2>4. PICK failure : failure = Archive!Failure("file", None)
    OBVIOUS
  <2>5. r6' = next \/ r6' = [next EXCEPT !.failed = @ \cup {failure}]
    BY <1>5, <2>2, <2>4, Zenon DEF Archive!ImportFile
  <2>6. /\ DOMAIN r6' = Fields /\ r6'.pc = r6.pc /\ r6'.record = r6.record
        /\ r6'.upto = r6.upto /\ r6'.file = r6.file
        /\ r6'.failed \subseteq r6.failed \cup {failure}
    BY <2>3, <2>5 DEF Fields
  <2>7. Archive!Failure("conflict", "legacy") # failure
    BY <2>4, Failures
  <2>8. Archive!Failure("conflict", "legacy") \notin r6'.failed
    BY <1>1, <2>6, <2>7
  <2> QED
    BY <1>1, <1>2, <2>1, <2>6, <2>8, ScriptGoesOn
<1>6. CASE Archive!Convert
  <2>1. r9' = r6.convert /\ r3' = r3
    BY <1>6 DEF Archive!Convert
  <2>2. CASE r6.convert
    <3>1. r6' = [r6 EXCEPT !.pc = "record", !.upto = Len(r3), !.file = 1, !.record = 1]
      BY <1>6, <2>2 DEF Archive!Convert
    <3>2. /\ DOMAIN r6' = Fields /\ r6'.pc = "record" /\ r6'.upto = Len(r3) /\ r6'.file = 1
          /\ r6'.record = 1 /\ r6'.failed = r6.failed
      BY <1>1, <3>1 DEF Fields
    <3>3. Len(r3) \in 0 .. Len(r3')
      BY <1>1, <2>1
    <3> QED
      BY <1>1, <3>2, <3>3, ScriptGoesOn
  <2>3. CASE ~ r6.convert
    <3>1. r6' = [r6 EXCEPT !.pc = "exit"]
      BY <1>6, <2>3 DEF Archive!Convert
    <3>2. /\ DOMAIN r6' = Fields /\ r6'.pc = "exit" /\ r6'.upto = r6.upto /\ r6'.file = r6.file
          /\ r6'.record = r6.record /\ r6'.failed = r6.failed
      BY <1>1, <3>1 DEF Fields
    <3> QED
      BY <1>1, <2>1, <2>3, <3>2, ScriptGoesOn
  <2> QED
    BY <2>2, <2>3
<1>7. CASE Archive!Finish
  <2>1. r6.pc = "record" /\ r6.file > r6.upto /\ r9' = r9 /\ r6' = [r6 EXCEPT !.pc = "exit"]
    BY <1>7 DEF Archive!Finish
  <2>2. /\ DOMAIN r6' = Fields /\ r6'.pc = "exit" /\ r6'.upto = r6.upto /\ r6'.file = r6.file
        /\ r6'.record = r6.record /\ r6'.failed = r6.failed
    BY <1>1, <2>1 DEF Fields
  <2> QED
    BY <1>1, <1>2, <2>1, <2>2, ScriptGoesOn
<1>8. CASE Archive!Exit
  <2>1. r9' = FALSE /\ r6' = [Archive!Idle EXCEPT !.started = r6.started + 1]
    BY <1>8 DEF Archive!Exit
  <2>2. /\ DOMAIN r6' = Fields /\ r6'.pc = "idle" /\ r6'.upto = 0 /\ r6'.file = 0
        /\ r6'.record = 0 /\ r6'.failed = {}
    BY <2>1 DEF Archive!Idle, Fields
  <2>3. 0 \in 0 .. Len(r3')
    BY <1>1
  <2> QED
    BY <2>1, <2>2, <2>3, ScriptGoesOn
<1> QED
  BY <1>3, <1>4, <1>5, <1>6, <1>7, <1>8

\* Its steps over the records that do not save.
LEMMA ScriptStepRecords ==
  ASSUME Archive!FilesInv, Archive!FilesInv', Archive!RowsInv, Archive!ScriptInv, Grows,
         Archive!EndOfFile \/ Archive!GetTrace \/ Archive!GetTraceContext
  PROVE  Archive!ScriptInv'
<1>1. /\ r6.upto \in 0 .. Len(r3') /\ r6.file \in Nat /\ r6.record \in Nat
      /\ Archive!Failure("conflict", "legacy") \notin r6.failed
      /\ DOMAIN r3 = 1 .. Len(r3) /\ DOMAIN r6 = Fields
  BY ScriptNumbers
<1>2. r6.file > 0 /\ r6.record > 0 /\ r6.pc \in {"record", "existing"}
      /\ (r6.pc = "existing" => r6.file <= r6.upto)
  BY DEF Archive!ScriptInv, Archive!EndOfFile, Archive!GetTrace, Archive!GetTraceContext
<1>3. r9' = r9 /\ r2' = r2 /\ r3' = r3 /\ r11' = r11
  BY DEF Archive!EndOfFile, Archive!GetTrace, Archive!GetTraceContext
<1>4. r6.record + 1 \in Nat /\ r6.record + 1 > 0 /\ r6.file + 1 \in Nat /\ r6.file + 1 > 0
  BY <1>1
<1>5. ASSUME r6' = Archive!NextRecord PROVE Archive!ScriptInv'
  <2>1. /\ DOMAIN r6' = Fields /\ r6'.pc = "record" /\ r6'.record = r6.record + 1
        /\ r6'.upto = r6.upto /\ r6'.file = r6.file /\ r6'.failed = r6.failed
    BY <1>5, NextRecordIs
  <2> QED
    BY <1>1, <1>2, <1>4, <2>1, ScriptGoesOn
<1>6. ASSUME r6' = Archive!Failed("invalid") PROVE Archive!ScriptInv'
  <2>1. PICK kind : kind = Archive!Current.kind
    OBVIOUS
  <2>2. /\ DOMAIN r6' = Fields /\ r6'.pc = "record" /\ r6'.record = r6.record + 1
        /\ r6'.upto = r6.upto /\ r6'.file = r6.file
        /\ r6'.failed = r6.failed \cup {Archive!Failure("invalid", kind)}
    BY <1>6, <2>1, FailedIs
  <2>3. Archive!Failure("conflict", "legacy") \notin r6'.failed
    BY <1>1, <2>2, Failures
  <2> QED
    BY <1>1, <1>2, <1>4, <2>2, <2>3, ScriptGoesOn
<1>7. CASE Archive!EndOfFile
  <2>1. PICK failed : failed = IF Archive!Splits(Archive!Archived.content)
                               THEN r6.failed \cup {Archive!Failure("breaks", None)} ELSE r6.failed
    OBVIOUS
  <2>2. r6' = [r6 EXCEPT !.file = @ + 1, !.record = 1, !.failed = failed] /\ r6.pc = "record"
    BY <1>7, <2>1, Zenon DEF Archive!EndOfFile
  <2>3. /\ DOMAIN r6' = Fields /\ r6'.pc = "record" /\ r6'.record = 1
        /\ r6'.upto = r6.upto /\ r6'.file = r6.file + 1 /\ r6'.failed = failed
    BY <1>1, <2>2 DEF Fields
  <2>4. Archive!Failure("conflict", "legacy") \notin failed
    <3>1. Archive!Failure("conflict", "legacy") # Archive!Failure("breaks", None)
      BY Failures
    <3> QED
      BY <1>1, <2>1, <3>1
  <2> QED
    BY <1>1, <1>4, <2>3, <2>4, ScriptGoesOn
<1>8. CASE Archive!GetTrace
  <2>1. /\ r6.pc = "record" /\ r6.file <= r6.upto
        /\ ~ Archive!Splits(Archive!Archived.content) /\ r6.record <= Len(Archive!Archived.content.records)
    BY <1>8 DEF Archive!GetTrace
  <2>2. r6.file \in DOMAIN r3
    BY <1>1, <1>2, <1>3, <2>1
  <2>3. PICK current : current = Archive!Current
    OBVIOUS
  <2>4. PICK file : file = Archive!Archived
    OBVIOUS
  <2>5. PICK existing : existing = IF Archive!Has(current.id) THEN r2[current.id] ELSE None
    OBVIOUS
  <2>6. \/ r6' = Archive!NextRecord
        \/ r6' = Archive!Failed("invalid")
        \/ /\ current.kind # "other" /\ current.kind # "invalid"
           /\ r6' = [r6 EXCEPT !.pc = "existing", !.existing = existing]
    <3>1. CASE current.kind = "other"
      <4>1. r6' = Archive!NextRecord
        BY <1>8, <2>3, <3>1 DEF Archive!GetTrace
      <4> QED
        BY <4>1
    <3>2. CASE current.kind = "invalid"
      <4>1. r6' = Archive!Failed("invalid")
        BY <1>8, <2>3, <3>2 DEF Archive!GetTrace
      <4> QED
        BY <4>1
    <3>3. CASE current.kind # "other" /\ current.kind # "invalid"
      <4>1. r6' = [r6 EXCEPT !.pc = "existing", !.existing = existing]
        BY <1>8, <2>3, <2>5, <3>3 DEF Archive!GetTrace
      <4> QED
        BY <3>3, <4>1
    <3> QED
      BY <3>1, <3>2, <3>3
  <2>7. ASSUME current.kind # "other", current.kind # "invalid",
               r6' = [r6 EXCEPT !.pc = "existing", !.existing = existing]
        PROVE  Archive!ScriptInv'
    <3>1. /\ DOMAIN r6' = Fields /\ r6'.pc = "existing" /\ r6'.record = r6.record
          /\ r6'.upto = r6.upto /\ r6'.file = r6.file /\ r6'.failed = r6.failed /\ r6'.existing = existing
      BY <1>1, <2>7 DEF Fields
    <3>2. Archive!Archived' = file /\ Archive!Current' = current
      BY <1>3, <2>3, <2>4, <3>1 DEF Archive!Archived, Archive!Current
    <3>3. r6.record \in DOMAIN file.content.records
      <4>1. file.content.records \in Seq(Archive!Known)
        BY <2>2, <2>4, ArchivedRecords, Zenon DEF Archive!Archived
      <4> QED
        BY <1>1, <1>2, <2>1, <2>4, <4>1
    <3>4. current \in Archive!Known
      BY <2>2, <2>3, <2>4, <3>3, ArchivedRecords, Zenon DEF Archive!Archived, Archive!Current
    <3>5. current.kind \in Archive!Traces
      BY <2>7, <3>4, KnownRecords
    <3>6. Archive!Has(current.id)' <=> Archive!Has(current.id)
      BY <1>3 DEF Archive!Has
    <3>7. r6'.existing = IF Archive!Has(current.id)' THEN r2'[current.id] ELSE None
      BY <1>3, <2>5, <3>1, <3>6
    <3>8. /\ r6'.file <= r6'.upto /\ ~ Archive!Splits(file.content)
          /\ r6'.record <= Len(file.content.records)
      BY <2>1, <2>4, <3>1
    <3>9. r9' => r9
      BY <1>3
    <3> QED
      BY <1>1, <1>2, <3>1, <3>2, <3>5, <3>7, <3>8, Zenon DEF Archive!ScriptInv, Archive!Idle, Fields
  <2> QED
    BY <1>5, <1>6, <2>6, <2>7
<1>9. CASE Archive!GetTraceContext
  <2>1. r6.pc = "existing"
    BY <1>9 DEF Archive!GetTraceContext
  <2>2. CASE Archive!IsKnown(Archive!Incoming, r6.existing)
    BY <1>5, <1>9, <2>2 DEF Archive!GetTraceContext
  <2>3. CASE ~ Archive!IsKnown(Archive!Incoming, r6.existing)
    <3>1. PICK source : source = Archive!SourceOf(Archive!Current)
      OBVIOUS
    <3>2. r6' = [r6 EXCEPT !.pc = "save", !.source = source]
      BY <1>9, <2>3, <3>1, Zenon DEF Archive!GetTraceContext
    <3>3. /\ DOMAIN r6' = Fields /\ r6'.pc = "save" /\ r6'.record = r6.record /\ r6'.source = source
          /\ r6'.upto = r6.upto /\ r6'.file = r6.file /\ r6'.failed = r6.failed /\ r6'.existing = r6.existing
      BY <1>1, <3>2 DEF Fields
    <3>4. /\ Archive!Archived' = Archive!Archived /\ Archive!Current' = Archive!Current
          /\ Archive!Incoming' = Archive!Incoming
      BY <1>3, <3>3 DEF Archive!Archived, Archive!Current, Archive!Incoming
    <3>5. source \in Archive!Sources(r11)
      <4>1. Archive!Current \in Archive!Known
        BY <2>1, RecordAtHand
      <4>2. Archive!Current.context = None \/ Archive!Current.context \in Archive!Sources(r11)
        BY <4>1, KnownRecords
      <4>3. \A id \in DOMAIN r2 : r2[id].source \in Archive!Sources(r11)
        BY DEF Archive!RowsInv, Archive!Row
      <4>4. "legacy_import" \in Archive!Sources(r11)
        BY DEF Archive!Sources
      <4> QED
        BY <3>1, <4>2, <4>3, <4>4 DEF Archive!SourceOf, Archive!Has
    <3>6. Archive!SourceOf(Archive!Current)' = source
      BY <1>3, <3>1, <3>4 DEF Archive!SourceOf, Archive!Has
    <3>7. Archive!Undisturbed(Archive!Current)' <=> Archive!Undisturbed(Archive!Current)
      BY <1>3, <3>4 DEF Archive!Undisturbed
    <3>8. Archive!Sources(r11)' = Archive!Sources(r11)
      BY <1>3
    <3>9. PICK current : current = Archive!Current
      OBVIOUS
    <3>10. Archive!Has(Archive!Current.id)' <=> Archive!Has(Archive!Current.id)
      BY <1>3, <3>4 DEF Archive!Has
    <3>11. /\ r6'.file <= r6'.upto /\ ~ Archive!Splits(Archive!Archived'.content)
           /\ r6'.record <= Len(Archive!Archived'.content.records)
           /\ Archive!Current'.kind \in Archive!Traces
           /\ Archive!Undisturbed(Archive!Current)' =>
                r6'.existing = IF Archive!Has(Archive!Current.id)' THEN r2'[Archive!Current'.id] ELSE None
      <4>1. /\ r6.file <= r6.upto /\ ~ Archive!Splits(Archive!Archived.content)
            /\ r6.record <= Len(Archive!Archived.content.records)
            /\ Archive!Current.kind \in Archive!Traces
            /\ Archive!Undisturbed(Archive!Current) =>
                 r6.existing = IF Archive!Has(Archive!Current.id) THEN r2[Archive!Current.id] ELSE None
        BY <2>1 DEF Archive!ScriptInv
      <4> QED
        BY <1>3, <3>3, <3>4, <3>7, <3>10, <4>1
    <3>12. /\ ~ Archive!IsKnown(Archive!Incoming', r6'.existing)
           /\ r6'.source \in Archive!Sources(r11)'
           /\ Archive!Undisturbed(Archive!Current)' => r6'.source = Archive!SourceOf(Archive!Current)'
      BY <2>3, <3>3, <3>4, <3>5, <3>6, <3>8
    <3> QED
      BY <1>1, <1>2, <1>3, <3>3, <3>11, <3>12, Zenon DEF Archive!ScriptInv, Archive!Idle, Fields
  <2> QED
    BY <2>2, <2>3
<1> QED
  BY <1>7, <1>8, <1>9

\* Its save, and the failures of the database.
LEMMA ScriptStepSaves ==
  ASSUME Archive!FilesInv, Archive!FilesInv', Archive!RowsInv, Archive!ScriptInv, Grows,
         Archive!SaveRecord \/ Archive!DatabaseFails
  PROVE  Archive!ScriptInv'
<1>1. /\ r6.upto \in 0 .. Len(r3') /\ r6.file \in Nat /\ r6.record \in Nat
      /\ Archive!Failure("conflict", "legacy") \notin r6.failed
      /\ DOMAIN r6 = Fields
  BY ScriptNumbers
<1>2. r9' = r9
  BY DEF Archive!SaveRecord, Archive!DatabaseFails
<1>3. r6.record + 1 \in Nat /\ r6.record + 1 > 0
  BY <1>1
<1>4. ASSUME r6.pc \in {"existing", "save"}, NEW why, r6' = Archive!Failed(why),
             why # "conflict" \/ Archive!Current.kind # "legacy"
      PROVE  Archive!ScriptInv'
  <2>1. PICK kind : kind = Archive!Current.kind
    OBVIOUS
  <2>2. /\ DOMAIN r6' = Fields /\ r6'.pc = "record" /\ r6'.record = r6.record + 1
        /\ r6'.upto = r6.upto /\ r6'.file = r6.file
        /\ r6'.failed = r6.failed \cup {Archive!Failure(why, kind)}
    BY <1>4, <2>1, FailedIs
  <2>3. Archive!Failure("conflict", "legacy") # Archive!Failure(why, kind)
    BY <1>4, <2>1, Failures
  <2>4. Archive!Failure("conflict", "legacy") \notin r6'.failed
    BY <1>1, <2>2, <2>3
  <2>5. r6.file > 0
    BY <1>4 DEF Archive!ScriptInv
  <2> QED
    BY <1>1, <1>3, <2>2, <2>4, <2>5, ScriptGoesOn
<1>5. CASE Archive!SaveRecord
  <2>1. r6.pc = "save"
    BY <1>5 DEF Archive!SaveRecord
  <2>2. CASE Archive!Conflicts(Archive!Incoming, r6.source)
    <3>1. r6' = Archive!Failed("conflict")
      BY <1>5, <2>2 DEF Archive!SaveRecord
    <3>2. Archive!Incoming.id = Archive!Current.id
      BY <2>1, RecordAtHand
    <3>3. Archive!Has(Archive!Current.id)
      BY <2>2, <3>2, Zenon DEF Archive!Conflicts
    <3>4. Archive!Current.kind # "legacy"
      BY <2>1, <3>3, LegacyIsAccepted
    <3> QED
      BY <1>4, <2>1, <3>1, <3>4
  <2>3. CASE ~ Archive!Conflicts(Archive!Incoming, r6.source)
    <3>1. r6' = Archive!NextRecord
      BY <1>5, <2>3 DEF Archive!SaveRecord
    <3>2. /\ DOMAIN r6' = Fields /\ r6'.pc = "record" /\ r6'.record = r6.record + 1
          /\ r6'.upto = r6.upto /\ r6'.file = r6.file /\ r6'.failed = r6.failed
      BY <3>1, NextRecordIs
    <3>3. r6.file > 0
      BY <2>1 DEF Archive!ScriptInv
    <3> QED
      BY <1>1, <1>3, <3>2, <3>3, ScriptGoesOn
  <2> QED
    BY <2>2, <2>3
<1>6. CASE Archive!DatabaseFails
  <2>1. CASE r6.pc = "files" /\ r6' = [Archive!NextFile EXCEPT !.failed = @ \cup {Archive!Failure("database", None)}]
    <3>1. PICK next : next = Archive!NextFile
      OBVIOUS
    <3>2. /\ DOMAIN next = Fields /\ next.pc = r6.pc /\ next.record = r6.record
          /\ next.upto = r6.upto /\ next.file = r6.file /\ next.failed = r6.failed
      BY <3>1, NextFileIs
    <3>3. PICK failure : failure = Archive!Failure("database", None)
      OBVIOUS
    <3>4. r6' = [next EXCEPT !.failed = @ \cup {failure}]
      BY <2>1, <3>1, <3>3
    <3>5. /\ DOMAIN r6' = Fields /\ r6'.pc = "files" /\ r6'.record = r6.record
          /\ r6'.upto = r6.upto /\ r6'.file = r6.file
          /\ r6'.failed = r6.failed \cup {failure}
      BY <2>1, <3>2, <3>4 DEF Fields
    <3>6. Archive!Failure("conflict", "legacy") # failure
      BY <3>3, Failures
    <3>7. Archive!Failure("conflict", "legacy") \notin r6'.failed
      BY <1>1, <3>5, <3>6
    <3>8. r9 => r6.pc # "files"
      BY DEF Archive!ScriptInv
    <3> QED
      BY <1>1, <1>2, <2>1, <3>5, <3>7, <3>8, ScriptGoesOn
  <2>2. CASE r6.pc \in {"existing", "save"} /\ r6' = Archive!Failed("database")
    BY <1>4, <2>2
  <2> QED
    BY <1>6, <2>1, <2>2 DEF Archive!DatabaseFails
<1> QED
  BY <1>5, <1>6

\* So the script is kept by every step.
LEMMA ScriptStep ==
  ASSUME Archive!FilesInv, Archive!RowsInv, Archive!ScriptInv, Archive!Next
  PROVE  Archive!ScriptInv'
<1>1. Archive!FilesInv' /\ Grows
  BY FilesStep
<1>2. CASE UNCHANGED <<r2, r6, r9>>
  BY <1>1, <1>2, ScriptKept
<1>3. ASSUME NEW k \in DOMAIN r5, Archive!Persist(k) PROVE Archive!ScriptInv'
  <2>1. r6' = r6 /\ r9' = FALSE
    BY <1>3 DEF Archive!Persist
  <2>2. RowsMove /\ \A id \in DOMAIN r2' : id # ArchiveRun => id \in DOMAIN r2 /\ r2'[id] = r2[id]
    BY <1>3, PersistStep
  <2>3. \A id \in DOMAIN r2 : id \in DOMAIN r2'
    BY <2>2 DEF RowsMove
  <2> QED
    BY <1>1, <2>1, <2>2, <2>3, ScriptKept
<1>4. CASE \/ \E selection, convert : Archive!Call(selection, convert)
           \/ Archive!SkipFile
           \/ \E content : Archive!ImportFile(content)
           \/ Archive!Convert \/ Archive!Finish \/ Archive!Exit
  BY <1>1, <1>4, ScriptStepFiles
<1>5. CASE Archive!EndOfFile \/ Archive!GetTrace \/ Archive!GetTraceContext
  BY <1>1, <1>5, ScriptStepRecords
<1>6. CASE Archive!SaveRecord \/ Archive!DatabaseFails
  BY <1>1, <1>6, ScriptStepSaves
<1>7. Archive!Return \/ (\E path, content : Archive!WriteJsonArtifact(path, content))
      \/ (\E source : Archive!Open(source)) \/ Archive!Page => UNCHANGED <<r2, r6, r9>>
  BY DEF Archive!Return, Archive!WriteJsonArtifact, Archive!Open, Archive!Page
<1>8. \/ Archive!Return \/ (\E path, content : Archive!WriteJsonArtifact(path, content))
      \/ (\E source : Archive!Open(source)) \/ Archive!Page
      \/ \E k \in DOMAIN r5 : Archive!Persist(k)
      \/ \/ \E selection, convert : Archive!Call(selection, convert)
         \/ Archive!SkipFile
         \/ \E content : Archive!ImportFile(content)
         \/ Archive!Convert \/ Archive!Finish \/ Archive!Exit
      \/ Archive!EndOfFile \/ Archive!GetTrace \/ Archive!GetTraceContext
      \/ Archive!SaveRecord \/ Archive!DatabaseFails
  BY Zenon DEF Archive!Next
<1> QED
  BY <1>2, <1>3, <1>4, <1>5, <1>6, <1>7, <1>8

\* When the script is at what it converts, and still may know of it.
Converts == r6.pc \in {"record", "existing", "save"} \/ (r6.pc = "exit" /\ r9)

\* What is settled stays so: rows are saved again, never lost.
LEMMA SettledStays ==
  ASSUME Archive!FilesInv, Archive!RowsInv, Archive!FilesInv', Archive!RowsInv', RowsMove,
         NEW record, record.revision \in Nat, Archive!Settled(record)
  PROVE  Archive!Settled(record)'
<1>1. record.id \in DOMAIN r2
  BY DEF Archive!Settled, Archive!Has
<1>2. PICK old : old = r2[record.id]
  OBVIOUS
<1>3. PICK new : new = r2'[record.id]
  OBVIOUS
<1>4. /\ record.id \in DOMAIN r2' /\ old.revision <= new.revision
      /\ new.text = old.text /\ new.source = old.source
  BY <1>1, <1>2, <1>3 DEF RowsMove
<1>5. old.revision \in Nat
  BY <1>1, <1>2, RowsAreRows
<1>6. new.revision \in Nat
  BY <1>3, <1>4 DEF Archive!RowsInv, Archive!Row
<1>7. \/ record.revision <= old.revision
      \/ record.context \notin {None, old.source}
      \/ record.text # old.text
  BY <1>2 DEF Archive!Settled
<1>8. \/ record.revision <= new.revision
      \/ record.context \notin {None, new.source}
      \/ record.text # new.text
  BY <1>4, <1>5, <1>6, <1>7
<1> QED
  BY <1>3, <1>4, <1>8 DEF Archive!Settled, Archive!Has

\* What was passed is settled, and what is passed now.
LEMMA ProgressGoesOn ==
  ASSUME Archive!FilesInv, Archive!RowsInv, Archive!FilesInv', Archive!RowsInv', Archive!ScriptInv,
         Archive!ProgressInv, RowsMove, Grows, r10 => r10', r9' => r9, Converts, r6'.upto = r6.upto,
         r10' \/ \A i \in 1 .. r6.upto : ~ Archive!Splits(r3[i].content) =>
           \A j \in DOMAIN r3[i].content.records : Archive!Passed(i, j)' /\ ~ Archive!Passed(i, j) =>
             \A record : record = r3[i].content.records[j] /\ record.kind \in Archive!Traces
                         /\ Archive!Undisturbed(record)' => Archive!Settled(record)'
  PROVE  Archive!ProgressInv'
<1>1. CASE r10'
  BY <1>1 DEF Archive!ProgressInv
<1>2. CASE ~ r10'
  <2>1. \A i \in 1 .. r6.upto : i \in DOMAIN r3 /\ r3'[i] = r3[i]
    <3>1. r6.upto \in 0 .. Len(r3) /\ DOMAIN r3 = 1 .. Len(r3) /\ Len(r3) \in Nat
      BY ScriptNumbers DEF Archive!ScriptInv
    <3>2. \A i \in 1 .. r6.upto : i \in DOMAIN r3
      BY <3>1
    <3> QED
      BY <3>2 DEF Grows
  <2>2. ASSUME NEW i \in 1 .. r6.upto, ~ Archive!Splits(r3[i].content), NEW j \in DOMAIN r3[i].content.records,
               NEW record, record = r3[i].content.records[j], record.kind \in Archive!Traces,
               Archive!Passed(i, j)', Archive!Undisturbed(record)'
        PROVE  Archive!Settled(record)'
    <3>1. CASE Archive!Passed(i, j)
      <4>1. Archive!Undisturbed(record)
        BY <2>2 DEF Archive!Undisturbed
      <4>2. Archive!Settled(record)
        BY <1>2, <2>2, <3>1, <4>1, Zenon DEF Archive!ProgressInv, Converts
      <4>3. record.revision \in Nat
        <5>1. record \in Archive!Known
          BY <2>1, <2>2, ArchivedRecords
        <5> QED
          BY <2>2, <5>1, KnownRecords
      <4> QED
        BY <4>2, <4>3, SettledStays
    <3>2. CASE ~ Archive!Passed(i, j)
      BY <1>2, <2>2, <3>2
    <3> QED
      BY <3>1, <3>2
  <2>3. ASSUME NEW i \in 1 .. r6'.upto, ~ Archive!Splits(r3'[i].content), NEW j \in DOMAIN r3'[i].content.records,
               Archive!Passed(i, j)', r3'[i].content.records[j].kind \in Archive!Traces,
               Archive!Undisturbed(r3[i].content.records[j])'
        PROVE  Archive!Settled(r3[i].content.records[j])'
    <3>1. i \in 1 .. r6.upto /\ r3'[i] = r3[i]
      BY <2>1
    <3>2. PICK record : record = r3'[i].content.records[j]
      OBVIOUS
    <3>3. Archive!Undisturbed(record)'
      BY <2>3, <3>2 DEF Archive!Undisturbed
    <3>4. Archive!Settled(record)'
      BY <2>2, <2>3, <3>1, <3>2, <3>3
    <3> QED
      BY <3>2, <3>4 DEF Archive!Settled, Archive!Has
  <2> QED
    BY <2>3, Zenon DEF Archive!ProgressInv
<1> QED
  BY <1>1, <1>2

\* The next record is at hand: the last one has to be settled.
LEMMA ProgressNextRecord ==
  ASSUME Archive!FilesInv, Archive!RowsInv, Archive!FilesInv', Archive!RowsInv', Archive!ScriptInv,
         Archive!ProgressInv, RowsMove, Grows, r10 => r10', r9' => r9, Converts,
         r6'.upto = r6.upto, r6'.file = r6.file, r6'.record = r6.record + 1,
         \A record : record = Archive!Current /\ record.kind \in Archive!Traces /\ Archive!Undisturbed(record)'
                       => Archive!Settled(record)'
  PROVE  Archive!ProgressInv'
<1>1. ASSUME NEW i \in 1 .. r6.upto, NEW j \in DOMAIN r3[i].content.records,
             Archive!Passed(i, j)', ~ Archive!Passed(i, j), NEW record, record = r3[i].content.records[j]
      PROVE  record = Archive!Current
  <2>1. r6.file \in Nat /\ r6.record \in Nat /\ r6.upto \in Nat
    BY ScriptNumbers DEF Archive!ScriptInv
  <2>2. j \in Nat
    <3>1. i \in DOMAIN r3
      <4>1. r6.upto \in 0 .. Len(r3) /\ DOMAIN r3 = 1 .. Len(r3) /\ Len(r3) \in Nat
        BY ScriptNumbers DEF Archive!ScriptInv
      <4> QED
        BY <4>1
    <3>2. r3[i].content.records \in Seq(Archive!Known)
      BY <3>1, ArchivedRecords
    <3> QED
      BY <3>2
  <2>3. i = r6.file /\ j = r6.record
    BY <1>1, <2>1, <2>2 DEF Archive!Passed
  <2> QED
    BY <1>1, <2>3, Zenon DEF Archive!Current, Archive!Archived
<1>2. \A i \in 1 .. r6.upto : ~ Archive!Splits(r3[i].content) =>
        \A j \in DOMAIN r3[i].content.records : Archive!Passed(i, j)' /\ ~ Archive!Passed(i, j) =>
          \A record : record = r3[i].content.records[j] /\ record.kind \in Archive!Traces
                      /\ Archive!Undisturbed(record)' => Archive!Settled(record)'
  <2> TAKE i \in 1 .. r6.upto
  <2> HAVE ~ Archive!Splits(r3[i].content)
  <2> TAKE j \in DOMAIN r3[i].content.records
  <2> HAVE Archive!Passed(i, j)' /\ ~ Archive!Passed(i, j)
  <2> TAKE record
  <2> HAVE record = r3[i].content.records[j] /\ record.kind \in Archive!Traces /\ Archive!Undisturbed(record)'
  <2>1. record = Archive!Current
    BY <1>1
  <2> QED
    BY <2>1
<1> QED
  BY <1>2, ProgressGoesOn

\* What is known is settled.
LEMMA KnownIsSettled ==
  ASSUME Archive!FilesInv, Archive!RowsInv, Archive!ScriptInv, r6.pc \in {"existing", "save"},
         Archive!IsKnown(Archive!Incoming, r6.existing), Archive!Undisturbed(Archive!Current),
         NEW record, record = Archive!Current
  PROVE  Archive!Settled(record)
<1>1. r6.existing # None
  BY DEF Archive!IsKnown
<1>2. r6.existing = IF Archive!Has(record.id) THEN r2[record.id] ELSE None
  BY DEF Archive!ScriptInv
<1>3. record.id \in DOMAIN r2 /\ r6.existing = r2[record.id]
  BY <1>1, <1>2 DEF Archive!Has
<1>4. Archive!Incoming.revision = record.revision /\ record.kind \in Archive!Traces /\ record \in Archive!Known
  BY RecordAtHand
<1>5. record.revision \in Nat /\ r2[record.id].revision \in Nat
  BY <1>3, <1>4, KnownRecords, RowsAreRows
<1>6. Archive!Incoming.revision < r6.existing.revision \/ Archive!Incoming.revision = r6.existing.revision
  BY DEF Archive!IsKnown
<1>7. record.revision <= r2[record.id].revision
  BY <1>3, <1>4, <1>5, <1>6
<1> QED
  BY <1>3, <1>7 DEF Archive!Settled, Archive!Has

\* What is in conflict is settled.
LEMMA ConflictIsSettled ==
  ASSUME Archive!FilesInv, Archive!RowsInv, Archive!ScriptInv, r6.pc = "save",
         Archive!Conflicts(Archive!Incoming, r6.source), Archive!Undisturbed(Archive!Current),
         NEW record, record = Archive!Current
  PROVE  Archive!Settled(record)
<1>1. /\ Archive!Incoming.id = record.id /\ Archive!Incoming.revision = record.revision
      /\ Archive!Incoming.text = record.text
      /\ record.kind \in Archive!Traces /\ record \in Archive!Known
  BY RecordAtHand
<1>2. record.id \in DOMAIN r2
  BY <1>1, Zenon DEF Archive!Conflicts, Archive!Has
<1>3. PICK row : row = r2[record.id]
  OBVIOUS
<1>4. record.revision \in Nat /\ row.revision \in Nat
  BY <1>1, <1>2, <1>3, KnownRecords, RowsAreRows
<1>5. r6.source = IF record.context # None THEN record.context ELSE row.source
  <2>1. r6.source = Archive!SourceOf(record)
    BY DEF Archive!ScriptInv
  <2> QED
    BY <1>2, <1>3, <2>1 DEF Archive!SourceOf, Archive!Has
<1>6. \/ r6.source # row.source
      \/ record.revision = row.revision
      \/ record.text # row.text
  BY <1>1, <1>3, Zenon DEF Archive!Conflicts
<1>7. \/ record.revision <= row.revision
      \/ record.context \notin {None, row.source}
      \/ record.text # row.text
  BY <1>4, <1>5, <1>6
<1> QED
  BY <1>2, <1>3, <1>7 DEF Archive!Settled, Archive!Has

\* Every step of the script settles what it passes.
LEMMA ProgressStepScript ==
  ASSUME Archive!FilesInv, Archive!RowsInv, Archive!ScriptInv, Archive!ProgressInv, Archive!Next,
         Archive!EndOfFile \/ Archive!GetTrace \/ Archive!GetTraceContext \/ Archive!SaveRecord
  PROVE  Archive!ProgressInv'
<1>1. Archive!FilesInv' /\ Grows /\ Archive!RowsInv' /\ RowsMove
  BY FilesStep, RowsStep
<1>2. r9' = r9 /\ r10' = r10
  BY DEF Archive!EndOfFile, Archive!GetTrace, Archive!GetTraceContext, Archive!SaveRecord
<1>3. Converts
  BY DEF Converts, Archive!EndOfFile, Archive!GetTrace, Archive!GetTraceContext, Archive!SaveRecord
<1>4. /\ r6.file \in Nat /\ r6.record \in Nat /\ r6.upto \in 0 .. Len(r3)
      /\ Len(r3) \in Nat /\ DOMAIN r3 = 1 .. Len(r3) /\ DOMAIN r6 = Fields
  BY <1>1, ScriptNumbers DEF Archive!ScriptInv
<1>5. CASE Archive!EndOfFile
  <2>1. PICK failed : failed = IF Archive!Splits(Archive!Archived.content)
                               THEN r6.failed \cup {Archive!Failure("breaks", None)} ELSE r6.failed
    OBVIOUS
  <2>2. r6' = [r6 EXCEPT !.file = @ + 1, !.record = 1, !.failed = failed]
    BY <1>5, <2>1, Zenon DEF Archive!EndOfFile
  <2>3. r6'.upto = r6.upto /\ r6'.file = r6.file + 1 /\ r6'.record = 1
    BY <1>4, <2>2 DEF Fields
  <2>4. ASSUME NEW i \in 1 .. r6.upto, ~ Archive!Splits(r3[i].content), NEW j \in DOMAIN r3[i].content.records,
               Archive!Passed(i, j)'
        PROVE  Archive!Passed(i, j)
    <3>1. i \in DOMAIN r3
      BY <1>4
    <3>2. r3[i].content.records \in Seq(Archive!Known)
      BY <3>1, ArchivedRecords
    <3>3. j \in 1 .. Len(r3[i].content.records) /\ Len(r3[i].content.records) \in Nat
      BY <3>2
    <3>4. i < r6.file + 1
      BY <1>4, <2>3, <2>4, <3>3 DEF Archive!Passed
    <3>5. CASE i = r6.file
      <4>1. r6.record > Len(r3[i].content.records)
        BY <1>5, <2>4, <3>5 DEF Archive!EndOfFile, Archive!Archived
      <4> QED
        BY <1>4, <3>3, <3>5, <4>1 DEF Archive!Passed
    <3>6. CASE i # r6.file
      BY <1>4, <3>4, <3>6 DEF Archive!Passed
    <3> QED
      BY <3>5, <3>6
  <2> QED
    BY <1>1, <1>2, <1>3, <2>3, <2>4, ProgressGoesOn
<1>6. ASSUME UNCHANGED <<r6.upto, r6.file, r6.record>> PROVE Archive!ProgressInv'
  <2>1. \A i, j : Archive!Passed(i, j)' => Archive!Passed(i, j)
    BY <1>6 DEF Archive!Passed
  <2> QED
    BY <1>1, <1>2, <1>3, <1>6, <2>1, ProgressGoesOn
<1>7. ASSUME r6' = Archive!NextRecord \/ \E why : r6' = Archive!Failed(why),
             \A record : record = Archive!Current /\ record.kind \in Archive!Traces /\ Archive!Undisturbed(record)'
                           => Archive!Settled(record)'
      PROVE  Archive!ProgressInv'
  <2>1. r6'.upto = r6.upto /\ r6'.file = r6.file /\ r6'.record = r6.record + 1
    BY <1>7, NextRecordIs, FailedIs
  <2> QED
    BY <1>1, <1>2, <1>3, <1>7, <2>1, ProgressNextRecord
<1>8. ASSUME r6' = Archive!NextRecord \/ \E why : r6' = Archive!Failed(why), r6.pc \in {"existing", "save"},
             Archive!Undisturbed(Archive!Current) => \A record : record = Archive!Current => Archive!Settled(record)
      PROVE  Archive!ProgressInv'
  <2>1. ASSUME NEW record, record = Archive!Current, record.kind \in Archive!Traces, Archive!Undisturbed(record)'
        PROVE  Archive!Settled(record)'
    <3>1. Archive!Undisturbed(Archive!Current)
      BY <1>2, <2>1 DEF Archive!Undisturbed
    <3>2. Archive!Settled(record)
      BY <1>8, <2>1, <3>1
    <3>3. record.revision \in Nat
      BY <1>8, <2>1, RecordAtHand, KnownRecords
    <3> QED
      BY <1>1, <3>2, <3>3, SettledStays
  <2> QED
    BY <1>7, <1>8, <2>1
<1>9. CASE Archive!GetTrace
  <2>1. CASE Archive!Current.kind = "other"
    <3>1. r6' = Archive!NextRecord
      BY <1>9, <2>1 DEF Archive!GetTrace
    <3> QED
      BY <1>7, <2>1, <3>1 DEF Archive!Traces
  <2>2. CASE Archive!Current.kind = "invalid"
    <3>1. r6' = Archive!Failed("invalid")
      BY <1>9, <2>2 DEF Archive!GetTrace
    <3> QED
      BY <1>7, <2>2, <3>1 DEF Archive!Traces
  <2>3. CASE Archive!Current.kind # "other" /\ Archive!Current.kind # "invalid"
    <3>1. PICK existing : existing = IF Archive!Has(Archive!Current.id) THEN r2[Archive!Current.id] ELSE None
      OBVIOUS
    <3>2. r6' = [r6 EXCEPT !.pc = "existing", !.existing = existing]
      BY <1>9, <2>3, <3>1 DEF Archive!GetTrace
    <3>3. UNCHANGED <<r6.upto, r6.file, r6.record>>
      BY <1>4, <3>2 DEF Fields
    <3> QED
      BY <1>6, <3>3
  <2> QED
    BY <2>1, <2>2, <2>3
<1>10. CASE Archive!GetTraceContext
  <2>1. r6.pc = "existing"
    BY <1>10 DEF Archive!GetTraceContext
  <2>2. CASE Archive!IsKnown(Archive!Incoming, r6.existing)
    <3>1. r6' = Archive!NextRecord
      BY <1>10, <2>2 DEF Archive!GetTraceContext
    <3> QED
      BY <1>8, <2>1, <2>2, <3>1, KnownIsSettled
  <2>3. CASE ~ Archive!IsKnown(Archive!Incoming, r6.existing)
    <3>1. PICK source : source = Archive!SourceOf(Archive!Current)
      OBVIOUS
    <3>2. r6' = [r6 EXCEPT !.pc = "save", !.source = source]
      BY <1>10, <2>3, <3>1, Zenon DEF Archive!GetTraceContext
    <3>3. UNCHANGED <<r6.upto, r6.file, r6.record>>
      BY <1>4, <3>2 DEF Fields
    <3> QED
      BY <1>6, <3>3
  <2> QED
    BY <2>2, <2>3
<1>11. CASE Archive!SaveRecord
  <2>1. r6.pc = "save"
    BY <1>11 DEF Archive!SaveRecord
  <2>2. CASE Archive!Conflicts(Archive!Incoming, r6.source)
    <3>1. r6' = Archive!Failed("conflict")
      BY <1>11, <2>2 DEF Archive!SaveRecord
    <3> QED
      BY <1>8, <2>1, <2>2, <3>1, ConflictIsSettled
  <2>3. CASE ~ Archive!Conflicts(Archive!Incoming, r6.source)
    <3>1. r6' = Archive!NextRecord
      BY <1>11, <2>3 DEF Archive!SaveRecord
    <3>2. ASSUME NEW record, record = Archive!Current PROVE Archive!Settled(record)'
      <4>1. record.id \in DOMAIN r2' /\ record.revision <= r2'[record.id].revision
        BY <1>11, <2>3, <3>2, SaveRecordStep
      <4> QED
        BY <4>1 DEF Archive!Settled, Archive!Has
    <3> QED
      BY <1>7, <3>1, <3>2
  <2> QED
    BY <2>2, <2>3
<1> QED
  BY <1>5, <1>9, <1>10, <1>11

\* And so does every step.
LEMMA ProgressStep ==
  ASSUME Archive!FilesInv, Archive!RowsInv, Archive!ScriptInv, Archive!ProgressInv, Archive!Next
  PROVE  Archive!ProgressInv'
<1>1. Archive!FilesInv' /\ Grows /\ Archive!RowsInv' /\ RowsMove
  BY FilesStep, RowsStep
<1>2. ASSUME UNCHANGED <<r6, r10>>, r9' => r9 PROVE Archive!ProgressInv'
  <2>1. CASE Converts
    <3>1. \A i, j : Archive!Passed(i, j)' => Archive!Passed(i, j)
      BY <1>2 DEF Archive!Passed
    <3> QED
      BY <1>1, <1>2, <2>1, <3>1, ProgressGoesOn
  <2>2. CASE ~ Converts
    BY <1>2, <2>2 DEF Archive!ProgressInv, Converts
  <2> QED
    BY <2>1, <2>2
<1>3. ASSUME ~ Converts' \/ r10' PROVE Archive!ProgressInv'
  BY <1>3 DEF Archive!ProgressInv, Converts
<1>4. DOMAIN r6 = Fields /\ (r9 => r6.pc \in {"record", "existing", "save", "exit"})
  BY <1>1, ScriptNumbers DEF Archive!ScriptInv
<1>5. CASE Archive!EndOfFile \/ Archive!GetTrace \/ Archive!GetTraceContext \/ Archive!SaveRecord
  BY <1>5, ProgressStepScript
<1>6. CASE \/ Archive!Return \/ (\E k : Archive!Persist(k)) \/ (\E path, content : Archive!WriteJsonArtifact(path, content))
           \/ (\E source : Archive!Open(source)) \/ Archive!Page
  <2>1. r6' = r6 /\ r10' = r10
    BY <1>6 DEF Archive!Return, Archive!Persist, Archive!WriteJsonArtifact, Archive!Open, Archive!Page
  <2>2. r9' = r9 \/ r9' = FALSE
    BY <1>6 DEF Archive!Return, Archive!Persist, Archive!WriteJsonArtifact, Archive!Open, Archive!Page
  <2> QED
    BY <1>2, <2>1, <2>2
<1>7. ASSUME NEW selection, NEW convert, Archive!Call(selection, convert) PROVE Archive!ProgressInv'
  <2>1. ~ r9'
    BY <1>4, <1>7 DEF Archive!Call
  <2>2. r6'.pc \in {"exit", "files"}
    <3>1. \/ r6' = [r6 EXCEPT !.failed = {Archive!Failure("database", None)}, !.pc = "exit"]
          \/ r6' = [Archive!Idle EXCEPT !.pc = "files", !.todo = selection, !.convert = convert,
                                        !.started = r6.started]
      BY <1>7 DEF Archive!Call
    <3> QED
      BY <1>4, <3>1 DEF Archive!Idle, Fields
  <2> QED
    BY <1>3, <2>1, <2>2 DEF Converts
<1>8. ASSUME Archive!SkipFile \/ \E content : Archive!ImportFile(content) PROVE Archive!ProgressInv'
  <2>1. r6.pc = "files"
    BY <1>8 DEF Archive!SkipFile, Archive!ImportFile
  <2>2. PICK next : next = Archive!NextFile
    OBVIOUS
  <2>3. DOMAIN next = Fields /\ next.pc = "files"
    BY <2>1, <2>2, NextFileIs
  <2>4. PICK failure : failure = Archive!Failure("file", None)
    OBVIOUS
  <2>5. r6' = next \/ r6' = [next EXCEPT !.failed = @ \cup {failure}]
    BY <1>8, <2>2, <2>4, Zenon DEF Archive!SkipFile, Archive!ImportFile
  <2>6. r6'.pc = "files"
    BY <2>3, <2>5 DEF Fields
  <2> QED
    BY <1>3, <2>6 DEF Converts
<1>9. CASE Archive!Convert
  <2>1. CASE ~ r6.convert
    <3>1. r6' = [r6 EXCEPT !.pc = "exit"] /\ r9' = r6.convert
      BY <1>9, <2>1 DEF Archive!Convert
    <3>2. r6'.pc = "exit" /\ ~ r9'
      BY <1>4, <2>1, <3>1 DEF Fields
    <3> QED
      BY <1>3, <3>2 DEF Converts
  <2>2. CASE r6.convert
    <3>1. r6' = [r6 EXCEPT !.pc = "record", !.upto = Len(r3), !.file = 1, !.record = 1] /\ r3' = r3
      BY <1>9, <2>2 DEF Archive!Convert
    <3>2. r6'.file = 1 /\ r6'.record = 1 /\ r6'.upto = Len(r3)
      BY <1>4, <3>1 DEF Fields
    <3>3. Len(r3) \in Nat /\ DOMAIN r3 = 1 .. Len(r3)
      BY <1>1, ScriptNumbers
    <3>4. ASSUME NEW i \in 1 .. r6'.upto, NEW j \in DOMAIN r3'[i].content.records PROVE ~ Archive!Passed(i, j)'
      <4>1. i \in DOMAIN r3 /\ r3'[i] = r3[i]
        BY <3>1, <3>2, <3>3
      <4>2. r3[i].content.records \in Seq(Archive!Known)
        BY <4>1, ArchivedRecords
      <4>3. j \in Nat /\ j >= 1 /\ i \in Nat /\ i >= 1
        BY <3>2, <3>3, <4>1, <4>2
      <4> QED
        BY <3>2, <4>3 DEF Archive!Passed
    <3> QED
      BY <3>4, Zenon DEF Archive!ProgressInv
  <2> QED
    BY <2>1, <2>2
<1>10. CASE Archive!DatabaseFails
  <2>1. r10' = TRUE
    BY <1>10 DEF Archive!DatabaseFails
  <2> QED
    BY <1>3, <2>1
<1>11. CASE Archive!Finish
  <2>1. r6.pc = "record" /\ r6' = [r6 EXCEPT !.pc = "exit"] /\ r9' = r9 /\ r10' = r10
    BY <1>11 DEF Archive!Finish
  <2>2. UNCHANGED <<r6.upto, r6.file, r6.record>>
    BY <1>4, <2>1 DEF Fields
  <2>3. \A i, j : Archive!Passed(i, j)' => Archive!Passed(i, j)
    BY <2>2 DEF Archive!Passed
  <2>4. Converts
    BY <2>1 DEF Converts
  <2> QED
    BY <1>1, <2>1, <2>2, <2>3, <2>4, ProgressGoesOn
<1>12. CASE Archive!Exit
  <2>1. r6' = [Archive!Idle EXCEPT !.started = r6.started + 1]
    BY <1>12 DEF Archive!Exit
  <2>2. r6'.pc = "idle"
    BY <2>1 DEF Archive!Idle
  <2> QED
    BY <1>3, <2>2 DEF Converts
<1>13. \/ Archive!EndOfFile \/ Archive!GetTrace \/ Archive!GetTraceContext \/ Archive!SaveRecord
       \/ Archive!Return \/ (\E k : Archive!Persist(k)) \/ (\E path, content : Archive!WriteJsonArtifact(path, content))
       \/ (\E source : Archive!Open(source)) \/ Archive!Page
       \/ (\E selection, convert : Archive!Call(selection, convert))
       \/ Archive!SkipFile \/ (\E content : Archive!ImportFile(content))
       \/ Archive!Convert \/ Archive!DatabaseFails \/ Archive!Finish \/ Archive!Exit
  BY Zenon DEF Archive!Next
<1> QED
  BY <1>5, <1>6, <1>7, <1>8, <1>9, <1>10, <1>11, <1>12, <1>13

\* Copies are added behind those there are.
LEMMA CopiesGrow ==
  ASSUME Archive!FilesInv, Archive!FilesInv', Archive!ScriptInv, Grows, NEW id
  PROVE  /\ Archive!Copies(id) \subseteq Archive!Copies(id)' /\ Archive!Copies(id) \subseteq DOMAIN r3
         /\ \A k \in Archive!Copies(id)' : k \in Archive!Copies(id) \/ \A i \in DOMAIN r3 : i <= k
<1>1. DOMAIN r3 = 1 .. Len(r3) /\ Len(r3) \in Nat
  BY ScriptNumbers
<1>2. r3' \in Seq({r3'[i] : i \in DOMAIN r3'})
  BY DEF Archive!FilesInv
<1>3. DOMAIN r3' = 1 .. Len(r3') /\ Len(r3') \in Nat
  BY <1>2
<1>4. \A i \in DOMAIN r3 : i \in DOMAIN r3' /\ r3'[i] = r3[i]
  BY DEF Grows
<1>5. Archive!Copies(id) \subseteq Archive!Copies(id)' /\ Archive!Copies(id) \subseteq DOMAIN r3
  BY <1>4 DEF Archive!Copies
<1>6. ASSUME NEW k \in Archive!Copies(id)', k \in DOMAIN r3 PROVE k \in Archive!Copies(id)
  BY <1>4, <1>6 DEF Archive!Copies
<1>7. \A k \in Archive!Copies(id)' : k \in DOMAIN r3'
  BY DEF Archive!Copies
<1>8. \A k \in DOMAIN r3' : k \in DOMAIN r3 \/ \A i \in DOMAIN r3 : i <= k
  BY <1>1, <1>3
<1> QED
  BY <1>5, <1>6, <1>7, <1>8

\* No legacy run is saved: the dates stay.
LEMMA DatesKept ==
  ASSUME Archive!FilesInv, Archive!FilesInv', Archive!ScriptInv, Archive!DatesInv, Grows, r10 => r10',
         \A id \in DOMAIN r2' : r2'[id].text = "legacy" => id \in DOMAIN r2 /\ r2'[id] = r2[id]
  PROVE  Archive!DatesInv'
<1>1. ASSUME ~ r10', NEW id \in DOMAIN r2', r2'[id].text = "legacy"
      PROVE  \E i \in Archive!Copies(id)' :
               /\ \A k \in Archive!Copies(id)' : i <= k
               /\ \E j \in DOMAIN r3'[i].content.records :
                    /\ Archive!IsOf(r3'[i].content.records[j], id)
                    /\ r2'[id].updated = Archive!Dated(r3'[i].content.records[j], None, r3'[i]).updated
  <2>1. id \in DOMAIN r2 /\ r2'[id] = r2[id] /\ ~ r10
    BY <1>1
  <2>2. PICK i \in Archive!Copies(id) :
               /\ \A k \in Archive!Copies(id) : i <= k
               /\ \E j \in DOMAIN r3[i].content.records :
                    /\ Archive!IsOf(r3[i].content.records[j], id)
                    /\ r2[id].updated = Archive!Dated(r3[i].content.records[j], None, r3[i]).updated
    BY <1>1, <2>1 DEF Archive!DatesInv
  <2>3. i \in Archive!Copies(id)' /\ i \in DOMAIN r3 /\ \A k \in Archive!Copies(id)' : i <= k
    BY <2>2, CopiesGrow
  <2>4. r3'[i] = r3[i]
    BY <2>3 DEF Grows
  <2> QED
    BY <2>1, <2>2, <2>3, <2>4
<1>2. r10' \/ \A id \in DOMAIN r2' : r2'[id].text = "legacy" =>
               \E i \in Archive!Copies(id)' :
               /\ \A k \in Archive!Copies(id)' : i <= k
               /\ \E j \in DOMAIN r3'[i].content.records :
                    /\ Archive!IsOf(r3'[i].content.records[j], id)
                    /\ r2'[id].updated = Archive!Dated(r3'[i].content.records[j], None, r3'[i]).updated
  BY <1>1
<1> QED
  BY <1>2, Zenon DEF Archive!DatesInv

\* A legacy run is saved for the first time, from its first copy: an earlier
\* one that could be converted has been passed, and would have been saved.
LEMMA FirstCopy ==
  ASSUME Archive!FilesInv, Archive!RowsInv, Archive!ScriptInv, Archive!ProgressInv, ~ r10, r6.pc = "save",
         Archive!Current.kind = "legacy",
         NEW id, id = Archive!Current.id
  PROVE  /\ r6.file \in Archive!Copies(id) /\ \A k \in Archive!Copies(id) : r6.file <= k
         /\ r6.record \in DOMAIN r3[r6.file].content.records
         /\ Archive!IsOf(r3[r6.file].content.records[r6.record], id)
         /\ Archive!Incoming = Archive!Dated(r3[r6.file].content.records[r6.record], None, r3[r6.file])
<1>1. ~ Archive!Has(id)
  BY LegacyIsAccepted
<1>2. /\ r6.file \in DOMAIN r3 /\ r6.record \in DOMAIN r3[r6.file].content.records
      /\ Archive!Current \in Archive!Known
  BY RecordAtHand
<1>3. id # ArchiveRun
  BY <1>2, KnownRecords DEF Archive!Traces
<1>4. r6.existing = None
  BY <1>1, <1>3 DEF Archive!ScriptInv, Archive!Undisturbed
<1>5. r3[r6.file] = Archive!Archived /\ r3[r6.file].content.records[r6.record] = Archive!Current
  BY DEF Archive!Current, Archive!Archived
<1>6. Archive!IsOf(r3[r6.file].content.records[r6.record], id)
  BY <1>5 DEF Archive!IsOf
<1>7. ~ Archive!Splits(r3[r6.file].content)
  BY <1>5 DEF Archive!ScriptInv
<1>8. r6.file \in Archive!Copies(id)
  BY <1>2, <1>6, <1>7 DEF Archive!Copies
<1>9. ASSUME NEW k \in Archive!Copies(id), k < r6.file PROVE FALSE
  <2>1. k \in DOMAIN r3 /\ ~ Archive!Splits(r3[k].content)
    BY DEF Archive!Copies
  <2>2. PICK j \in DOMAIN r3[k].content.records : Archive!IsOf(r3[k].content.records[j], id)
    BY DEF Archive!Copies
  <2>3. PICK record : record = r3[k].content.records[j]
    OBVIOUS
  <2>4. record.kind = "legacy" /\ record.id = id
    BY <2>2, <2>3 DEF Archive!IsOf
  <2>5. k \in 1 .. r6.upto
    <3>1. r3 \in Seq({r3[i] : i \in DOMAIN r3})
      BY DEF Archive!FilesInv
    <3>2. r6.file <= r6.upto /\ r6.upto \in 0 .. Len(r3) /\ r6.file \in Nat
      BY DEF Archive!ScriptInv
    <3>3. Len(r3) \in Nat /\ DOMAIN r3 = 1 .. Len(r3)
      BY <3>1
    <3> QED
      BY <1>9, <2>1, <3>2, <3>3
  <2>6. Archive!Undisturbed(record) /\ record.kind \in Archive!Traces
    BY <1>3, <2>4 DEF Archive!Undisturbed, Archive!Traces
  <2>7. Archive!Passed(k, j)
    BY <1>9 DEF Archive!Passed
  <2>8. Archive!Settled(record)
    BY <2>1, <2>3, <2>5, <2>6, <2>7 DEF Archive!ProgressInv
  <2> QED
    BY <1>1, <2>4, <2>8 DEF Archive!Settled
<1>10. \A k \in Archive!Copies(id) : r6.file <= k
  <2>1. \A k \in Archive!Copies(id) : k \in DOMAIN r3
    BY DEF Archive!Copies
  <2>2. r3 \in Seq({r3[i] : i \in DOMAIN r3})
    BY DEF Archive!FilesInv
  <2>3. DOMAIN r3 = 1 .. Len(r3) /\ Len(r3) \in Nat
    BY <2>2
  <2> QED
    BY <1>2, <1>9, <2>1, <2>3
<1>11. Archive!Incoming = Archive!Dated(r3[r6.file].content.records[r6.record], None, r3[r6.file])
  BY <1>4, <1>5, Zenon DEF Archive!Incoming
<1> QED
  BY <1>2, <1>6, <1>8, <1>10, <1>11

\* The dates are kept by the saves of the script.
LEMMA DatesStepSave ==
  ASSUME Archive!FilesInv, Archive!FilesInv', Archive!RowsInv, Archive!ScriptInv, Archive!ProgressInv,
         Archive!DatesInv, Grows, Archive!SaveRecord
  PROVE  Archive!DatesInv'
<1>1. r6.pc = "save" /\ r3' = r3 /\ r10' = r10
  BY DEF Archive!SaveRecord
<1>2. CASE Archive!Conflicts(Archive!Incoming, r6.source) \/ Archive!IsOld(Archive!Incoming)
  <2>1. r2' = r2
    BY <1>2 DEF Archive!SaveRecord, Archive!SaveTrace
  <2> QED
    BY <1>1, <2>1, DatesKept
<1>3. CASE ~ Archive!Conflicts(Archive!Incoming, r6.source) /\ ~ Archive!IsOld(Archive!Incoming)
  <2>1. PICK trace : trace = Archive!Incoming
    OBVIOUS
  <2>2. PICK record : record = Archive!Current
    OBVIOUS
  <2>3. /\ trace.id = record.id /\ trace.text = record.text
        /\ record \in Archive!Known /\ record.kind \in Archive!Traces
    BY <1>1, <2>1, <2>2, RecordAtHand
  <2>4. Archive!Put(trace, r6.source)
    BY <1>3, <2>1, Zenon DEF Archive!SaveRecord, Archive!SaveTrace
  <2>5. /\ \A id \in DOMAIN r2' : id # record.id => id \in DOMAIN r2 /\ r2'[id] = r2[id]
        /\ record.id \in DOMAIN r2'
        /\ r2'[record.id].text = record.text /\ r2'[record.id].updated = trace.updated
    BY <2>3, <2>4 DEF Archive!Put
  <2>6. CASE record.kind # "legacy"
    <3>1. record.text # "legacy"
      BY <2>3, <2>6, KnownRecords
    <3> QED
      BY <1>1, <2>5, <3>1, DatesKept
  <2>7. CASE record.kind = "legacy" /\ ~ r10
    <3>1. PICK x : x = record.id
      OBVIOUS
    <3>2. PICK f, g : f = r6.file /\ g = r6.record
      OBVIOUS
    <3>3. /\ f \in Archive!Copies(x) /\ \A k \in Archive!Copies(x) : f <= k
          /\ g \in DOMAIN r3[f].content.records
          /\ Archive!IsOf(r3[f].content.records[g], x)
          /\ trace = Archive!Dated(r3[f].content.records[g], None, r3[f])
      BY <1>1, <2>1, <2>2, <2>7, <3>1, <3>2, FirstCopy
    <3>4. \A id : Archive!Copies(id)' = Archive!Copies(id)
      BY <1>1 DEF Archive!Copies
    <3>5. ASSUME NEW id \in DOMAIN r2', r2'[id].text = "legacy"
          PROVE  \E i \in Archive!Copies(id)' :
                   /\ \A k \in Archive!Copies(id)' : i <= k
                   /\ \E j \in DOMAIN r3'[i].content.records :
                        /\ Archive!IsOf(r3'[i].content.records[j], id)
                        /\ r2'[id].updated = Archive!Dated(r3'[i].content.records[j], None, r3'[i]).updated
      <4>1. CASE id = x
        <5>1. r2'[id].updated = trace.updated
          BY <2>5, <3>1, <4>1
        <5> QED
          BY <1>1, <3>3, <3>4, <4>1, <5>1
      <4>2. CASE id # x
        <5>1. id \in DOMAIN r2 /\ r2'[id] = r2[id]
          BY <2>5, <3>1, <4>2
        <5>2. \E i \in Archive!Copies(id) :
                   /\ \A k \in Archive!Copies(id) : i <= k
                   /\ \E j \in DOMAIN r3[i].content.records :
                        /\ Archive!IsOf(r3[i].content.records[j], id)
                        /\ r2[id].updated = Archive!Dated(r3[i].content.records[j], None, r3[i]).updated
          BY <2>7, <3>5, <5>1 DEF Archive!DatesInv
        <5> QED
          BY <1>1, <3>4, <5>1, <5>2, Zenon
      <4> QED
        BY <4>1, <4>2
    <3> QED
      BY <3>5, Zenon DEF Archive!DatesInv
  <2>8. CASE r10
    BY <1>1, <2>8 DEF Archive!DatesInv
  <2> QED
    BY <2>6, <2>7, <2>8
<1> QED
  BY <1>2, <1>3

\* A save of Run is no legacy run.
LEMMA DatesStepPersist ==
  ASSUME Archive!FilesInv, Archive!FilesInv', Archive!RowsInv, Archive!ScriptInv, Archive!DatesInv, Grows,
         NEW k \in DOMAIN r5, Archive!Persist(k)
  PROVE  Archive!DatesInv'
<1>1. r10' = r10 /\ RowsMove /\ \A id \in DOMAIN r2' : id # ArchiveRun => id \in DOMAIN r2 /\ r2'[id] = r2[id]
  BY PersistStep DEF Archive!Persist
<1>2. ASSUME ArchiveRun \in DOMAIN r2', r2'[ArchiveRun].text = "legacy" PROVE FALSE
  <2>1. CASE ArchiveRun \in DOMAIN r2
    <3>1. r2[ArchiveRun].text = "legacy"
      BY <1>1, <1>2, <2>1 DEF RowsMove
    <3>2. PICK record \in Archive!Known :
            record.kind \in Archive!Traces /\ record.id = ArchiveRun /\ record.text = r2[ArchiveRun].text
      BY <2>1 DEF Archive!RowsInv
    <3>3. record.text = "own"
      BY <3>2, KnownRecords
    <3> QED
      BY <3>1, <3>2, <3>3
  <2>2. CASE ArchiveRun \notin DOMAIN r2
    <3>1. PICK trace : trace = Archive!Snapshot(k, "server")
      OBVIOUS
    <3>2. trace.id = ArchiveRun /\ trace.text = "own"
      BY <3>1 DEF Archive!Snapshot, Archive!Native
    <3>3. Archive!SaveTrace(trace, "server")
      BY <3>1 DEF Archive!Persist
    <3>4. ~ Archive!IsOld(trace)
      BY <2>2, <3>2 DEF Archive!IsOld, Archive!Has
    <3>5. Archive!Put(trace, "server")
      BY <3>3, <3>4 DEF Archive!SaveTrace
    <3>6. r2'[ArchiveRun].text = "own"
      BY <1>2, <3>2, <3>5 DEF Archive!Put
    <3> QED
      BY <1>2, <3>6
  <2> QED
    BY <2>1, <2>2
<1> QED
  BY <1>1, <1>2, DatesKept

\* So the dates are kept by every step.
LEMMA DatesStep ==
  ASSUME Archive!FilesInv, Archive!RowsInv, Archive!ScriptInv, Archive!ProgressInv, Archive!DatesInv, Archive!Next
  PROVE  Archive!DatesInv'
<1>1. Archive!FilesInv' /\ Grows
  BY FilesStep
<1>2. ASSUME NEW k \in DOMAIN r5, Archive!Persist(k) PROVE Archive!DatesInv'
  BY <1>1, <1>2, DatesStepPersist
<1>3. CASE Archive!SaveRecord
  BY <1>1, <1>3, DatesStepSave
<1>4. CASE r2' = r2 /\ (r10' = r10 \/ r10' = TRUE)
  BY <1>1, <1>4, DatesKept
<1>5. \/ r2' = r2 /\ (r10' = r10 \/ r10' = TRUE)
      \/ \E k \in DOMAIN r5 : Archive!Persist(k)
      \/ Archive!SaveRecord
  BY DEF Archive!Next, Archive!Return, Archive!WriteJsonArtifact, Archive!ImportFile, Archive!Call, Archive!SkipFile,
     Archive!Convert, Archive!EndOfFile, Archive!GetTrace, Archive!GetTraceContext, Archive!DatabaseFails,
     Archive!Finish, Archive!Exit, Archive!Open, Archive!Page
<1> QED
  BY <1>2, <1>3, <1>4, <1>5

\* A bare copy in the archive stays there.
LEMMA BareCopiesStay == ASSUME Grows PROVE Archive!BareCopies \subseteq Archive!BareCopies'
<1> SUFFICES ASSUME NEW i \in Archive!BareCopies PROVE i \in Archive!BareCopies'
  OBVIOUS
<1>1. PICK j \in DOMAIN r3[i].content.records :
        \E k \in DOMAIN r5 : r3[i].content.records[j] = Archive!Snapshot(k, None)
  BY DEF Archive!BareCopies
<1>2. PICK k \in DOMAIN r5 : r3[i].content.records[j] = Archive!Snapshot(k, None)
  BY <1>1
<1>3. i \in DOMAIN r3' /\ r3'[i] = r3[i] /\ k \in DOMAIN r5' /\ r5'[k] = r5[k]
  BY DEF Grows, Archive!BareCopies
<1>4. Archive!Snapshot(k, None)' = Archive!Snapshot(k, None)
  BY <1>3 DEF Archive!Snapshot
<1> QED
  BY <1>1, <1>2, <1>3, <1>4 DEF Archive!BareCopies

\* The record at hand stays where it is.
LEMMA CurrentStays ==
  ASSUME Archive!FilesInv, Archive!RowsInv, Archive!ScriptInv, Grows, r6' = r6, r6.pc = "save"
  PROVE  Archive!Current' = Archive!Current
<1>1. r6.file \in DOMAIN r3
  BY RecordAtHand
<1>2. r3'[r6.file] = r3[r6.file]
  BY <1>1 DEF Grows
<1> QED
  BY <1>2 DEF Archive!Current, Archive!Archived

\* The script is about to save what it was, or what it has just looked up.
LEMMA ScriptSaves ==
  ASSUME Archive!Next, DOMAIN r6 = DOMAIN Archive!Idle, r6'.pc = "save"
  PROVE  \/ r6' = r6
         \/ /\ Archive!GetTraceContext
            /\ r6' = [r6 EXCEPT !.pc = "save", !.source = Archive!SourceOf(Archive!Current)]
<1>1. DOMAIN r6 = Fields
  BY DEF Archive!Idle, Fields
<1>2. /\ Archive!NextFile.pc = r6.pc /\ Archive!NextRecord.pc = "record"
      /\ \A why : Archive!Failed(why).pc = "record"
      /\ Archive!Idle.pc = "idle"
  BY <1>1 DEF Archive!NextFile, Archive!NextRecord, Archive!Failed, Archive!Idle, Fields
<1>3. CASE Archive!GetTraceContext
  BY <1>2, <1>3 DEF Archive!GetTraceContext
<1>4. CASE Archive!SaveRecord \/ Archive!DatabaseFails \/ Archive!GetTrace
  <2>1. r6'.pc \in {"record", "existing", "files"}
    BY <1>1, <1>2, <1>4 DEF Archive!SaveRecord, Archive!DatabaseFails, Archive!GetTrace, Archive!NextFile, Fields
  <2> QED
    BY <2>1
<1>5. CASE \/ \E selection, convert : Archive!Call(selection, convert)
           \/ Archive!SkipFile
           \/ \E content : Archive!ImportFile(content)
           \/ Archive!Convert \/ Archive!Finish \/ Archive!Exit \/ Archive!EndOfFile
  BY <1>1, <1>2, <1>5 DEF Archive!Call, Archive!SkipFile, Archive!ImportFile, Archive!Convert, Archive!Finish,
     Archive!Exit, Archive!EndOfFile, Archive!NextFile, Archive!Idle, Fields
<1>6. CASE \/ Archive!Return \/ (\E path, content : Archive!WriteJsonArtifact(path, content))
           \/ (\E source : Archive!Open(source)) \/ Archive!Page
           \/ \E k \in DOMAIN r5 : Archive!Persist(k)
  BY <1>6 DEF Archive!Return, Archive!WriteJsonArtifact, Archive!Open, Archive!Page, Archive!Persist
<1> QED
  BY <1>3, <1>4, <1>5, <1>6, Zenon DEF Archive!Next

\* The source under which the script is about to save a copy of Run.
LEMMA SourceIsKnown ==
  ASSUME Archive!FilesInv, Archive!RowsInv, Archive!ScriptInv, Archive!SourceInv,
         r6.pc = "existing", Archive!Current.id = ArchiveRun
  PROVE  \/ Archive!SourceOf(Archive!Current) = "server"
         \/ Archive!SourceOf(Archive!Current) = "legacy_import" /\ Archive!BareCopies # {}
<1>1. PICK record : record = Archive!Current
  OBVIOUS
<1>2. /\ r6.file \in DOMAIN r3 /\ r6.record \in DOMAIN r3[r6.file].content.records
      /\ record \in Archive!Known /\ record.kind \in Archive!Traces /\ record.id = ArchiveRun
  BY <1>1, RecordAtHand
<1>3. /\ record.revision \in DOMAIN r5
      /\ record.context # None => record.context = "server"
      /\ record.context = None => record = Archive!Snapshot(record.revision, None)
  BY <1>2, KnownRecords
<1>4. record.context # None => Archive!SourceOf(record) = "server"
  BY <1>3 DEF Archive!SourceOf
<1>5. ASSUME record.context = None
      PROVE  /\ Archive!BareCopies # {}
             /\ Archive!SourceOf(record) =
                  IF ArchiveRun \in DOMAIN r2 THEN r2[ArchiveRun].source ELSE "legacy_import"
  <2>1. record = Archive!Snapshot(record.revision, None)
    BY <1>3, <1>5
  <2>2. r3[r6.file].content.records[r6.record] = record
    BY <1>1 DEF Archive!Current, Archive!Archived
  <2>3. r6.file \in Archive!BareCopies
    BY <1>2, <1>3, <2>1, <2>2 DEF Archive!BareCopies
  <2> QED
    BY <1>2, <1>5, <2>3 DEF Archive!SourceOf, Archive!Has
<1>6. ArchiveRun \in DOMAIN r2 => \/ r2[ArchiveRun].source = "server"
                                  \/ r2[ArchiveRun].source = "legacy_import"
  BY DEF Archive!SourceInv, Archive!Has
<1> QED
  BY <1>1, <1>4, <1>5, <1>6

\* A row of Run that is new has the source it is saved with.
LEMMA RunSource ==
  ASSUME Archive!FilesInv, Archive!RowsInv, Archive!ScriptInv, Archive!SourceInv, Archive!Next,
         ArchiveRun \in DOMAIN r2'
  PROVE  \/ r2'[ArchiveRun].source = "server"
         \/ r2'[ArchiveRun].source = "legacy_import" /\ Archive!BareCopies # {}
<1>1. RowsMove
  BY RowsStep
<1>2. CASE ArchiveRun \in DOMAIN r2
  BY <1>1, <1>2 DEF RowsMove, Archive!SourceInv, Archive!Has
<1>3. CASE ArchiveRun \notin DOMAIN r2
  <2>1. ASSUME NEW k \in DOMAIN r5, Archive!Persist(k) PROVE r2'[ArchiveRun].source = "server"
    <3>1. Archive!SaveTrace(Archive!Snapshot(k, "server"), "server")
      BY <2>1 DEF Archive!Persist
    <3>2. PICK trace : trace = Archive!Snapshot(k, "server")
      OBVIOUS
    <3>3. trace.id = ArchiveRun
      BY <3>2 DEF Archive!Snapshot, Archive!Native
    <3>4. Archive!Put(trace, "server")
      BY <1>3, <3>1, <3>2, <3>3 DEF Archive!SaveTrace, Archive!IsOld, Archive!Has
    <3> QED
      BY <3>3, <3>4 DEF Archive!Put
  <2>2. ASSUME Archive!SaveRecord PROVE Archive!Current.id = ArchiveRun /\ r2'[ArchiveRun].source = r6.source
    <3>1. /\ r6.pc = "save"
          /\ \A id \in DOMAIN r2' : id # Archive!Current.id => id \in DOMAIN r2
      BY <2>2, SaveRecordStep DEF Archive!SaveRecord
    <3>2. Archive!Current.id = ArchiveRun
      BY <1>3, <3>1
    <3>3. PICK trace : trace = Archive!Incoming
      OBVIOUS
    <3>4. trace.id = ArchiveRun
      BY <3>1, <3>2, <3>3, RecordAtHand
    <3>5. Archive!SaveTrace(trace, r6.source)
      BY <1>3, <2>2, <3>3 DEF Archive!SaveRecord
    <3>6. Archive!Put(trace, r6.source)
      BY <1>3, <3>4, <3>5 DEF Archive!SaveTrace, Archive!IsOld, Archive!Has
    <3> QED
      BY <3>2, <3>4, <3>6 DEF Archive!Put
  <2>3. Archive!SaveRecord => r6.pc = "save"
    BY DEF Archive!SaveRecord
  <2>4. \/ r2' = r2
        \/ \E k \in DOMAIN r5 : Archive!Persist(k)
        \/ Archive!SaveRecord
    BY DEF Archive!Next, Archive!Return, Archive!WriteJsonArtifact, Archive!ImportFile, Archive!Call,
       Archive!SkipFile, Archive!Convert, Archive!EndOfFile, Archive!GetTrace, Archive!GetTraceContext,
       Archive!DatabaseFails, Archive!Finish, Archive!Exit, Archive!Open, Archive!Page
  <2> QED
    BY <1>3, <2>1, <2>2, <2>3, <2>4 DEF Archive!SourceInv
<1> QED
  BY <1>2, <1>3

\* So the source of Run is kept by every step.
LEMMA SourceStep ==
  ASSUME Archive!FilesInv, Archive!RowsInv, Archive!ScriptInv, Archive!SourceInv, Archive!Next
  PROVE  Archive!SourceInv'
<1>1. Grows /\ Archive!BareCopies \subseteq Archive!BareCopies'
  BY FilesStep, BareCopiesStay
<1>2. Archive!Has(ArchiveRun)' => \/ r2'[ArchiveRun].source = "server"
                                  \/ r2'[ArchiveRun].source = "legacy_import" /\ Archive!BareCopies' # {}
  BY <1>1, RunSource DEF Archive!Has
<1>3. ASSUME r6'.pc = "save", Archive!Current'.id = ArchiveRun
      PROVE  \/ r6'.source = "server"
             \/ r6'.source = "legacy_import" /\ Archive!BareCopies # {}
  <2>1. \/ r6' = r6
        \/ Archive!GetTraceContext /\ r6' = [r6 EXCEPT !.pc = "save", !.source = Archive!SourceOf(Archive!Current)]
    <3>1. DOMAIN r6 = DOMAIN Archive!Idle
      BY DEF Archive!ScriptInv
    <3> QED
      BY <1>3, <3>1, ScriptSaves
  <2>2. CASE r6' = r6
    BY <1>1, <1>3, <2>2, CurrentStays DEF Archive!SourceInv
  <2>3. CASE Archive!GetTraceContext /\ r6' = [r6 EXCEPT !.pc = "save", !.source = Archive!SourceOf(Archive!Current)]
    <3>1. r6.pc = "existing" /\ UNCHANGED r3
      BY <2>3 DEF Archive!GetTraceContext
    <3>2. "source" \in DOMAIN r6
      BY DEF Archive!ScriptInv, Archive!Idle
    <3>3. r6'.source = Archive!SourceOf(Archive!Current) /\ r6'.file = r6.file /\ r6'.record = r6.record
      BY <2>3, <3>2
    <3>4. Archive!Current' = Archive!Current
      BY <3>1, <3>3 DEF Archive!Current, Archive!Archived
    <3> QED
      BY <1>3, <3>1, <3>3, <3>4, SourceIsKnown
  <2> QED
    BY <2>1, <2>2, <2>3
<1> QED
  BY <1>1, <1>2, <1>3 DEF Archive!SourceInv

\* At first there are neither files nor rows.
LEMMA ArchiveInit == part = "archive" /\ Init => Archive!ArchiveInv
<1> SUFFICES ASSUME part = "archive", Init PROVE Archive!ArchiveInv
  OBVIOUS
<1>1. /\ r11 \in ArchiveSettings /\ r2 = [id \in {} |-> None] /\ r3 = <<>> /\ r4 = 1 /\ r5 = <<>>
      /\ r6 = Archive!Idle /\ r7 = Archive!NotReading /\ r8 = {} /\ r9 = FALSE /\ r10 = FALSE
  BY DEF Init, Archive!Init
<1>2. DOMAIN r2 = {} /\ DOMAIN r3 = {} /\ DOMAIN r5 = {} /\ Len(r3) = 0
  BY <1>1
<1>3. Archive!FilesInv
  <2>1. r5 \in Seq(Nat) /\ r3 \in Seq({r3[i] : i \in DOMAIN r3}) /\ r4 \in Nat
    BY <1>1
  <2> QED
    BY <1>1, <1>2, <2>1 DEF Archive!FilesInv
<1>4. Archive!RowsInv
  BY <1>2 DEF Archive!RowsInv
<1>5. /\ r6.pc = "idle" /\ r6.upto = 0 /\ r6.file = 0 /\ r6.record = 0 /\ r6.failed = {}
      /\ DOMAIN r6 = DOMAIN Archive!Idle
  BY <1>1 DEF Archive!Idle
<1>6. Archive!ScriptInv
  <2>1. 0 \in 0 .. 0
    OBVIOUS
  <2> QED
    BY <1>1, <1>2, <1>5, <2>1 DEF Archive!ScriptInv
<1>7. Archive!ProgressInv
  BY <1>5 DEF Archive!ProgressInv
<1>8. Archive!DatesInv
  BY <1>2 DEF Archive!DatesInv
<1>9. /\ r7.pc = "idle" /\ r7.shown = <<>> /\ r7.cursor = None /\ DOMAIN r7 = DOMAIN Archive!NotReading
  BY <1>1 DEF Archive!NotReading
<1>10. Archive!PagesInv
  <2>1. <<>> \in Seq(DOMAIN r2) /\ DOMAIN <<>> = {}
    OBVIOUS
  <2> QED
    BY <1>1, <1>9, <2>1 DEF Archive!PagesInv
<1>11. Archive!SourceInv
  BY <1>2, <1>5 DEF Archive!SourceInv, Archive!Has
<1> QED
  BY <1>3, <1>4, <1>6, <1>7, <1>8, <1>10, <1>11 DEF Archive!ArchiveInv

\* Every step keeps all of it.
LEMMA ArchiveStep == Archive!ArchiveInv /\ Archive!Next => Archive!ArchiveInv'
<1> SUFFICES ASSUME Archive!FilesInv, Archive!RowsInv, Archive!ScriptInv, Archive!ProgressInv,
                    Archive!SourceInv, Archive!DatesInv, Archive!PagesInv, Archive!Next
             PROVE  Archive!ArchiveInv'
  BY DEF Archive!ArchiveInv
<1>1. Archive!FilesInv'
  BY FilesStep
<1>2. Archive!RowsInv'
  BY RowsStep
<1>3. Archive!ScriptInv'
  BY ScriptStep
<1>4. Archive!ProgressInv'
  BY ProgressStep
<1>5. Archive!DatesInv'
  BY DatesStep
<1>6. Archive!PagesInv'
  BY PagesStep
<1>7. Archive!SourceInv'
  BY SourceStep
<1> QED
  BY <1>1, <1>2, <1>3, <1>4, <1>5, <1>6, <1>7 DEF Archive!ArchiveInv

\* Without a step nothing changes.
LEMMA ArchiveStutter == Archive!ArchiveInv /\ UNCHANGED vars => Archive!ArchiveInv'
<1> SUFFICES ASSUME Archive!FilesInv, Archive!RowsInv, Archive!ScriptInv, Archive!ProgressInv,
                    Archive!SourceInv, Archive!DatesInv, Archive!PagesInv, UNCHANGED vars
             PROVE  Archive!ArchiveInv'
  BY DEF Archive!ArchiveInv
<1>1. UNCHANGED <<r2, r3, r4, r5, r6, r7, r8, r9, r10, r11>>
  BY DEF vars
<1>2. Grows
  BY <1>1 DEF Grows
<1>3. Archive!Known' = Archive!Known
  BY <1>1 DEF Archive!Known, Archive!Snapshot
<1>4. Archive!FilesInv'
  BY <1>1, <1>3 DEF Archive!FilesInv
<1>5. Archive!RowsInv' /\ RowsMove /\ FixedStay
  BY <1>1, <1>2, RowsStay
<1>6. Archive!ScriptInv'
  BY <1>1, <1>2, <1>4, ScriptKept
<1>7. Archive!ProgressInv'
  <2>1. CASE Converts
    <3>1. \A i, j : Archive!Passed(i, j)' => Archive!Passed(i, j)
      BY <1>1 DEF Archive!Passed
    <3> QED
      BY <1>1, <1>2, <1>4, <1>5, <2>1, <3>1, ProgressGoesOn
  <2>2. CASE ~ Converts
    BY <1>1, <2>2 DEF Archive!ProgressInv, Converts
  <2> QED
    BY <2>1, <2>2
<1>8. Archive!DatesInv'
  BY <1>1, <1>2, <1>4, DatesKept
<1>9. Archive!PagesInv'
  BY <1>1, <1>4, <1>5, PagesKept
<1>10. Archive!SourceInv'
  BY <1>1 DEF Archive!SourceInv, Archive!Has, Archive!BareCopies, Archive!Snapshot, Archive!Current,
     Archive!Archived
<1> QED
  BY <1>4, <1>5, <1>6, <1>7, <1>8, <1>9, <1>10 DEF Archive!ArchiveInv

\* An import that is over would find nothing to save if it were repeated.
LEMMA NothingIsUnsettled ==
  ASSUME Archive!ArchiveInv, r6.pc = "exit", r9, ~ r10
  PROVE  Archive!Unsettled(r6.upto) = {}
<1> SUFFICES ASSUME NEW i \in 1 .. r6.upto, ~ Archive!Splits(r3[i].content),
                    NEW j \in DOMAIN r3[i].content.records,
                    NEW record, record = r3[i].content.records[j],
                    NEW existing, existing = IF Archive!Has(record.id) THEN r2[record.id] ELSE None,
                    NEW trace, trace = Archive!Dated(record, existing, r3[i]),
                    record.kind \in {"native", "legacy"},
                    ~ Archive!Conflicts(trace, Archive!SourceOf(record)), ~ Archive!IsOld(trace)
             PROVE  FALSE
  BY Zenon DEF Archive!Unsettled
<1>1. Archive!FilesInv /\ Archive!RowsInv /\ Archive!ScriptInv /\ Archive!ProgressInv
  BY DEF Archive!ArchiveInv
<1>2. i \in DOMAIN r3
  <2>1. r3 \in Seq({r3[k] : k \in DOMAIN r3})
    BY <1>1 DEF Archive!FilesInv
  <2>2. r6.upto \in 0 .. Len(r3) /\ DOMAIN r3 = 1 .. Len(r3) /\ Len(r3) \in Nat
    BY <1>1, <2>1, SMTT(30) DEF Archive!ScriptInv
  <2> QED
    BY <2>2, SMTT(30)
<1>3. record \in Archive!Known /\ record.kind \in Archive!Traces /\ r3[i].at \in Nat
  BY <1>1, <1>2, ArchivedRecords DEF Archive!Traces
<1>4. Archive!Passed(i, j) /\ Archive!Undisturbed(record)
  <2>1. r6.file > r6.upto /\ r6.file \in Nat /\ r6.upto \in 0 .. Len(r3)
    BY <1>1 DEF Archive!ScriptInv
  <2>2. i < r6.file
    BY <2>1
  <2> QED
    BY <2>2 DEF Archive!Passed, Archive!Undisturbed
<1>5. Archive!Settled(record)
  BY <1>1, <1>3, <1>4, Zenon DEF Archive!ProgressInv
<1>6. record.id \in DOMAIN r2 /\ existing = r2[record.id]
  BY <1>5 DEF Archive!Settled, Archive!Has
<1>7. existing.updated \in Nat /\ existing.revision \in Nat /\ existing # None
  BY <1>1, <1>6, RowsAreRows
<1>8. trace.id = record.id /\ trace.revision = record.revision /\ trace.text = record.text
  <2>1. PICK file : file = r3[i]
    OBVIOUS
  <2>2. file.at \in Nat /\ trace = Archive!Dated(record, existing, file)
    BY <1>3, <2>1
  <2>3. existing # None => existing.updated \in Nat
    BY <1>7
  <2>4. PICK dated : dated = trace
    OBVIOUS
  <2>5. dated = Archive!Dated(record, existing, file)
    BY <2>2, <2>4
  <2>6. dated.id = record.id /\ dated.revision = record.revision /\ dated.text = record.text
    <3>1. Archive!FilesInv /\ record \in Archive!Known /\ record.kind \in Archive!Traces
      BY <1>1, <1>3
    <3>2. file.at \in Nat
      BY <2>2
    <3> QED
      BY ONLY <2>3, <2>5, <3>1, <3>2, DatedRecord
  <2> QED
    BY <2>4, <2>6
<1>9. record.revision \in Nat
  BY <1>1, <1>3, KnownRecords
<1>10. ~ (record.revision <= existing.revision)
  BY <1>6, <1>8 DEF Archive!IsOld, Archive!Has
<1>11. record.text = existing.text /\ Archive!SourceOf(record) = existing.source
  <2>1. record.revision > existing.revision
    BY ONLY <1>7, <1>9, <1>10
  <2>2. trace.id \in DOMAIN r2 /\ existing = r2[trace.id]
    BY <1>6, <1>8
  <2>3. /\ Archive!SourceOf(record) = existing.source
        /\ ~ (trace.revision > existing.revision /\ trace.text # existing.text)
    BY <2>2, Zenon DEF Archive!Conflicts, Archive!Has
  <2> QED
    BY <1>8, <2>1, <2>3
<1>12. record.context \in {None, existing.source}
  BY <1>11 DEF Archive!SourceOf
<1> QED
  BY <1>5, <1>6, <1>10, <1>11, <1>12 DEF Archive!Settled

\* The invariant says that the history is kept.
LEMMA ArchiveKept == Archive!ArchiveInv => Archive!HistoryIsKept
<1> SUFFICES ASSUME Archive!ArchiveInv PROVE Archive!HistoryIsKept
  OBVIOUS
<1>1. /\ Archive!FilesInv /\ Archive!RowsInv /\ Archive!ScriptInv /\ Archive!ProgressInv
      /\ Archive!SourceInv /\ Archive!DatesInv /\ Archive!PagesInv
  BY DEF Archive!ArchiveInv
<1>2. Archive!ImportsAreRepeatable
  BY <1>1, NothingIsUnsettled DEF Archive!ScriptInv, Archive!ImportsAreRepeatable
<1>3. Archive!LegacyKeepsItsDate
  <2> SUFFICES ASSUME ~ r10, NEW id \in DOMAIN r2, r2[id].text = "legacy",
                      NEW first, first = r3[Archive!Least(Archive!Copies(id))]
               PROVE  \E j \in DOMAIN first.content.records :
                        /\ Archive!IsOf(first.content.records[j], id)
                        /\ r2[id].updated = Archive!Dated(first.content.records[j], None, first).updated
    BY Zenon DEF Archive!LegacyKeepsItsDate
  <2>1. PICK i \in Archive!Copies(id) :
            /\ \A k \in Archive!Copies(id) : i <= k
            /\ \E j \in DOMAIN r3[i].content.records :
                 /\ Archive!IsOf(r3[i].content.records[j], id)
                 /\ r2[id].updated = Archive!Dated(r3[i].content.records[j], None, r3[i]).updated
    BY <1>1 DEF Archive!DatesInv
  <2>2. PICK S : S = Archive!Copies(id)
    OBVIOUS
  <2>3. S \subseteq Nat
    <3>1. r3 \in Seq({r3[k] : k \in DOMAIN r3})
      BY <1>1 DEF Archive!FilesInv
    <3>2. DOMAIN r3 = 1 .. Len(r3)
      BY <3>1
    <3>3. S \subseteq DOMAIN r3
      BY <2>2 DEF Archive!Copies
    <3> QED
      BY <3>1, <3>2, <3>3
  <2>4. PICK x : x = Archive!Least(S)
    OBVIOUS
  <2>5. x \in S /\ \A k \in S : x <= k
    BY <2>1, <2>2, <2>4, Zenon DEF Archive!Least
  <2>6. x = i
    BY <2>1, <2>2, <2>3, <2>5
  <2>7. first = r3[i]
    BY <2>2, <2>4, <2>6
  <2> QED
    BY <2>1, <2>7
<1>4. Archive!RunsAreAccepted
  <2> SUFFICES ASSUME NEW k \in DOMAIN r5, NEW trace, trace = Archive!Snapshot(k, "server"),
                      Archive!Conflicts(trace, "server")
               PROVE  r2[ArchiveRun].source = "legacy_import" /\ Archive!BareCopies # {}
    BY Zenon DEF Archive!RunsAreAccepted
  <2>1. /\ trace.id = ArchiveRun /\ trace.revision = k /\ trace.updated = r5[k] /\ trace.text = "own"
    BY DEF Archive!Snapshot, Archive!Native
  <2>2. ArchiveRun \in DOMAIN r2
    BY <2>1 DEF Archive!Conflicts, Archive!Has
  <2>3. PICK record \in Archive!Known :
          /\ record.kind \in Archive!Traces /\ record.id = ArchiveRun
          /\ record.revision = r2[ArchiveRun].revision /\ record.text = r2[ArchiveRun].text
          /\ record.updated \in {None, r2[ArchiveRun].updated}
    BY <1>1, <2>2 DEF Archive!RowsInv
  <2>4. record.text = "own" /\ record.revision \in DOMAIN r5 /\ record.updated = r5[record.revision]
    BY <1>1, <2>3, KnownRecords
  <2>5. record.updated \in Nat
    BY <1>1, <2>4 DEF Archive!FilesInv
  <2>6. r2[ArchiveRun].updated = r5[r2[ArchiveRun].revision] /\ r2[ArchiveRun].text = "own"
    BY <2>3, <2>4, <2>5, ArchiveAssumption
  <2>7. r2[ArchiveRun].source # "server"
    BY <2>1, <2>6, Zenon DEF Archive!Conflicts
  <2> QED
    BY <1>1, <2>2, <2>7 DEF Archive!SourceInv, Archive!Has
<1>5. Archive!PagesAreComplete
  BY <1>1 DEF Archive!PagesInv, Archive!PagesAreComplete
<1> QED
  BY <1>2, <1>3, <1>4, <1>5 DEF Archive!HistoryIsKept

\* The invariant of the archive, its imports and its readers.
LEMMA ArchiveAlways == Spec => [](part = "archive" => Archive!ArchiveInv)
<1> DEFINE Inv == part = "archive" => Archive!ArchiveInv
<1>1. Init => Inv
  BY ArchiveInit
<1>2. Inv /\ [Next]_vars => Inv'
  <2> SUFFICES ASSUME Inv, [Next]_vars, part' = "archive" PROVE Archive!ArchiveInv'
    OBVIOUS
  <2>1. CASE UNCHANGED vars
    BY <2>1, ArchiveStutter DEF vars
  <2>2. CASE Next
    <3>1. part = "archive" /\ Archive!Next
      BY <2>2 DEF Next
    <3> QED
      BY <3>1, ArchiveStep
  <2> QED
    BY <2>1, <2>2
<1> QED
  BY <1>1, <1>2, PTL DEF Spec

\* However copies, imports, saves of a run and pages of a reader interleave: an
\* import that is over and was alone would save nothing more; a legacy run keeps
\* the date of its first copy (legacy.py:83); a snapshot of a run is refused only
\* when a copy without its context was imported before the run was stored
\* (legacy.py:163); and a reader of all the pages sees no run twice and misses none
\* that stayed as it was (sqlite.py:407).
THEOREM ArchivesAreAlwaysKept == Spec => [](part = "archive" => Archive!HistoryIsKept)
<1>1. (part = "archive" => Archive!ArchiveInv) => (part = "archive" => Archive!HistoryIsKept)
  BY ArchiveKept
<1> QED
  BY <1>1, ArchiveAlways, PTL

-----------------------------------------------------------------------------
(***************************************************************************)
(* What Components says of the history as a whole.                         *)
(***************************************************************************)

\* The pages of the traces and the turns of the command line: neither loses or
\* repeats anything (sqlite.py:407, multi_turn.py:79).
THEOREM HistoryIsAlwaysKept == Spec => []HistoryIsKept
<1>1. (part = "archive" => Archive!HistoryIsKept) /\ (part = "cli" => Cli!HistoryIsUnbroken)
        => HistoryIsKept
  BY DEF HistoryIsKept
<1> QED
  BY <1>1, ArchivesAreAlwaysKept, HistoryIsAlwaysUnbroken, PTL
=============================================================================
