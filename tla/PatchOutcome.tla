---------------------------- MODULE PatchOutcome ----------------------------
(***************************************************************************)
(* The patch outcome harness: evaluation/patch_outcome.py, the live agent  *)
(* as a candidate (evaluation/agent_patch_provider.py) and the command     *)
(* that runs them and keeps a baseline (scripts/patch_outcome_eval.py).    *)
(*                                                                         *)
(* A working tree maps each file to what it holds: "good" (upstream),      *)
(* "fault", "repaired", "broken", and "lenient" for a test weakened until  *)
(* it passes.  The result of the test command is that of the tree it runs  *)
(* on, or a timeout; a flaky test is outside the model.                    *)
(***************************************************************************)
EXTENDS Integers, Sequences, FiniteSets, Functions, Numbers

CONSTANTS
  Files, Source, Test,  \* the checkout, the file of the fault, the file of the test
  Allows,               \* allowed_paths of each task, in each revision of the manifest
  Patches,              \* what candidates may propose
  Tasks,                \* len(suite.tasks)
  MaxApprovals,         \* max_approvals of the agent candidate
  MaxRuns,              \* bound: invocations of the command
  MaxSuites,            \* bound: revisions of the manifest
  None

VARIABLES
  phase,      \* where the command is
  args,       \* the arguments of this invocation
  runs,       \* invocations so far
  suite,      \* identity of the manifest in the workspace
  baseline,   \* the baseline file: a scorecard, or None
  tree,       \* the evaluator's checkout of the task
  faulty,     \* the same checkout when the candidate was asked
  pristine,   \* result of the test before the fault
  applied,    \* the fault patch was applied
  copy,       \* the agent's own copy of the checkout
  approvals,  \* approvals given to it for this task
  answer,     \* what the provider returned
  rows,       \* rows of the scorecard so far
  exit        \* exit code of the last invocation

vars == <<phase, args, runs, suite, baseline, tree, faulty, pristine, applied,
          copy, approvals, answer, rows, exit>>

\* An answer of a provider: a patch, the files it changed behind the
\* harness's back, and whether it raised.
Empty == [form |-> "empty", edits |-> [f \in {} |-> "good"]]

Passes(t) ==
  \/ t[Test] = "lenient"
  \/ t[Source] \in {"good", "repaired"} /\ \A f \in Files : t[f] # "broken"

\* The files that the task at hand allows candidates to change.  A manifest
\* must allow the source, and may allow the test (patch_outcome.py:326).
Allowed == Allows[suite][Len(rows) + 1]

\* _run of the test command.
Results(t) == {"timeout", IF Passes(t) THEN "pass" ELSE "fail"}

Patched(t, patch) ==
  [f \in Files |-> IF f \in DOMAIN patch.edits THEN patch.edits[f] ELSE t[f]]

\* validate_candidate_patch_paths, after AgentSafetyGuard.check_patch: edits
\* in place, of allowed files only.  The other forms are refused by one of
\* the two: no text, text without a block, a block that creates, deletes or
\* renames, a path that leaves the checkout.
X_PathsAreValid(patch) == patch.form = "edit"
PathsAreValid(patch) == patch.form = "edit" /\ DOMAIN patch.edits \subseteq Allowed

-----------------------------------------------------------------------------
Init ==
  /\ phase = "idle" /\ args = None /\ runs = 0
  /\ suite = 1 /\ baseline = None
  /\ tree = [f \in Files |-> "good"] /\ faulty = tree /\ copy = tree
  /\ pristine = None /\ applied = FALSE
  /\ approvals = 0 /\ answer = None /\ rows = <<>> /\ exit = None

\* Somebody edits the manifest between two invocations.
EditSuite ==
  /\ phase = "idle" /\ suite < MaxSuites
  /\ suite' = suite + 1
  /\ UNCHANGED <<phase, args, runs, baseline, tree, faulty, pristine, applied, copy,
                 approvals, answer, rows, exit>>

\* main up to evaluate_patch_suite: combinations it refuses, and the preflight.
Refuses(a) ==
  \/ a.gate /\ a.update
  \/ a.update /\ a.mode # "oracle"
  \/ a.gate /\ a.mode = "agent"
  \/ a.gate /\ (baseline = None \/ (baseline # None /\ baseline.suite # suite))

Start(a) ==
  /\ phase = "idle" /\ runs < MaxRuns
  /\ runs' = runs + 1
  /\ args' = a /\ rows' = <<>>
  /\ IF Refuses(a) THEN exit' = 2 /\ phase' = "idle"
     ELSE exit' = None /\ phase' = "materialize"
  /\ UNCHANGED <<suite, baseline, tree, faulty, pristine, applied, copy, approvals, answer>>

\* The manifest, the baseline or the policy of the gate is malformed.
Malformed(a) ==
  /\ phase = "idle" /\ runs < MaxRuns
  /\ runs' = runs + 1
  /\ args' = a /\ rows' = <<>> /\ exit' = 2
  /\ UNCHANGED <<phase, suite, baseline, tree, faulty, pristine, applied, copy, approvals, answer>>

\* materialize_pinned_archive: a fresh checkout of the pinned commit.
Materialize ==
  /\ phase = "materialize"
  /\ tree' = [f \in Files |-> "good"]
  /\ phase' = "pristine"
  /\ UNCHANGED <<args, runs, suite, baseline, faulty, pristine, applied, copy, approvals,
                 answer, rows, exit>>

\* git fails or hangs, or the archive is too large or names something unsafe:
\* it raises, and the whole invocation is over with the rows it had.
MaterializeFails ==
  /\ phase = "materialize"
  /\ phase' = "idle" /\ exit' = 2
  /\ UNCHANGED <<args, runs, suite, baseline, tree, faulty, pristine, applied, copy, approvals,
                 answer, rows>>

\* The test on the upstream sources.
RunPristine ==
  /\ phase = "pristine"
  /\ pristine' \in Results(tree)
  /\ phase' = "inject"
  /\ UNCHANGED <<args, runs, suite, baseline, tree, faulty, applied, copy, approvals, answer, rows, exit>>

\* _apply_patch of the fault, which may be rejected or change nothing the test sees.
InjectFault ==
  /\ phase = "inject"
  /\ \/ applied' = FALSE /\ UNCHANGED tree
     \/ /\ applied' = TRUE
        /\ \E c \in {"fault", "repaired"} : tree' = [tree EXCEPT ![Source] = c]
  /\ phase' = "initial"
  /\ UNCHANGED <<args, runs, suite, baseline, faulty, pristine, copy, approvals, answer, rows, exit>>

Row(valid, isApplied, result, changed, score) ==
  [valid |-> valid, applied |-> isApplied, pass |-> result = "pass",
   timeout |-> "timeout" \in {pristine, result}, changed |-> changed,
   score |-> score, allowed |-> Allowed, from |-> faulty, to |-> tree]

\* Without a proven fault the row is worth nothing and nobody is asked.
RunInitial == \E result \in Results(tree) :
  /\ phase = "initial"
  /\ faulty' = tree
  /\ IF pristine = "pass" /\ applied /\ result = "fail"
     THEN phase' = "provide" /\ UNCHANGED rows
     ELSE /\ rows' = Append(rows, [Row(FALSE, FALSE, "fail", 0, 0) EXCEPT
                                     !.timeout = "timeout" \in {pristine, result},
                                     !.from = tree])
          /\ phase' = "next"
  /\ UNCHANGED <<args, runs, suite, baseline, tree, pristine, applied, copy, approvals, answer, exit>>

-----------------------------------------------------------------------------
\* The oracle returns the upstream text, a static candidate what it was given;
\* any other provider may also have written into the checkout itself.
Provide(patch) ==
  /\ phase = "provide" /\ args.mode # "agent"
  /\ args.mode = "oracle" => patch = [form |-> "edit", edits |-> [f \in {Source} |-> "good"]]
  /\ \/ /\ answer' = [patch |-> patch, wrote |-> FALSE] /\ UNCHANGED tree
     \/ /\ args.mode = "other"
        /\ answer' = [patch |-> patch, wrote |-> TRUE] /\ tree' = Patched(tree, patch)
        /\ tree' # tree
  /\ phase' = "judge"
  /\ UNCHANGED <<args, runs, suite, baseline, faulty, pristine, applied, copy, approvals, rows, exit>>

\* evaluate_patch_task catches what the provider raises.
ProviderRaises ==
  /\ phase \in {"provide", "agent"} /\ args.mode \in {"agent", "other"}
  /\ answer' = [patch |-> Empty, wrote |-> FALSE]
  /\ phase' = "judge"
  /\ UNCHANGED <<args, runs, suite, baseline, tree, faulty, pristine, applied, copy,
                 approvals, rows, exit>>

\* AgentCandidateProvider.provide: the agent gets a copy of its own.
StartAgent ==
  /\ phase = "provide" /\ args.mode = "agent"
  /\ copy' = tree /\ approvals' = 0 /\ phase' = "agent"
  /\ UNCHANGED <<args, runs, suite, baseline, tree, faulty, pristine, applied, answer, rows, exit>>

\* The run pauses for an apply_patch that passes the private policy: it is
\* approved, and applies or not.  One that does not pass raises, see
\* ProviderRaises, as does a resume that fails.
ApproveAgent(patch) ==
  /\ phase = "agent" /\ approvals < MaxApprovals /\ PathsAreValid(patch)
  /\ approvals' = approvals + 1
  /\ copy' \in {copy, Patched(copy, patch)}
  /\ UNCHANGED <<phase, args, runs, suite, baseline, tree, faulty, pristine, applied,
                 answer, rows, exit>>

\* The run ends, or asks for another tool or for one approval too many; what
\* the copy holds by then is returned as one diff against the faulty files.
AgentReturns ==
  LET changed == {f \in Files : copy[f] # faulty[f]}
      diff == IF changed = {} THEN Empty
              ELSE [form |-> "edit", edits |-> [f \in changed |-> copy[f]]]
  IN /\ phase = "agent"
     /\ changed \subseteq Allowed
     /\ answer' = [patch |-> diff, wrote |-> FALSE]
     /\ phase' = "judge"
     /\ UNCHANGED <<args, runs, suite, baseline, tree, faulty, pristine, applied, copy,
                    approvals, rows, exit>>

-----------------------------------------------------------------------------
\* The score of a row whose fault is proven.  Only allowed files are looked
\* at, and they are never forbidden, so that precision is 1 or 0 and
\* forbidden_untouched always holds.
Score(isApplied, pass, changed) ==
  LET points == 10 + (IF isApplied THEN 15 ELSE 0) + (IF pass THEN 50 ELSE 0)
                  + (IF changed > 0 THEN 10 ELSE 0) + 10 + (IF changed > 0 THEN 5 ELSE 0)
  IN CASE ~isApplied -> Lesser(points, 10)
       [] isApplied /\ ~pass -> Lesser(points, 25)
       [] OTHER -> points

\* The candidate is rejected: the provider wrote, or its patch is not valid.
Reject ==
  /\ phase = "judge"
  /\ answer.wrote \/ ~PathsAreValid(answer.patch)
  /\ rows' = Append(rows, Row(TRUE, FALSE, "fail", 0, Score(FALSE, FALSE, 0)))
  /\ phase' = "next"
  /\ UNCHANGED <<args, runs, suite, baseline, tree, faulty, pristine, applied, copy,
                 approvals, answer, exit>>

\* git apply accepts it and the test runs again, or git apply refuses it.
Judge ==
  /\ phase = "judge" /\ ~answer.wrote /\ PathsAreValid(answer.patch)
  /\ \/ /\ rows' = Append(rows, Row(TRUE, FALSE, "fail", 0, Score(FALSE, FALSE, 0)))
        /\ phase' = "next" /\ UNCHANGED tree
     \/ tree' = Patched(tree, answer.patch) /\ phase' = "retest" /\ UNCHANGED rows
  /\ UNCHANGED <<args, runs, suite, baseline, faulty, pristine, applied, copy, approvals,
                 answer, exit>>

Retest == \E result \in Results(tree) :
  LET changed == Cardinality({f \in Allowed : tree[f] # faulty[f]})
  IN /\ phase = "retest"
     /\ rows' = Append(rows, Row(TRUE, TRUE, result, changed,
                                 Score(TRUE, result = "pass", changed)))
     /\ phase' = "next"
     /\ UNCHANGED <<args, runs, suite, baseline, tree, faulty, pristine, applied, copy,
                    approvals, answer, exit>>

NextTask ==
  /\ phase = "next" /\ Len(rows) < Tasks
  /\ phase' = "materialize"
  /\ UNCHANGED <<args, runs, suite, baseline, tree, faulty, pristine, applied, copy,
                 approvals, answer, rows, exit>>

-----------------------------------------------------------------------------
Total(field) == SumFunction([i \in DOMAIN rows |-> rows[i][field]])
Count(field) == Cardinality({i \in DOMAIN rows : rows[i][field]})

\* evaluate_patch_suite; rates are kept as counts, since every scorecard that
\* is compared has the same number of cases.
Scorecard ==
  [suite |-> suite,
   score |-> Total("score"), changed |-> Total("changed"),
   valid |-> Count("valid"), applied |-> Count("applied"),
   pass |-> Count("pass"), timeout |-> Count("timeout")]

\* compare_patch_scorecards under the committed policy, whose thresholds are 0.
Regressed(now, base) ==
  \/ \E k \in {"score", "valid", "applied", "pass"} : now[k] < base[k]
  \/ \E k \in {"timeout", "changed"} : now[k] > base[k]

\* Only a self check in which everything passed becomes the baseline.
MayUpdate(card) == card.valid = Tasks /\ card.pass = Tasks

Finish ==
  /\ phase = "next" /\ Len(rows) = Tasks
  /\ LET card == Scorecard IN
     \/ args.update /\ MayUpdate(card) /\ baseline' = card /\ exit' = 0
     \/ args.update /\ ~MayUpdate(card) /\ exit' = 2 /\ UNCHANGED baseline
     \/ args.gate /\ exit' = (IF Regressed(card, baseline) THEN 1 ELSE 0) /\ UNCHANGED baseline
     \/ ~args.update /\ ~args.gate /\ exit' = 0 /\ UNCHANGED baseline
  /\ phase' = "idle"
  /\ UNCHANGED <<args, runs, suite, tree, faulty, pristine, applied, copy, approvals, answer, rows>>

Arguments == {a \in [mode : {"oracle", "static", "other", "agent"},
                     gate : BOOLEAN, update : BOOLEAN] : a.mode = "other" => ~a.gate}

Next ==
  \/ EditSuite \/ Materialize \/ MaterializeFails \/ RunPristine \/ InjectFault \/ RunInitial
  \/ \E a \in Arguments : Start(a) \/ Malformed(a)
  \/ \E patch \in Patches : Provide(patch) \/ ApproveAgent(patch)
  \/ ProviderRaises \/ StartAgent \/ AgentReturns
  \/ Reject \/ Judge \/ Retest \/ NextTask \/ Finish

-----------------------------------------------------------------------------
\* README "真实补丁／测试结果基准": a row is worth more than 25 points only when
\* the test failed on the checkout the candidate was given and passes on what
\* it left, where every file that its task does not allow is the upstream one.
\* So the source is repaired and nothing broken, unless the task allows its
\* own test: then a weakened test counts as well.
Earned(r) == r.score > 25 =>
  /\ ~Passes(r.from) /\ Passes(r.to)
  /\ \A f \in Files \ r.allowed : r.to[f] = "good"
  /\ Test \notin r.allowed => /\ r.to[Source] \in {"good", "repaired"}
                             /\ \A f \in Files : r.to[f] # "broken"

ScoresAreEarned == \A i \in DOMAIN rows : Earned(rows[i])

\* A gate that exits with 0 has seen every task of the very suite the baseline
\* is of go from a failing test to a passing one, whatever was run, edited and
\* refused before.
GateIsHonest == phase = "idle" /\ exit = 0 /\ args.gate =>
  /\ baseline # None
  /\ Len(rows) = Tasks
  /\ \A i \in DOMAIN rows : rows[i].valid /\ rows[i].pass /\ ~Passes(rows[i].from)

\* What the harness reports has been earned: a score by edits of allowed files
\* that make the test pass, a passed gate by such edits in every task (patch_outcome.py:684, patch_outcome_eval.py:134).
VerdictsAreEarned == ScoresAreEarned /\ GateIsHonest

-----------------------------------------------------------------------------
Contents == {"good", "fault", "repaired", "broken", "lenient"}
Trees == [Files -> Contents]
RowRecords == [valid : BOOLEAN, applied : BOOLEAN, pass : BOOLEAN, timeout : BOOLEAN,
               changed : Nat, score : Int, allowed : SUBSET Files,
               from : Trees, to : Trees]

\* Outside fs, the tree is the upstream one.
Upstream(t, fs) == \A f \in Files \ fs : t[f] = "good"

TypeOK ==
  /\ phase \in {"idle", "materialize", "pristine", "inject", "initial", "provide",
                "agent", "judge", "retest", "next"}
  /\ tree \in Trees /\ faulty \in Trees /\ copy \in Trees
  /\ suite \in 1 .. MaxSuites /\ rows \in Seq(RowRecords)
  /\ phase \notin {"idle", "next"} => Len(rows) < Tasks
  /\ phase # "idle" => args \in Arguments /\ ~Refuses(args)
  /\ phase = "judge" => \A f \in DOMAIN answer.patch.edits : answer.patch.edits[f] \in Contents

\* Where the harness is tells what its checkout holds: the fault is proven
\* before a candidate is asked, and only what the candidate returned is tested.
CheckoutIsKnown ==
  /\ phase \in {"pristine", "inject"} => Upstream(tree, {})
  /\ phase = "initial" => Upstream(tree, {Source})
  /\ phase \in {"provide", "agent", "judge", "retest"} =>
       ~Passes(faulty) /\ Upstream(faulty, {Source})
  /\ phase \in {"provide", "agent"} => tree = faulty
  /\ phase = "judge" => answer.wrote \/ tree = faulty
  /\ phase = "retest" => Upstream(tree, Allowed)

\* What carries the verdicts.
OutcomeInv ==
  /\ TypeOK /\ CheckoutIsKnown
  /\ \A i \in DOMAIN rows : Earned(rows[i]) /\ (rows[i].valid => ~Passes(rows[i].from))
  /\ baseline # None => baseline.valid = Tasks /\ baseline.pass = Tasks
  /\ GateIsHonest
=============================================================================
