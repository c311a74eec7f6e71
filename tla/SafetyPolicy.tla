---------------------------- MODULE SafetyPolicy ----------------------------
(***************************************************************************)
(* agent/safety.py, and the way a write call passes it twice: once when    *)
(* the graph asks for an approval (preview_write on the arguments of the   *)
(* model) and once when the approved call runs (the schema of the          *)
(* LangChain tool, then the executor on what the schema let through).      *)
(*                                                                         *)
(* A token of a command is a record: its normalized word, the option name  *)
(* before an equals sign, and where the path in it leads ("none" when it   *)
(* does not look like a path).  A path is the sequence of its components.  *)
(* A block of a diff has the two paths of its header, says whether it      *)
(* mentions /dev/null, and whether it deletes the content of its file.     *)
(* Rules and paths are kept as sets: their order and repetitions show only *)
(* in the wording of a refusal.                                            *)
(***************************************************************************)
EXTENDS Integers, Sequences, FiniteSets, Functions

CONSTANTS
  DefaultAllowed, DefaultDenied,  \* sets of prefixes, each a sequence of words
  ExecutingOptions,               \* [program -> options that start other programs]
  Payloads,                       \* policies of a project, None without one
  Commands, Diffs,                \* what a model may want to run or to apply
  Calls,                          \* arguments of the run_command calls it may make
  None

VARIABLES
  payload,   \* the policy file of the project
  safeMode,  \* safe_mode of the caller
  stage,     \* how far the executor is with its one call
  input,     \* the command, diff or arguments it was called with
  verdict,   \* the decision about it
  envelope   \* what the user approved: the files and the fingerprint

vars == <<payload, safeMode, stage, input, verdict, envelope>>

Refused(rule) == [allowed |-> FALSE, rule |-> rule]

Words(tokens) == [i \in DOMAIN tokens |-> tokens[i].word]

\* matching_prefix: some prefix of the list starts the command.
Matches(words, prefixes) ==
  \E prefix \in prefixes : Len(prefix) <= Len(words) /\ prefix = SubSeq(words, 1, Len(prefix))

HasExecutingOption(tokens) ==
  /\ tokens[1].word \in DOMAIN ExecutingOptions
  /\ \E i \in 2 .. Len(tokens) : tokens[i].option \in ExecutingOptions[tokens[1].word]

LeavesRepository(tokens) == \E i \in 2 .. Len(tokens) : tokens[i].path = "outside"

-----------------------------------------------------------------------------
\* AgentSafetyGuard.check_command; the order of the cases is the code's.
CheckCommand(policy, cmd) ==
  LET words == Words(cmd.tokens)
  IN CASE ~cmd.parses                          -> Refused("syntax")
       [] cmd.tokens = <<>>                    -> Refused("empty")
       [] policy.safeMode                      -> Refused("safe-mode")
       [] cmd.shellMeta                        -> Refused("shell-meta")
       [] Matches(words, policy.deny)          -> Refused("denied")
       [] ~Matches(words, policy.allow)        -> Refused("unknown")
       [] HasExecutingOption(cmd.tokens)       -> Refused("unsafe-command-option")
       [] LeavesRepository(cmd.tokens)         -> Refused("outside-repository")
       [] OTHER                                -> [allowed |-> TRUE, rule |-> "allow"]

DevNull == [absolute |-> TRUE, parts |-> <<"dev", "null">>]

\* inspect_patch_paths on the blocks that `diff --git` headers start: the
\* files of the diff, and the blocks that delete one.  A header that cannot be
\* split has no paths.  Every block that mentions /dev/null, one that creates
\* a file too, counts as a deletion.
ChangedFiles(blocks) ==
  (UNION {Range(blocks[k].paths) : k \in DOMAIN blocks}) \ {DevNull}
Deletions(blocks) == {k \in DOMAIN blocks : blocks[k].paths # <<>> /\ blocks[k].devNull}

IsUnsafePath(path) == path.absolute \/ ".." \in Range(path.parts)
IsEnvPath(path) == path.parts # <<>> /\ path.parts[Len(path.parts)] \in {".env", ".env.local"}

\* AgentSafetyGuard.check_patch.
CheckPatch(policy, diff) ==
  LET changed == ChangedFiles(diff.blocks)
  IN CASE diff.blank                                -> Refused("empty")
       [] policy.safeMode                           -> Refused("safe-mode")
       [] diff.oversized                            -> Refused("max-patch-chars")
       [] diff.binary                               -> Refused("binary-patch")
       [] changed = {}                              -> Refused("missing-patch-files")
       [] \E path \in changed : IsUnsafePath(path)  -> Refused("unsafe-path")
       [] \E path \in changed : IsEnvPath(path)     -> Refused("env-file")
       [] Cardinality(Deletions(diff.blocks)) > 1   -> Refused("multi-file-delete")
       [] OTHER                                     -> [allowed |-> TRUE, rule |-> "patch-policy"]

-----------------------------------------------------------------------------
\* parse_rule_list and merge_rule_lists: no rule is empty.
MergeRules(default, own) == (default \cup own) \ {<<>>}

DefaultPolicy == [safeMode |-> FALSE,
                  allow |-> DefaultAllowed, deny |-> DefaultDenied]

\* load_agent_safety_policy: None is the refusal of an unsupported field.
LoadPolicy(file) ==
  CASE file = None -> DefaultPolicy
    [] file.dryRun -> None
    [] OTHER -> [safeMode |-> file.safeMode,
                 allow |-> IF file.allow = None THEN DefaultAllowed ELSE file.allow \ {<<>>},
                 deny  |-> MergeRules(DefaultDenied, IF file.deny = None THEN {} ELSE file.deny)]

\* AgentExecutor.__init__: a safe mode asked for by the caller is never undone.
Policy == [LoadPolicy(payload) EXCEPT !.safeMode = @ \/ safeMode]

-----------------------------------------------------------------------------
\* normalize_snapshot_paths: None is the refusal of a path; "." is dropped
\* from the components, and a path declared twice is kept once.
NormalizePaths(paths) ==
  IF \E i \in DOMAIN paths : paths[i].parts = <<>> \/ IsUnsafePath(paths[i]) THEN None
  ELSE LET clean[n \in 0 .. Len(paths)] ==
             IF n = 0 THEN <<>>
             ELSE LET before == clean[n - 1]
                      path == [absolute |-> FALSE,
                               parts |-> SelectSeq(paths[n].parts, LAMBDA c : c # ".")]
                  IN IF path \in Range(before) THEN before ELSE Append(before, path)
       IN clean[Len(paths)]

X_Fingerprint(arguments, files) ==
  [blanks |-> arguments.blanks, cmd |-> arguments.cmd, files |-> files]

\* canonical_write_arguments and write_call_fingerprint of a run_command
\* call.  The command keeps the blanks around it.
Fingerprint(arguments, files) ==
  [blanks |-> arguments.blanks, cmd |-> arguments.cmd, files |-> files,
   timeout |-> arguments.timeout]

\* AgentExecutor.preview_write of a run_command call: None when it is refused.
PreviewWrite(arguments) ==
  LET files == NormalizePaths(arguments.files)
  IN IF ~CheckCommand(Policy, arguments.cmd).allowed \/ files \in {None, <<>>} THEN None
     ELSE [files |-> files, fingerprint |-> Fingerprint(arguments, files)]

\* RunCommandInput: the schema is strict, knows its fields, bounds the
\* timeout and strips the command.  None is a validation error.
SchemaArguments(arguments) ==
  IF \/ arguments.undeclaredField
     \/ arguments.files = <<>>
     \/ arguments.timeout # None /\ arguments.timeout \notin 1 .. 300
  THEN None
  ELSE [arguments EXCEPT !.blanks = FALSE]

\* tool_node after the resume: AgentExecutor.run_command up to the snapshot.
RunsApproved(arguments) ==
  LET valid == SchemaArguments(arguments)
      again == PreviewWrite(valid)
  IN valid # None /\ again # None /\ again.fingerprint = envelope.fingerprint

-----------------------------------------------------------------------------
\* The executor is built, unless the policy file has a field it refuses.
Init ==
  /\ payload \in Payloads /\ safeMode \in BOOLEAN
  /\ stage = IF LoadPolicy(payload) = None THEN "refused" ELSE "open"
  /\ input = None /\ verdict = None /\ envelope = None

Command(cmd) ==
  /\ stage = "open"
  /\ input' = cmd /\ verdict' = CheckCommand(Policy, cmd) /\ stage' = "command"
  /\ UNCHANGED <<payload, safeMode, envelope>>

Patch(diff) ==
  /\ stage = "open"
  /\ input' = diff /\ verdict' = CheckPatch(Policy, diff) /\ stage' = "patch"
  /\ UNCHANGED <<payload, safeMode, envelope>>

\* request_approval_node; a call that the preview refuses is not offered.
Ask(arguments) ==
  /\ stage = "open"
  /\ input' = arguments /\ envelope' = PreviewWrite(arguments)
  /\ stage' = IF envelope' = None THEN "refused" ELSE "approval"
  /\ UNCHANGED <<payload, safeMode, verdict>>

\* A call reaches the executor under the grant.  The graph hands over the
\* arguments it kept; the executor does not rely on that.
Resume(arguments) ==
  /\ stage = "approval"
  /\ stage' = "resumed"
  /\ verdict' = [call |-> arguments, ran |-> RunsApproved(arguments)]
  /\ UNCHANGED <<payload, safeMode, input, envelope>>

Next ==
  \/ \E cmd \in Commands : Command(cmd)
  \/ \E diff \in Diffs : Patch(diff)
  \/ \E arguments \in Calls : Ask(arguments) \/ Resume(arguments)

Spec == Init /\ [][Next]_vars

-----------------------------------------------------------------------------
\* Comment in load_agent_safety_policy, "the default denylist is always merged
\* back": whatever a project's policy says, a command it allows starts with no
\* denied prefix and stays in the repository; a safe mode from either side
\* refuses every command and every patch.
DenialsHold ==
  stage \in {"command", "patch"} /\ verdict.allowed =>
    /\ ~safeMode /\ (payload # None => ~payload.safeMode)
    /\ stage = "command" =>
         /\ ~input.shellMeta
         /\ ~Matches(Words(input.tokens), DefaultDenied)
         /\ payload # None /\ payload.deny # None =>
              ~Matches(Words(input.tokens), payload.deny \ {<<>>})
         /\ ~LeavesRepository(input.tokens)
    /\ stage = "patch" => \A i, j \in DOMAIN input.blocks :
         LET deletes(k) == input.blocks[k].deletes /\ input.blocks[k].paths # <<>>
         IN deletes(i) /\ deletes(j) => i = j

\* preview_write, "Validate a write request and return its exact approval
\* envelope": whatever call arrives under a grant, it runs only if it is the
\* one the user saw: its command, its timeout and exactly the files shown.
GrantsBind ==
  stage = "resumed" /\ verdict.ran =>
    /\ verdict.call.cmd = input.cmd /\ verdict.call.timeout = input.timeout
    /\ NormalizePaths(verdict.call.files) = envelope.files
    /\ CheckCommand(Policy, input.cmd).allowed

\* What the policy denies stays denied, and an approval is for one exact call
\* (safety.py:110, executor.py:137).
PolicyHolds == DenialsHold /\ GrantsBind

\* The other direction, which the code does not keep: the call that was
\* approved runs.  The preview fingerprints the raw arguments of the model,
\* and the schema then refuses or strips them (see README, Disagreements).
ApprovedCallRuns ==
  stage = "resumed" /\ verdict.call = input => verdict.ran

-----------------------------------------------------------------------------
\* What carries the two properties: an executor that is there has a policy, and
\* one that waits has shown what it waits for.
PolicyInv ==
  /\ stage = "open" => LoadPolicy(payload) # None
  /\ stage \in {"approval", "resumed"} => envelope # None /\ envelope = PreviewWrite(input)
  /\ DenialsHold /\ GrantsBind
=============================================================================
