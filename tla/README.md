# RepoPilot in TLA+

This directory holds TLA+ models of RepoPilot: an agent that answers questions
about a repository, runs tools in it and, after the user has approved the exact
call, writes to it. The models are read from the source under `src/`; every
definition that stands for code is listed with its lines in `PROJECT.json` (`map`).

Contents: [Inventory](#inventory), [Modules](#modules), [Runs](#runs),
[Fairness](#fairness), [Proofs](#proofs), [Disagreements](#disagreements),
[Not modelled](#not-modelled), [Plan](#plan), [Running](#running).

## Inventory

| Component | State it keeps | Operations | Hard part | What makes it correct |
|---|---|---|---|---|
| Unified agent graph (`agent/graph_runtime.py`, `agent/runtime.py`) | `UnifiedAgentState`: pending decision, counters, observations, flags, approval envelope, trace events | the six nodes and their edges, the first `graph.invoke`, a new invoke of the saved state for each approval | budgets that span several invokes; a failure after the write took effect; the saved state must be executable | bounded steps, model calls and supersteps; writes only under the approval of that call; honest terminal status |
| Write executor and snapshots (`agent/executor.py`, `agent/snapshots.py`) | the working tree, snapshot directories, the one approval of the executor | `apply_patch`, `run_command`, `create`, `diff`, `rollback` | a crash or exception between any two copies; concurrent writers of one file | what reached the tree can be undone; "restored" means restored |
| Browser runs (`frontend.py`, `agent/conversation.py`, `agent/runtime.py`) | pending approvals in memory, the pool of session locks, `chat_turns` | POST /api/run with a query or a handle, save of a turn, restart | double clicks, stale chats, other processes, restarts | a handle is used once; turns follow the history they were answered on |
| Page (`frontend.py`, the script of `build_index_html`) | view, request in flight, buttons, chats in `sessionStorage` | run, approve, roll back, learn, new conversation, switch view, reload | answers that come back to a page that has gone on | chats stay separate, a used button is gone, a view is kept |
| Trace storage (`storage/`, `scripts/import_json_artifacts.py`, `scripts/replay_trace_pending.py`) | `trace_runs`, `trace_events`, `llm_calls`, `json_files`, spool files | `save_trace`, `persist_trace`, `replay_pending`, migration, archive, import, paged history | snapshots repeated, skipped and out of order; imports, saves and readers at once | tables agree and only grow; an import can be repeated; pages are complete |
| Repository index registry (`repository/search_index.py`) | LRU of prepared indexes, disk cache, locks per key | `get`, `clear` | edits during a scan or a build; two processes on one cache file | an index handed out is that of a state of the tree |
| Read-only graph (`agent/graph_runtime.py`) | `AgentState` | five nodes, `run_graph_query` | repair budget after prose, evidence and evaluation limits | bounded, no write |
| Learning Mode (`learning/`, `/api/learn`) | the signing key of the process; the session itself is held by the page | `start`, `submit`, `reflect`; signature check, planning, precheck, review, reflection | the length limit of a session, answers that get lost, a new key after a restart | an unfinished session can always be finished; no progress is lost; what the actions make of a signed session is accepted |
| LLM client (`rag/llm_client.py`) | per-thread last observation, a shared log | `complete`, retries | retry of what was done, another thread's observation | what a run's summary counts is what went over the wire |
| Command line (`main.py`) | the session of the loop | turns, approvals at the prompt, `--rollback`, exit codes | a failure between the write and its output | every snapshot id is shown, exit code 0 means no failure |
| Desktop window (`web_ui.py`) | widgets | the same calls from worker threads | - | - |
| Safety policy (`agent/safety.py`, `agent/langchain_tools.py`) | none | decisions on commands and diffs, twice per call | a project's policy against the default; a schema between the two decisions | denials hold; an approval is for one exact call |
| Retrieval (`tools/`, `rag/ask.py`) | none beyond the index | rankings, recall of neighbours, filter | limits cut each stage | the best chunks and the methods asked for survive |
| Context and citations (`rag/prompt.py`, `agent/runtime.py`, `rag/citation_validator.py`) | the recorded ranges of lines | merging, cutting, checking citations | line numbers through every cut | an accepted citation was shown |
| Call paths (`repository/call_path.py`) | none | `trace` | recursion, limits, ambiguous names | complete unless it says truncated |
| Offline agent and memory (`agent/workflow.py`, `agent/memory.py`) | memory file, run log | `run_code_agent` | several processes, torn lines | an experience is stored once; the log is true |
| Patch harness (`evaluation/patch_outcome.py` and others) | reports, a baseline | evaluate a task, gate a report | partial failure, another suite's baseline | what counts as solved has been earned by allowed edits |
| Guarded child (`scripts/run_claude_guarded.py`) | usage totals, the log | forward, count, stop | pipes of bounded size, a child that does not stop | exit code, log and usage agree |
| Other evaluation and scripts | reports | batch | - | - |

How they interact: a front end calls `run_unified_query` under the lock of the
chat session; that loads the history, invokes the graph and, through
`persist_unified_run`, saves the turn and the trace. The graph calls the LLM
client and the executor; the read tools use the index. When the graph ends in
`approval_required`, the front end stores the whole run under a random handle
and a later request pops it and calls `resume_unified_query`, which invokes the
saved state with an executor that holds the fingerprint of the approved call.

The hazards of this code, with their lines and the properties that cover them,
are listed in `PROJECT.json` (`hazards`).

## Modules

`AgentGraph` models one run of the ordinary agent. An action is one superstep of
LangGraph: the node function and the edge after it (`Model...` for `model_node`
and `route_after_model`, `Tool...` for `tool_node` with the executor,
`RequestApproval`/`RejectApproval`, `Finalize`, `SafeFallback`); `Resume` is the
user's approval with the new invoke. The variables carry the names of the state's
keys. A tool call is a model value, since all that the code compares is its
fingerprint; whether a tool succeeds, and whether a failing write took effect, is
left open. `granted` and `applied` are history variables that count approvals and
effects.

`WriteExecution` opens up what `AgentGraph` leaves open: the steps of
`apply_patch` and `run_command` file by file, for several writes at once, each of
them able to fail or die between any two steps, with the user's rollbacks. The
content of a file is the set of writes whose change is in it. A patch writes each file of
its diff once, and may replace lines that other writes have changed; a command may
change, overwrite, revert or delete any file, also one that it did not declare, which no
snapshot covers (src/README.md:334 says as much). `lost` is a history variable of the
changes that the process of another write has overwritten, and `before` of which writes had ended
when one began. Its behaviours are `WriteInit`,
`WriteNext` and `WriteSpec`, so that one module can extend it together with `AgentGraph`.

`ApprovalFlow` models the threads of the browser server: the lock of the session,
the chat revision, the pop of the handle, the save, and besides them another
process and a restart. `OneShotApproval` is the abstract promise of a handle, and
`ApprovalFlow` is shown to implement it (`OneShot`).

`TraceStore` models saving, spooling and replaying the snapshots of runs, on a
database that may come from an older release: `version` is its schema, the first
write migrates it in its own transaction, and `unobserved` is a history variable
that counts the events which were stored before `llm_calls` existed. `answers` is
one as well: what each caller was told about each of its snapshots. `RunHistory`
is the abstract promise, which it implements (`PromisedHistory`).

`TraceArchive` models what else works on that database: the archive of JSON files,
the script that imports files and converts the archived traces, one connection
per step, and the history that a reader pages through, while runs are saved and
spooled copies replayed. A `setting` says what there is to work on: the contents of
files, the selections the script is called with, the filters of a reader. `fixed`,
`quiet` and `busy` are history variables: the rows a reader can rely on, whether
anybody else wrote since the script began to convert, whether the database has
failed it for a moment.

`IndexRegistry` models `RepositoryIndexRegistry.get` file by file: the first scan,
the lookup in memory and on disk, the full or incremental build, the second scan,
the write and the publication, for threads of several processes while someone
edits, deletes and creates files of the tree, some of which may not be there at first.
A full build walks the tree again and reads what it finds then; an incremental one
reads the files that the manifest has as changed. A version of a file stands for its
text and for the size and mtime of its manifest entry, so the model has no change
that keeps both; the documentation states that limit of the manifest. `Unreadable`
adds files that cannot be opened for a moment. The history variable `history` holds
all states of the tree. An index is "current" when, at one moment between the start
and the end of the call, all files that it lists were there with these texts, and
each file it does not list was missing at some moment of the call. `clear`,
which only tests call, and the format of the cache file are left out.

`ReadonlyGraph` models the second graph of `graph_runtime.py`. It has no pending
decision: the router, the tool node and the search for the reason of a fallback
each look at the last message again, so a message is a record of everything they ask of it.

`LearningSession` models `run_learning_session` with its graph, an action per node,
and the page of Learning Mode. The server keeps nothing but its key, so the state is
the request under way and the session that the page holds. A text is its length: a
review that passes adds `ReviewSize`, the same for every step, a failing one
`GapSize` more, an event `EventSize`, a reflection its own length. `Valid`
translates the model validator of `LearningSession`, which runs on every session
that is signed (which review passes at which step is asked of the positions of the
list of reviews); `Fits` the length limit together with
`session_has_completion_headroom`. Of the planning workflow only the outcomes are
modelled: nothing to read, no plan, or one of `Plans`. An answer may be lost
(`Disconnect`), after which the page sends its older session again and the history
forks; a `Restart` gives the server a new key. How planning collects evidence is
`EvidencePlan`'s; the texts of the errors are left out.

The remaining modules have one component each.

- `LlmClient`: threads share one client; an action is one HTTP attempt, the
  `finally` that records the observation, or the model node that takes it. `sent`
  is a history variable, what really went over the wire. The summary of a run adds
  up the observations among its events, as `finish_unified_run` does.
- `SafetyPolicy`: pure decisions on a command or a diff under the merged policy,
  and a write call on its way through preview, approval, schema and execution. A
  token says what it is to the policy (its word, its option, where its path leads).
- `EvidencePlan`: the planning of Learning Mode: search, read each hit again (the
  tree may be edited in between), compact, ask, validate citations.
- `CodeSearch`: the pipeline of a search, with any scores: promote, rank one per
  file, align with `Class.method` mentions, recall neighbours, filter. The index is the
  sequence of its chunks, those of a file together and in order. A sort is by an order,
  which is the set of its pairs (`ByScore`, `ByRecall`), and the p-th of a set in an order is
  the one with p - 1 before it (`Sorted`); the best of every file go first by another such order
  (`Diverse`). Without mentions, the neighbours that are recalled bring no better score into
  the answer: as many hits of the search, none of which is worse, are there to fill it.
- `CitedContext`: source lines to search rows, tool results or context blocks, cut
  to the size of the context; what is recorded, and what a citation is checked against.
  `observed` is the sequence `observed_ranges`, in the order of the calls: a search row or
  a context block adds a range of its own, `read_file` records line by line
  (`LineRecorded`), and a line that follows the last range extends it also when another
  call recorded that range. So a citation of lines that two results showed can be accepted.
- `CallPath`: the breadth-first trace over the calls of a module, with Python's
  ways of binding a name as far as the code looks at them. What it is compared
  with is stated by paths of calls, without a traversal.
- `OfflineAgent`: processes that run `run_code_agent` over one memory file and one
  log; each can die at every step, also in the middle of a line.
- `PatchOutcome`: the tasks of a suite, each with a fault, a candidate (or the live
  agent with its approvals), the test command on a pristine, a faulty and a patched
  tree, the report, the baseline that is kept and the gates on the next report.
- `ClaudeGuard`: child and wrapper as two processes with bounded pipes.
- `CommandLine`: `main.py` over the runs of `AgentGraph` and `ApprovalFlow`, which are
  one step here; the selection of the history that fits (`history_messages`).
- `BrowserPage`: the script of the page. One request is in flight at most; its answer
  arrives some time, while the user types, switches the view or reloads. What a
  request does on the server is left open. `talks`, `questions` and `clicked` are
  history variables.

`Components` looks at these one at a time: they have no state in common, so
`part` chooses one, and its variables are the first of the registers `r1` to `r14`.
It has their constants, with the assumptions under which they are proved
about, and the nine properties. An instance brings every operator of its module, and
of what the module extends, into each obligation of the proofs, which is why these
modules take `Functions` at most and not `SequencesExt`; `Numbers` has the few operators
on numbers they need, as recursive functions about which sums and cuts can be proved. `MCComponents` gives the small instance, and the other
`MC...` modules fix constants and bounds. Operators named
`X_Something` or `Something_What` are mutants: they say what a plausible slip in
`X` or `Something` would look like, and each shows that a property can tell.

## Runs

| Run | Bounds | Question |
|---|---|---|
| `agent_graph` | 1 read call, 2 write calls, `MaxSteps` 3 | budgets, approvals, honest status, and that each invoke ends |
| `page_claim` | same | does the page's `write_executed=` tell the truth? (no) |
| `write_execution` | a patch of 2 files, a command on one of them and a patch of the other that begins after the first has ended; at most 2 at work at a time, 1 change overwritten, 2 writes that fail or are rolled back | recoverability under failures, crashes, concurrent writers |
| `apply_timeout` | the same writes, without these bounds | does an exception always restore? (no) |
| `approval_flow` | 3 requests that arrive in order, 2 sessions that share a lock, 1 turn elsewhere, 1 restart | one-shot approvals, consistent chats, every request ends |
| `trace_store` | 2 symmetric runs, 3 returns each, at most 2 stored calls, each schema version | tables, spool and answers agree |
| `index_current` | 2 threads of one process and 1 of another, 2 files of which one may be missing at first, room for 1 key; either 1 key, 2 edits, 1 call each, or one process, 2 keys, 1 edit, 2 calls each | were the files of an index that `get` returns all there, with these texts, at one instant of the call, also under eviction; does memory ever go back to an older index? |
| `index_unreadable` | 1 thread, 2 calls, a file may be unreadable | is an index found later current? (no) |
| `readonly_graph` | `MaxSteps` 3, all 48 kinds of messages | limits, conversation, reasons and status |
| `learning_session` | plans of 2 and 4 steps with room for four failed reviews or one, two plans that do not fit, 2 keys | can a learner always go on; are errors about length only; is progress kept? |
| `components` | below | does each of the other components keep its promise? |
| `context_lines` | 2 files of one name, 5 and 3 lines, chunks of 2 | is every shown line recorded? (no) |

What `components` checks, and on what:

| Invariant | Part and bounds | What it says |
|---|---|---|
| `SummaryMatchesWire` | `llm`: 2 threads, 3 attempts, 6 kinds of replies, a log of 1 | the summary of each thread counts its own attempts; only transient failures were retried |
| `PolicyHolds` | `safety`: commands of at most 3 words, diffs of 2 blocks, 37 policies | denials hold under every policy; only the approved call runs, on the files shown |
| `HarnessesAreHonest` | `outcome`: 2 tasks, 6 patches, 2 runs, 2 revisions of the suite, one with a task that allows its test; `guard`: pipes of 1 line, 2 lines each, 3 kinds of usage | solved means that edits of allowed files alone made a failing test pass (so the source is repaired, unless the task allows its test), and gates compare one suite; exit, log and usage agree, no child survives |
| `CitationsAreShown` | `evidence`: 2 files, 4 texts, 1 edit; `context`: as `context_lines`, with calls in every order | an accepted citation means one file and lines the model was shown |
| `SearchKeepsTheBest` | `search`: 5 chunks of 2 files, all scores 0 to 2, 12 configurations (also `candidate_k` 0, which is none), 4 lists of mentions | no chunk twice; the answer has the best chunks, and the definition of a mentioned method unless a chunk that another one displaced takes its place |
| `UntruncatedIsComplete` | `callpath`: modules of 3 to 5 functions, 3 edges, depth 1 | a trace that does not say truncated has all calls within the depth, and none besides |
| `MemoryIsHonest` | `offline`: 2 processes, 3 search results | an experience is stored once (but see below); the log is true |
| `HistoryIsKept` | `archive`: 2 archived files, 2 imports, or 1 file, 2 saves and pages of 1; `cli`: 4 turns | imports can be repeated, a legacy record keeps its first date, runs are accepted unless a copy without context was imported before them, pages are complete; a model is sent of a chat what fits, without a gap |
| `FrontEndsAreHonest` | `cli`: 2 runs, 2 writes; `page`: 2 repositories, 3 questions, 3 chats | snapshot ids are shown and exit codes right; chats, buttons and views of the page |

Why these bounds are enough. `MaxSteps` 3 lets a run read, write and resume, and
still hit the limit, in every order; that no other value behaves differently is
what the proofs below add. The three writes give a
file that is shared with a command at the same time and one that is shared with a later
patch, which is what the properties distinguish; one overwritten change shows that one is excused and its file's others
are not, and two failures or rollbacks that one may follow or cross another. Three requests are
a query and two clicks on its approval, or two queries and an approval between
them. Three returns with at most two calls let snapshots overtake, repeat and
exceed the limit (100 in the code). Two files are the least for which a scan can
be torn, and two edits can fall into two different phases of a call. The plans of
`learning_session` leave room for several failed reviews, for one, and for none,
so that the limit is met at each phase and step. In `approval_flow` q1, q2, q3 arrive
in this order, and the first of them and the other process use session s1:
requests are interchangeable, and TLC's symmetry is not sound for liveness. In
`index_current` no more than two threads are inside `get` at a time; with one key
its lock sees to that. In `components`, two actors are the least that interfere,
texts and files are as small as leaves room for every cut to fall on each side of
a line, and the limits (3 edges, 2 rows, a log of 1) are met by some inputs
and not by others. Deadlock is not checked where the system
may stop for good: a run that has ended, requests that are answered.

## Fairness

`AgentGraph` has weak fairness of `Invoke` only: `graph.invoke` is a loop that
keeps calling nodes, each of which returns because the LLM client and
subprocesses have timeouts. Nothing makes the user approve. `ReadonlyGraph` has
weak fairness of its whole next-state relation for the same reason. `ApprovalFlow` has
weak fairness of each thread's `Serve`: a thread of the server that can go on
does. A `threading.Lock` is not fair, and it is not assumed to be: with finitely
many requests each lock is free from some moment on for whoever still waits.
The safety properties need no fairness.

## Proofs

The type invariants are not among the properties of the runs; where a component has
a proof module, `TypeOK` is proved, which is more. Each invariant below was first
checked by TLC on the instance of the component's run. The proofs have the same
shape: initial states satisfy the invariant, each action keeps it (a lemma per
conjunct or per action, a step per disjunct), it implies the property. Constants
are arbitrary but for the assumptions that the modules name.

`Agent_proofs` proves, for any sets of calls and any `MaxSteps` above 0
(`CallsAssumption`, `MaxStepsAssumption`), the safety properties of `AgentGraph`.
None of them is inductive alone: that a resumed
invoke stays within its limit, say, needs to know that the pending decision of a
saved state is the approved write. The invariant that carries them,
`HInv`, is a conjunction of

- `TypeOK`;
- `Budget`: each superstep and model call so far is paid for by a tool step, the
  repair, or the visit that ends the invoke;
- `Routed`: the pending decision is one that the next node can handle, an
  approval is offered only with the state that can execute it, and a write at the
  tool node is covered by an unused grant;
- `Granted`: a write was applied at most as often as granted, and strictly less
  often while its grant is still unused;
- `Faultless`: as long as no tool has failed, the two counts differ only by the
  grant in use, and every observation is a success;
- `Ended`: what each terminal status says of the state.

Each conjunct has a lemma that all actions preserve it, with one step per action.
The theorems then follow: `TypeCorrect`, `WritesAreCovered`,
`RecursionBudgetHolds`, `LlmCallBudgetHolds`, `ApprovalIsExact`,
`WritesAreApproved`, `StatusIsHonest`, the action property `BudgetsSurvive`, and
`ChangesAreRecorded` (a count of the observations that grows with each effect).
`RecursionBudgetHolds` is the fact that the formula `max(12, 2 * max_steps + 10)`
of `run_unified_graph_query` is large enough for every configuration, and
`LlmCallBudgetHolds` is the bound that
`src/coding_rag/evaluation/agent_patch_provider.py:109` publishes.

`Agent_proofs` also proves the three properties of `WriteExecution`, the work of the
Agent's executor, for any writes, patches, files and declared lists (`WritesAssumption`: a write declares at least one file, none twice).
`WInv` adds

- `SnapshotFirst`: the manifest is written after the last backup and before the first change;
- `BackupsTraced`: a change that another write's backup holds is itself backed up (a
  rollback of that other write may put it back long after its own);
- `StagesSoFar`: when a write is untouched, when it has been rolled back, and who had
  ended when it began;
- `RestoredSoFar`: `RestoredLeavesNoTrace` for a rollback under way;
- `PatchSoFar`, `PatchIsWhole`, `BackupsKeep`: a patch is in what git apply has written,
  then in all of its files, then in the backups of whoever begins later, so that their
  rollbacks keep it. They make up `AppliedStaysApplied`.

The exceptions are part of the statements. A restored file is clean unless another
write that declares it was rolled back too (`OthersStay`): its backup may hold the
change. An applied patch stays in a file except where the process of
another write overwrites it (`lost`), or where a write that declares the file, and did
not begin after the patch had ended, is rolled back (`Undisturbed`): nothing orders
the executors of two sessions. Writes that begin later are not excepted: they may fail, crash and be rolled back, in any number.

`ApprovalFlow_proofs` proves the safety properties of `ApprovalFlow`, and that it
implements `OneShotApproval`, for any requests, sessions, any assignment of sessions
to locks and any bounds. `AInv` says that

- whatever names a run names one that has begun (`RunsHaveBegun`), and a run that has
  not loaded its history is known to nobody else (`BeginsAlone`);
- a thread between its lock and its release has the lock of its session
  (`HoldsItsLock`), which is `SessionsAreSerial`;
- while a graph runs, only another process has added to its session
  (`GraphKnowsTheChat`), from which the save by an unchanged length follows to be
  on the right history (`TurnsFollowTheirHistory`);
- a run goes on in one place at a time, in a thread or as a pending handle
  (`OneContinuation`), and that place has its latest revision (`RevisionsAdvance`): so
  no handle that can still be used was executed, and each step of a thread is a
  step of `OneShotApproval` or stutters.

The theorems are `TypeCorrect`, `SerialSessions`, `TurnsFollow`, `WritesKnow` (the
action property `WritesKnowTheChat`) and `HandlesAreOneShot`. `WritesKnow` has an
exemption: a resume is refused when anybody, another process included, has continued the chat
before the check, but what another process saves between the check and the write goes
unnoticed, since the lock of a session is the server's own (runtime.py:191). Against
turns of the same server the write is safe until it is executed.

`TraceStore_proofs` proves `TablesAlwaysAgree`, `AnswersAreAlwaysKept`,
`SnapshotsAlwaysAgree` and, as `TablesImplementTheHistory`, that the tables
implement `RunHistory`, for any runs, events and limits. The step that needs most is a
replayed snapshot that is older or newer than what is stored. `SInv` adds
that the snapshots of a run, in memory, spool and tables, are stages of
one history (`SnapshotsFollow`), that each return is answered once
(`OneAnswerPerReturn`), and that the events without observations are the first ones
of the stored ones (`UnobservedIsStored`), which is what the migration relies on.

`IndexRegistry_proofs` proves `TypeCorrect` unconditionally, and
`SnapshotsAreAlwaysCoherent`, `ReturnedIndexIsCurrent` and `MemoryAlwaysAdvances` under
`~Unreadable`: files that exist can be opened. Without that hypothesis the
statements are false, as `index_unreadable` shows. `RInv` contains
`KeysAreLocked`; `VersionsAreNew` (what makes two equal manifest entries mean one text);
for a call under way `ScansAreSeen`, `TextsAreRead` and `ScansMeet`: between the two
scans there was a moment with all of the first one before it and all of the second
one after it, and when they agree it is the moment at which the index is current
(`CandidatesAreCurrent`); and for what is stored `StoredAreSound` and
`EntriesAreOlder`: the entry of a key is at least as old as the call that looks
it up, so what replaces it is not older.

`ReadonlyGraph_proofs` proves all safety properties of `ReadonlyGraph` for any
`MaxSteps` above 0, from `NoneAssumption` besides. Its invariant `RInv` adds to the
properties what each node may rely on (`Routed`: the tool node has a last message
with exactly one known call, a fallback has an error or a message in which one can
be found), how model calls and supersteps are paid for (`Spent`), what the counters
and the failure flag say of the observations (`Evidence`), and which status goes
with which end (`Ended`). It needs one lemma per node, and two on what appending a
message does to the pairing of calls and results.

`LearningSession_proofs` proves `TypeOK`, `NeverStuck`, `ErrorsAreAboutLength` and
`ProgressIsKept` for any plans, lengths, limit and number of keys (`SizesAssumption`,
`NoneAssumption`). `NeverStuck` speaks
of the page's session only and is not inductive; `LInv` adds that every session
in the system, in the request, the answer or the page, is in reach of its end
(`Sound`: an unfinished session is at a step of its plan and `Fits`), what the place
of a request says of it (`Routed`) and what an answer may carry (`AnswerIsSound`).
`HeadroomIsEnough` is the arithmetic of it: if a session fits, so does what its
shortest next action makes of it. The other two need that the validators accept what
the handlers make: `VInv` says that every session that carries a key of the server is
`Valid` (`Trusted`), that a handler works on a session of the page in the phase of its
action (`Handled`), and that an answer brings the page its own session or one
that continues it (`Answered`). Each handler's result is shown `Valid` by a lemma of
its own (`OnlyLengthIsAnError`, `ProgressIsNeverLost`).

`Retrieval_proofs` (`CodeSearch`, `CallPath`, `EvidencePlan`, `CitedContext`) and `Components_proofs`
(the others) are about the components in `Components`, each of which has its
own invariant, defined in its module:

- `GuardInv` and `OutcomeInv` carry `HarnessesAreAlwaysHonest`, for pipes of any size, any
  limits and usage, and any patches, tasks and agents (`GuardAssumption`,
  `OutcomeAssumption`: a manifest has a task, and each task allows candidates to change its
  source, as `load_and_validate_patch_suite` demands). A task may allow its own test as well:
  for such a task the theorem says only that a failing test came to pass and that the files
  that are not allowed are the upstream ones; for the others, that the source is
  repaired and nothing broken.
- `PolicyInv` carries `PolicyAlwaysHolds`, for any policies, rules, commands and
  diffs (`SafetyAssumption`: no rule is empty, a block that deletes a file says
  that its new name is `/dev/null`).
- `MemoryInv` carries `MemoryStaysHonest`, for any number of processes.
- `CliInv` and `PageInv` carry `FrontEndsAreAlwaysHonest`, for any number of turns,
  writes, chats and questions.
- `CitationInv` and `CitedInv` carry `CitationsAreAlwaysShown`, for any files, edits,
  chunk sizes and limits (`EvidenceAssumption`, `ContextAssumption`: a text is a
  sequence of line lengths, a chunk is not empty and overlaps the next by less than its
  size). Its lemmas follow each text from the file to the model: a fragment has a line
  for each number of its range (`Fragment`) through search, re-reading and
  compaction, where the sum of what is kept never passes the limit (`Cost`); and of the
  other way, the recorded ranges name only lines that were shown (`Covers`) through
  stripping, cutting to whole lines and merging of overlapping chunks, and then row
  by row (`RowsRecorded`) and line by line (`LinesRecorded`), where a range may go on that an
  earlier call began: it grows by the line that is shown and by no other.
- `ArchiveInv` carries `ArchivesAreAlwaysKept`, half of `HistoryIsAlwaysKept`, for any
  number of files, records, imports, saves and page sizes. `ArchiveAssumption` is
  `IsSetting`: a legacy record, whose id is the hash of its content, is the same in
  every copy, and the snapshots of a run carry dates in the order of their revisions.
  That an import may be repeated needs `ProgressInv`: what the script has passed is
  settled, that is, saved, outdated or refused, and stays so whoever saves next
  (`Settled`). That a run is accepted needs `SourceInv` and has an exemption, which is part of
  the statement: a copy of the run that says nothing of its context and is imported when
  the run is not stored yet gives it the source `legacy_import`, and from then on the
  server's own snapshots of it are refused. That a legacy run keeps its date needs `DatesInv` (the row has the date
  of the first copy). That pages are complete needs `PagesInv`: what was shown is
  not behind the cursor and what has not changed is behind it or was shown; with it
  that the order of a page is total and transitive (`PageOrder`) and that asking for one
  row more than the limit finds the first rows of those that are left.
- `HistoryInv`, the other half, carries `HistoryIsAlwaysUnbroken`: the choice of the
  turns, step by step, leaves an unbroken end of the session and spends exactly the
  sizes of what it took.
- `WireInv` carries `SummaryAlwaysMatches`, for any number of threads and up to the
  five attempts that the policy allows: what each observation tells is what its
  call sent, and the sums over them are equal because the summands are.
- `PathInv` carries `TracesAreAlwaysComplete`, for any module, depth and limit. It is the
  invariant of a breadth-first search, and not obvious here because the code
  marks a function as visited when it is taken from the queue, so one may wait twice at
  different depths: there is an assignment of levels to the visited functions under
  which the queue is ordered (`Ordered`) and whatever a call that was read leads to
  is visited at its level or waits for it (`Covers`). When nothing waits, the least
  counterexample along a path of calls gives a contradiction (`PathsAreVisited`).

- `SearchInv` carries `SearchAlwaysKeepsTheBest`, for any index, scores, query and
  configuration (`SearchAssumption`: the index is a sequence, scores are naturals, bounds
  integers or none). It says only how far a search is and that each variable is what
  its stage computed; the work is in the lemmas on one search. A set that is sorted by a
  total order is listed once each (`SortedLists`), a cut list is a beginning of it
  (`FirstOfIs`), and taking the best of each file first is again a total order
  (`DiverseIsTotal`), that of the scores in which such a chunk has a bonus greater than
  all scores (`KeysFall`). A list whose members are, place by place, no
  worse than those of the whole ranking has the same scores, by a
  pigeonhole argument over the two (`Matching`, `SameScores`). The recall keeps every hit, because
  the default bound leaves room for the whole window of each (`HitsExpanded`, `DefaultIsWide`),
  so no hit is missing when the filter ranks again (`FilteredIs`, `HitsGoFirst`). With mentions, a swap
  gives the chunk that was asked for the place and the score of the chunk it displaces (`AlignedIs`);
  were it left out of the answer, something that is no hit would stand before it
  (`SomeIsNoHit`), and that can only be a chunk displaced in another file (`OnlyDisplaced`).

Sums and choices that the code makes in a loop are recursive functions over a prefix
(`Sum`, `Compaction`, `Rendered`, `Choices`, `Firsts`), and a lemma says what a step adds. Induction
itself is `StepByStep`: among the numbers up to a bound for which a statement about
the values of one function fails there is a least one, which the library's theorem on
well-founded orders gives without an operator as parameter.

Every safety invariant and action property of the passing runs is stated by a theorem. Only
model-checked: liveness (`EveryInvokeEnds`, `EveryRequestEnds`, `RunEnds`), which the prover
cannot reach. What `SumFunction` computes is not proved; where a proof needs it, it needs
only that equal summands have equal sums.

## Disagreements

- `page_claim`: the page prints `write_executed=yes` (src/frontend.py:1011), and
  the command line the like (src/main.py:235), for every resumed run, also when
  the approved write was refused; the state's `write_executed` knows better.
- `apply_timeout`: `git apply` that times out leaves what it wrote, although the
  helper for execution exceptions exists and `run_command` uses it
  (src/coding_rag/agent/executor.py:178, 223, 280).
- `index_unreadable`: a file that cannot be opened during a build is left out of
  the index but kept in its manifest, so the index is found again, by this and by
  other processes, until the file is edited; `get` promises a current index
  (src/coding_rag/repository/search_index.py:191, repository/files.py:65).

- `context_lines`: a chunk that ends in an empty line is one line shorter for
  `splitlines` than its `end_line` says; the next chunk that is merged into the block
  shifts, and a shown line has no recorded number (src/coding_rag/rag/prompt.py:400).
  `CitationsAreShown` holds all the same: what is accepted was shown, only
  less is accepted.

Met while modelling, without a run of their own; those that contradict a text are in
`PROJECT.json` (`findings`) with the quoted line:

- `IndexRegistry`: a file that appears after the first scan and is gone before the
  second one is in an index that is published with a manifest without it
  (search_index.py:382): no state of the tree between the scans has to equal that
  index. The copy on disk is refused when it is read back. `IndexIsCurrent` speaks
  of the listed files for this reason.
- `ClaudeGuard` states `TimeoutStopsTheChild`, which fails: the timeout starts to
  count when the child has closed its stdout (run_claude_guarded.py:211).
- `SafetyPolicy` states `ApprovedCallRuns`, which fails: the approval is for the model's
  own arguments, and the schema then strips or refuses them (executor.py:137).
  Nothing else runs in its place, which is what `GrantsBind` says.
- `CallPath` states `EdgesFollowScopes`, which fails: names bound by an enclosing
  function are not looked up (call_path.py:407).
- `OfflineAgent`: two agents that end together store one experience twice
  (memory.py:58); `RemembersOnce` excepts exactly that.
- `SafetyPolicy`: a patch that creates two files is refused as one that deletes them
  (safety.py:323).
- `TraceArchive`: a run whose copy without context is imported before its own first snapshot
  is stored is refused from then on (legacy.py:163, sqlite.py:277), which
  `RunsAreAccepted` excepts.
- `PatchOutcome`: a manifest may allow a task's test (patch_outcome.py:326 demands only that
  the source is allowed and that nothing is allowed and forbidden); a test that the
  candidate weakens then counts as solved. `Earned` says what is left in that case.
- `CitedContext`: a line that was recorded alone is not recorded again (runtime.py:609). When
  other ranges came in between, a later read of lines around it leaves ranges on both
  sides of it, and a citation of all these lines is refused, though one result showed
  them. Less is accepted than was shown, never more.
- `TraceArchive`: a text with U+2028 makes an archived JSONL file unreadable for the
  import (legacy.py:125); the properties except such files (`Splits`).
- `CommandLine`: `--trace-out` that cannot be written loses the answer and the snapshot
  id (main.py:117); `SnapshotsAreShown` excepts an uncaught exception.
- `BrowserPage`: an approved run that failed is shown as done, and in whatever view is
  open (frontend.py:800); the run button stays disabled when the view is switched
  during a rollback (frontend.py:834); a refused `sessionStorage` brings the old chat
  back on reload (frontend.py:724), which `ChatsAreSeparate` excepts (`talks.lost`).
- `CodeSearch`: a method that a query names can be missing from the answer when the query names
  methods in two files. A swap leaves the chunk it displaces its score (bm25.py:202), the recall brings that chunk
  back as a neighbour (recall.py:58), and where the method of the other file ties with a hit beside it, the displaced
  chunk can take its place (filter.py:78): with `top_k` 3 and a window of 1, the five chunks of the run with the scores 0, 0, 0, 2, 0
  and methods in the second chunk of `b` and the last of `a`. No document promises more than to use the hint inside the
  selected files (bm25.py:168); `MentionedMethodIsReturned` excepts exactly such chunks.
- A cited path is accepted when it is the end of an observed one
  (citation_validator.py:111), so that `CitationsAreShown` needs the condition under which
  it means one file.

## Not modelled

- The text of prompts, answers and traces; scores, tokenising and symbol extraction;
  the expansion of a search along edges; the parsing of malformed HTTP requests.
- The desktop window (`web_ui.py`): its worker threads are not ordered, so status and
  output of different runs may be shown together, and no document says what it
  should show.
- A browser tab that is duplicated, and takes a copy of `sessionStorage` with it.
- `planner.py` and `plan_reviewer.py`, which turn one text into another, and the other
  evaluation programs and scripts, which call the product once per case.
- Hazards that no property covers. Two sessions that write one file at once: no
  lock orders executors of different sessions (executor.py:215) and no document
  promises isolation; the properties except the rollbacks of writes that
  overlapped. A grandchild of a command that times out and goes on writing
  (executor.py:313). A spool file that breaks off in a crash (persistence.py:86) is
  the same to the model as a lost snapshot. A file that changes while size and mtime
  stay (search_index.py:202) is outside what the manifest promises (src/README.md:238).

## Plan

Done: `AgentGraph`, `WriteExecution`, `ApprovalFlow`, `TraceStore`, `IndexRegistry`,
`ReadonlyGraph`, `LearningSession`, in the order of how much the product relies on
them, then the other components; the proofs of every safety property of these seven
and of both refinements, and of the nine properties of `Components`.

## Running

    tlc -workers 2 -config MCAgentGraph.cfg MCAgentGraph
    tlapm Agent_proofs.tla

and the same for `ReadonlyGraph_proofs`, `LearningSession_proofs`,
`ApprovalFlow_proofs`, `TraceStore_proofs`, `IndexRegistry_proofs`, `Retrieval_proofs`
and `Components_proofs`, which takes longest.
