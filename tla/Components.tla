----------------------------- MODULE Components -----------------------------
(***************************************************************************)
(* The components that stand on their own.  They do not interact with one  *)
(* another (with the graphs they do so by the values the other models      *)
(* leave open), so a behaviour is one of one of them: "part" says which,   *)
(* its variables are the first of the registers r1 to r14, and the         *)
(* registers it does not need stay None.  The constants of a component     *)
(* begin with its name here.                                               *)
(***************************************************************************)
EXTENDS Integers, Sequences, FiniteSets, Numbers

CONSTANT None

VARIABLES part, r1, r2, r3, r4, r5, r6, r7, r8, r9, r10, r11, r12, r13, r14

\* The registers from one on are unused.
Free14 == r14 = None
Free13 == r13 = None /\ Free14
Free12 == r12 = None /\ Free13
Free11 == r11 = None /\ Free12
Free10 == r10 = None /\ Free11
Free9 == r9 = None /\ Free10
Free8 == r8 = None /\ Free9
Free7 == r7 = None /\ Free8
Free6 == r6 = None /\ Free7

-----------------------------------------------------------------------------
\* LlmClient: threads that share one client.
CONSTANTS
    LlmThreads, LlmMaxAttempts, LlmLimit, LlmReplies, LlmMaxCalls

Llm == INSTANCE LlmClient WITH
    pc <- r1, calls <- r2, attempts <- r3, outcome <- r4, errorClass <- r5,
    pending <- r6, log <- r7, events <- r8, sent <- r9,
    Threads <- LlmThreads, MaxAttempts <- LlmMaxAttempts, Limit <- LlmLimit,
    Replies <- LlmReplies, MaxCalls <- LlmMaxCalls
\* LLMRetryPolicy allows 1 to 5 attempts; None is neither the class of
\* a failure nor an observation.
ASSUME LlmAssumption ==
    /\ LlmMaxAttempts \in 1 .. 5 /\ LlmReplies \subseteq Llm!AllReplies
    /\ None \notin Llm!AllReplies \cup {"invalid_json", "invalid_response"}
    /\ None \notin Llm!Observation
LlmRest == <<r10, r11, r12, r13, r14>>

-----------------------------------------------------------------------------
\* ClaudeGuard: a child, the wrapper that stops it, and two pipes.
CONSTANTS
    GuardCapacity, GuardReports, GuardMaxLines, GuardMaxTaskTokens,
    GuardMaxCacheMissTokens, GuardMinCacheInputTokens,
    GuardMaxCacheMissPercent

\* A limit is not negative; None is no reason to stop.
ASSUME GuardAssumption ==
    /\ GuardMaxTaskTokens \in Nat /\ GuardMaxCacheMissTokens \in Nat
    /\ None \notin {"task_tokens", "cache_miss_tokens", "cache_miss_ratio", "timeout"}

Guard == INSTANCE ClaudeGuard WITH
    child <- r1, open <- r2, stdout <- r3, stderr <- r4, written <- r5,
    wrapper <- r6, usage <- r7, stopped <- r8, guardLog <- r9, late <- r10,
    Capacity <- GuardCapacity, Reports <- GuardReports,
    MaxLines <- GuardMaxLines, MaxTaskTokens <- GuardMaxTaskTokens,
    MaxCacheMissTokens <- GuardMaxCacheMissTokens,
    MinCacheInputTokens <- GuardMinCacheInputTokens,
    MaxCacheMissPercent <- GuardMaxCacheMissPercent
GuardRest == <<r11, r12, r13, r14>>

-----------------------------------------------------------------------------
\* SafetyPolicy: decisions, and one write call on its way.
CONSTANTS
    SafetyDefaultAllowed, SafetyDefaultDenied, SafetyExecutingOptions,
    SafetyPayloads, SafetyCommands, SafetyDiffs, SafetyCalls

\* No rule is empty (DEFAULT_DENIED_COMMAND_PREFIXES); a block that deletes the
\* content of a file says that the new file is /dev/null; a call has the
\* arguments of run_command.
ASSUME SafetyAssumption ==
    /\ <<>> \notin SafetyDefaultDenied
    /\ \A diff \in SafetyDiffs :
         /\ IsFiniteSet(DOMAIN diff.blocks)
         /\ \A k \in DOMAIN diff.blocks : diff.blocks[k].deletes => diff.blocks[k].devNull
    /\ \A call \in SafetyCalls :
         DOMAIN call = {"undeclaredField", "blanks", "timeout", "cmd", "files"}

Safety == INSTANCE SafetyPolicy WITH
    payload <- r1, safeMode <- r2, stage <- r3, input <- r4, verdict <- r5,
    envelope <- r6,
    DefaultAllowed <- SafetyDefaultAllowed,
    DefaultDenied <- SafetyDefaultDenied,
    ExecutingOptions <- SafetyExecutingOptions, Payloads <- SafetyPayloads,
    Commands <- SafetyCommands, Diffs <- SafetyDiffs, Calls <- SafetyCalls
SafetyRest == <<r7, r8, r9, r10, r11, r12, r13, r14>>

-----------------------------------------------------------------------------
\* PatchOutcome: the invocations of a harness.
CONSTANTS
    OutcomeFiles, OutcomeSource, OutcomeTest, OutcomeAllows, OutcomePatches,
    OutcomeTasks, OutcomeMaxApprovals, OutcomeMaxRuns, OutcomeMaxSuites

\* A manifest has tasks, each of which allows candidates to change the source;
\* a patch leaves one of the contents that are told apart.
ASSUME OutcomeAssumption ==
    /\ IsFiniteSet(OutcomeFiles) /\ {OutcomeSource, OutcomeTest} \subseteq OutcomeFiles
    /\ OutcomeTasks \in Nat \ {0} /\ OutcomeMaxSuites \in Nat \ {0} /\ None # 0
    /\ OutcomeAllows \in [1 .. OutcomeMaxSuites ->
                            [1 .. OutcomeTasks -> {fs \in SUBSET OutcomeFiles : OutcomeSource \in fs}]]
    /\ \A patch \in OutcomePatches : \A f \in DOMAIN patch.edits :
         patch.edits[f] \in {"good", "fault", "repaired", "broken", "lenient"}

Outcome == INSTANCE PatchOutcome WITH
    phase <- r1, args <- r2, runs <- r3, suite <- r4, baseline <- r5,
    tree <- r6, faulty <- r7, pristine <- r8, applied <- r9, copy <- r10,
    approvals <- r11, answer <- r12, rows <- r13, exit <- r14,
    Files <- OutcomeFiles, Source <- OutcomeSource, Test <- OutcomeTest,
    Allows <- OutcomeAllows, Patches <- OutcomePatches,
    Tasks <- OutcomeTasks, MaxApprovals <- OutcomeMaxApprovals,
    MaxRuns <- OutcomeMaxRuns, MaxSuites <- OutcomeMaxSuites

-----------------------------------------------------------------------------
\* EvidencePlan: one planning of Learning Mode.
CONSTANTS
    EvidenceFiles, EvidenceTexts, EvidenceChunkSize, EvidenceOverlap,
    EvidenceTopK, EvidenceMaxContext, EvidenceOverhead, EvidenceReserve,
    EvidenceMaxEdits

\* A line has a length; the limits are those that LearningWorkflowConfig
\* accepts, and what a row costs is not negative.
ASSUME EvidenceAssumption ==
    /\ EvidenceTexts \subseteq Seq(Nat)
    /\ EvidenceChunkSize \in Nat \ {0} /\ EvidenceOverlap \in 0 .. EvidenceChunkSize - 1
    /\ EvidenceTopK \in Nat /\ EvidenceMaxContext \in Nat /\ EvidenceOverhead \in Nat

Evidence == INSTANCE EvidencePlan WITH
    pc <- r1, disk <- r2, edits <- r3, rows <- r4, observed <- r5,
    evidence <- r6, catalog <- r7, plan <- r8, error <- r9,
    Files <- EvidenceFiles, Texts <- EvidenceTexts,
    ChunkSize <- EvidenceChunkSize, Overlap <- EvidenceOverlap,
    TopK <- EvidenceTopK, MaxContext <- EvidenceMaxContext,
    Overhead <- EvidenceOverhead, Reserve <- EvidenceReserve,
    MaxEdits <- EvidenceMaxEdits
EvidenceRest == <<r10, r11, r12, r13, r14>>

-----------------------------------------------------------------------------
\* CodeSearch: one search.
CONSTANTS
    SearchChunks, SearchQueries

Search == INSTANCE CodeSearch WITH
    stage <- r1, query <- r2, scores <- r3, seeds <- r4, recalled <- r5,
    final <- r6,
    Chunks <- SearchChunks, Queries <- SearchQueries

\* The index is a sequence, and a query scores each of its chunks.
ASSUME SearchAssumption ==
  /\ None \notin Int
  /\ Len(SearchChunks) \in Nat /\ DOMAIN SearchChunks = 1 .. Len(SearchChunks)
  /\ \A q \in SearchQueries :
       /\ q.scores \in [DOMAIN SearchChunks -> Nat]
       /\ q.topK \in Int /\ q.window \in Int
       /\ q.candidateK \in Int \cup {None} /\ q.finalK \in Int \cup {None}
       /\ q.maxRecall \in Int \cup {None}
       /\ DOMAIN q.mentions \subseteq Nat

SearchRest == <<r7, r8, r9, r10, r11, r12, r13, r14>>

-----------------------------------------------------------------------------
\* CitedContext: the code a model is shown, and its citation.
CONSTANTS
    ContextSource, ContextCited, ContextChunkSize, ContextOverlap,
    ContextMaxChars, ContextOverhead, ContextMinText, ContextMarker,
    ContextMaxCalls, ContextMaxRows

\* A line has a length, and a chunk one line at least; so have the results and
\* their context; a citation is of numbered lines (citation_validator.py:15).
ASSUME ContextAssumption ==
    /\ \A path \in DOMAIN ContextSource : ContextSource[path] \in Seq(Nat)
    /\ ContextChunkSize \in Nat \ {0}
    /\ ContextMaxChars \in Nat /\ ContextOverhead \in Nat
    /\ \A c \in ContextCited : c.start \in Nat /\ c.end \in Nat

Context == INSTANCE CitedContext WITH
    via <- r1, calls <- r2, observed <- r3, seen <- r4, answer <- r5,
    Source <- ContextSource, Cited <- ContextCited,
    ChunkSize <- ContextChunkSize, Overlap <- ContextOverlap,
    MaxChars <- ContextMaxChars, Overhead <- ContextOverhead,
    MinText <- ContextMinText, Marker <- ContextMarker,
    MaxCalls <- ContextMaxCalls, MaxRows <- ContextMaxRows
ContextRest == <<r6, r7, r8, r9, r10, r11, r12, r13, r14>>

-----------------------------------------------------------------------------
\* CallPath: one trace of calls.
CONSTANTS
    TraceModules, TraceExports, TraceHere, TraceMaxLocalDepth, TraceMaxEdges,
    TraceSameClass

Trace == INSTANCE CallPath WITH
    module <- r1, request <- r2, pending <- r3, visited <- r4, current <- r5,
    edges <- r6, truncated <- r7, status <- r8,
    Modules <- TraceModules, Exports <- TraceExports, Here <- TraceHere,
    MaxLocalDepth <- TraceMaxLocalDepth, MaxEdges <- TraceMaxEdges,
    SameClass <- TraceSameClass
\* The bounds are those that trace accepts; names and calls are sequences; None
\* is no function that is read.
ASSUME TraceAssumption ==
    /\ TraceMaxLocalDepth \in Nat /\ TraceMaxEdges \in Nat \ {0}
    /\ \A m \in TraceModules : \A f \in DOMAIN m.functions :
         /\ Len(f) \in Nat /\ Len(m.functions[f].calls) \in Nat
         /\ DOMAIN m.functions[f].calls = 1 .. Len(m.functions[f].calls)
         /\ None \notin [name : DOMAIN m.functions, depth : Nat, next : Nat]
TraceRest == <<r9, r10, r11, r12, r13, r14>>

-----------------------------------------------------------------------------
\* OfflineAgent: processes on one memory file.
CONSTANTS
    OfflineRuns, OfflineTasks, OfflineHits, OfflineTorn

Offline == INSTANCE OfflineAgent WITH
    pc <- r1, config <- r2, files <- r3, checked <- r4, written <- r5,
    memory <- r6, log <- r7,
    Runs <- OfflineRuns, Tasks <- OfflineTasks, Hits <- OfflineHits,
    Torn <- OfflineTorn
\* A line that cannot be read is none of the records.
ASSUME OfflineAssumption == OfflineTorn \notin Offline!Records
OfflineRest == <<r8, r9, r10, r11, r12, r13, r14>>

-----------------------------------------------------------------------------
\* TraceArchive: files that are archived and imported, and imported again, and
\* pages of the history while a run is saved and files are imported.
CONSTANTS
    ArchiveRun, ArchiveIds, ArchivePaths, ArchiveSettings, ArchiveLimit,
    ArchiveMaxScripts

Archive == INSTANCE TraceArchive WITH
    schema <- r1, rows <- r2, archive <- r3, now <- r4, made <- r5,
    script <- r6, reader <- r7, fixed <- r8, quiet <- r9, busy <- r10,
    setting <- r11, Run <- ArchiveRun, Ids <- ArchiveIds, Paths <- ArchivePaths,
    Settings <- ArchiveSettings, Limit <- ArchiveLimit,
    MaxScripts <- ArchiveMaxScripts
\* The ids are in an order; a page has a run at least (sqlite.py:387); None is
\* no date and no cursor.
ASSUME ArchiveAssumption ==
    /\ ArchiveIds \in Seq(Archive!Ranked) /\ ArchiveRun \in Archive!Ranked
    /\ ArchiveLimit \in Nat \ {0}
    /\ None \notin Nat /\ None \notin Nat \X Archive!Ranked
    /\ \A s \in ArchiveSettings : Archive!IsSetting(s)
ArchiveRest == <<r12, r13, r14>>

-----------------------------------------------------------------------------
\* CommandLine: the turns of one program.
CONSTANTS
    CliSizes, CliMaxChars, CliMaxTurns, CliMaxWrites, CliMaxRuns

\* A turn has a size, and what fits of the history is not nothing.
ASSUME CliAssumption == CliSizes \subseteq Nat /\ CliMaxChars \in Nat \ {0}

Cli == INSTANCE CommandLine WITH
    mode <- r1, pc <- r2, turns <- r3, base <- r4, sent <- r5, run <- r6,
    writes <- r7, reported <- r8, printed <- r9, failed <- r10, runs <- r11,
    exit <- r12,
    Sizes <- CliSizes, MaxChars <- CliMaxChars, MaxTurns <- CliMaxTurns,
    MaxWrites <- CliMaxWrites, MaxRuns <- CliMaxRuns
CliRest == <<r13, r14>>

-----------------------------------------------------------------------------
\* BrowserPage: one tab.
CONSTANTS
    PageRepos, PageMaxIds, PageMaxQuestions

\* None is neither an id nor a request.
ASSUME PageAssumption ==
    None \notin Nat /\ None \notin [kind : {"run", "approve", "rollback", "learning"}]

Page == INSTANCE BrowserPage WITH
    mode <- r1, repo <- r2, chats <- r3, stored <- r4, flight <- r5,
    runDisabled <- r6, modeDisabled <- r7, shown <- r8, learning <- r9,
    lesson <- r10, ids <- r11, clicked <- r12, questions <- r13, talks <- r14,
    Repos <- PageRepos, MaxIds <- PageMaxIds, MaxQuestions <- PageMaxQuestions

-----------------------------------------------------------------------------
Init ==
  \/ part = "llm" /\ Llm!Init /\ Free10
  \/ part = "guard" /\ Guard!Init /\ Free11
  \/ part = "safety" /\ Safety!Init /\ Free7
  \/ part = "outcome" /\ Outcome!Init
  \/ part = "evidence" /\ Evidence!Init /\ Free10
  \/ part = "search" /\ Search!Init /\ Free7
  \/ part = "context" /\ Context!Init /\ Free6
  \/ part = "callpath" /\ Trace!Init /\ Free9
  \/ part = "offline" /\ Offline!Init /\ Free8
  \/ part = "archive" /\ Archive!Init /\ Free12
  \/ part = "cli" /\ Cli!Init /\ Free13
  \/ part = "page" /\ Page!Init

Next ==
  \/ part = "llm" /\ Llm!Next /\ UNCHANGED <<part, LlmRest>>
  \/ part = "guard" /\ Guard!Next /\ UNCHANGED <<part, GuardRest>>
  \/ part = "safety" /\ Safety!Next /\ UNCHANGED <<part, SafetyRest>>
  \/ part = "outcome" /\ Outcome!Next /\ UNCHANGED part
  \/ part = "evidence" /\ Evidence!Next /\ UNCHANGED <<part, EvidenceRest>>
  \/ part = "search" /\ Search!Next /\ UNCHANGED <<part, SearchRest>>
  \/ part = "context" /\ Context!Next /\ UNCHANGED <<part, ContextRest>>
  \/ part = "callpath" /\ Trace!Next /\ UNCHANGED <<part, TraceRest>>
  \/ part = "offline" /\ Offline!Next /\ UNCHANGED <<part, OfflineRest>>
  \/ part = "archive" /\ Archive!Next /\ UNCHANGED <<part, ArchiveRest>>
  \/ part = "cli" /\ Cli!Next /\ UNCHANGED <<part, CliRest>>
  \/ part = "page" /\ Page!Next /\ UNCHANGED part

vars == <<part, r1, r2, r3, r4, r5, r6, r7, r8, r9, r10, r11, r12, r13, r14>>

Spec == Init /\ [][Next]_vars

-----------------------------------------------------------------------------
\* The summary of a run counts exactly what its calls sent (llm_client.py:246).
SummaryMatchesWire == part = "llm" => Llm!SummaryMatchesWire

\* Denials outlast a project's policy; an approval is for one exact call
\* (safety.py:110, executor.py:137).
PolicyHolds == part = "safety" => Safety!PolicyHolds

\* The harnesses' verdicts can be relied on: the guard's exit, log and usage
\* agree and no child survives it (run_claude_guarded.py:147); scores and gates
\* of the patch harness rest on repairs (patch_outcome.py:684).
HarnessesAreHonest ==
  /\ part = "guard" => Guard!ExitIsExplained
  /\ part = "outcome" => Outcome!VerdictsAreEarned

\* A citation that is accepted, in a plan (learning/workflow.py:195) or in an
\* answer (citation_validator.py:91), means one file and lines that the model
\* was shown.
CitationsAreShown ==
  /\ part = "evidence" => Evidence!CitationsAreShown
  /\ part = "context" => Context!AcceptedLinesWereShown

\* search_code returns the best chunks and the methods asked for (ask.py:47).
SearchKeepsTheBest == part = "search" => Search!SearchKeepsTheBest

\* A trace of calls that is not called truncated is complete (call_path.py:333).
UntruncatedIsComplete == part = "callpath" => Trace!UntruncatedIsComplete

\* The agent's memory has an experience once, and the run log is true about it
\* (memory.py:57).
MemoryIsHonest == part = "offline" => Offline!MemoryIsHonest

\* Copies, imports, saves and pages of the trace history do not disturb each
\* other (legacy.py:117, sqlite.py:385); of a chat's history a model is sent
\* what fits, without a gap (conversation.py:79).
HistoryIsKept ==
  /\ part = "archive" => Archive!HistoryIsKept
  /\ part = "cli" => Cli!HistoryIsUnbroken

\* The command line shows every snapshot id, and its exit code is right
\* (main.py:94); the page keeps chats, approvals and views
\* apart (frontend.py:687).
FrontEndsAreHonest ==
  /\ part = "cli" => Cli!SnapshotsAreShown /\ Cli!ExitTellsFailures
  /\ part = "page" => Page!PageIsHonest
=============================================================================
