SPECIFICATION Spec
CONSTANTS
    None = None
    LlmThreads = {"t1", "t2"}
    LlmMaxAttempts = 3
    LlmLimit = 1
    LlmReplies <- MCLlmReplies
    LlmMaxCalls = 1
    GuardCapacity = 1
    GuardReports <- MCGuardReports
    GuardMaxLines = 2
    GuardMaxTaskTokens = 5
    GuardMaxCacheMissTokens = 2
    GuardMinCacheInputTokens = 3
    GuardMaxCacheMissPercent = 40
    SafetyDefaultAllowed <- MCSafetyDefaultAllowed
    SafetyDefaultDenied <- MCSafetyDefaultDenied
    SafetyExecutingOptions <- MCSafetyOptions
    SafetyPayloads <- MCSafetyPayloads
    SafetyCommands <- MCSafetyCommands
    SafetyDiffs <- MCSafetyDiffs
    SafetyCalls <- MCSafetyCalls
    OutcomeFiles = {"src", "help", "test"}
    OutcomeSource = "src"
    OutcomeTest = "test"
    OutcomeAllows <- MCOutcomeAllows
    OutcomePatches <- MCOutcomePatches
    OutcomeTasks = 2
    OutcomeMaxApprovals = 2
    OutcomeMaxRuns = 2
    OutcomeMaxSuites = 2
    EvidenceFiles = {"a", "b"}
    EvidenceTexts <- MCEvidenceTexts
    EvidenceChunkSize = 2
    EvidenceOverlap = 1
    EvidenceTopK = 2
    EvidenceMaxContext = 9
    EvidenceOverhead = 2
    EvidenceReserve = 3
    EvidenceMaxEdits = 1
    SearchChunks <- MCSearchChunks
    SearchQueries <- MCSearchQueries
    ContextSource <- MCContextSource
    ContextCited <- MCContextCited
    ContextChunkSize = 2
    ContextOverlap = 0
    ContextMaxChars = 9
    ContextOverhead = 2
    ContextMinText = 2
    ContextMarker = 1
    ContextMaxCalls = 2
    ContextMaxRows = 3
    TraceModules <- MCTraceModules
    TraceExports <- MCTraceExports
    TraceHere = "here"
    TraceMaxLocalDepth = 1
    TraceMaxEdges = 3
    TraceSameClass = TRUE
    OfflineRuns = {1, 2}
    OfflineTasks = {"t"}
    OfflineHits <- MCOfflineHits
    OfflineTorn = Torn
    ArchiveRun = "r"
    ArchiveIds <- MCArchiveIds
    ArchivePaths = {"q"}
    ArchiveSettings <- MCArchiveSettings
    ArchiveLimit = 1
    ArchiveMaxScripts = 2
    CliSizes = {1, 3}
    CliMaxChars = 4
    CliMaxTurns = 4
    CliMaxWrites = 2
    CliMaxRuns = 2
    PageRepos = {"a", "b"}
    PageMaxIds = 3
    PageMaxQuestions = 3
INVARIANTS
    SummaryMatchesWire
    PolicyHolds
    HarnessesAreHonest
    CitationsAreShown
    SearchKeepsTheBest
    UntruncatedIsComplete
    MemoryIsHonest
    HistoryIsKept
    FrontEndsAreHonest
CHECK_DEADLOCK FALSE
