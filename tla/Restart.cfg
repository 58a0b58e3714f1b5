CONSTANTS
    None = None
    Backend = "bolt"
    MediaKey <- ShowKeys
    Event <- PackEvents
    DownloadID = {"d1"}
    DedupKey <- DedupKeys
    SpanId = {1, 2, 3, 4, 5, 6, 7, 8, 9, 10, 11, 12}
    dedupTTL = 1
    recallTTL = 2
    pendingDLTTL = 1
    maxTraceDuration = 0
    Lag = 0
    Skew = 0
    Horizon = 1
    MayRestart = TRUE
    MaxTime = 2
    MaxAttempt = 3
SPECIFICATION FairSpec
INVARIANTS
    ContextsMatchTraces
    HandlesAreOpen
    NoLeakedSpan
PROPERTIES
    ClosedAttemptsGrow
    ImplementsLifecycle
    OwnRootIsExported
    EveryTraceEnds
CHECK_DEADLOCK FALSE
