CONSTANTS
    None = None
    Backend = "bolt"
    MediaKey <- PairKeys
    Event <- PairEvents
    DownloadID = {"d1"}
    DedupKey <- DedupKeys
    SpanId = {1, 2, 3, 4, 5, 6, 7, 8}
    dedupTTL = 2
    recallTTL = 0
    pendingDLTTL = 1
    maxTraceDuration = 0
    Lag = 0
    Skew = 0
    Horizon = 1
    MayRestart = TRUE
    MaxTime = 2
    MaxAttempt = 2
SPECIFICATION FairDurableSpec
INVARIANTS
    MemoryMirrorsFile
    LiveDownloadIndexed
PROPERTIES
    ImplementsDurableLifecycle
    AcceptedOnce
    StopLosesNothing
    TracesEndAfterCrashes
CHECK_DEADLOCK FALSE
