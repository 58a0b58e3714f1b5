CONSTANTS
    None = None
    Backend = "memory"
    MediaKey <- ShowKeys
    Event <- ShowEvents
    DownloadID = {"d1", "d2", "d3"}
    DedupKey <- DedupKeys
    SpanId = {1, 2, 3, 4, 5, 6, 7, 8, 9, 10, 11, 12}
    dedupTTL = 1
    recallTTL = 2
    pendingDLTTL = 1
    maxTraceDuration = 1
    Lag = 0
    Skew = 0
    Horizon = 0
    MayRestart = FALSE
    MaxTime = 0
    MaxAttempt = 4
SPECIFICATION Spec
INVARIANTS
    IndexLeadsToLiveTrace
