CONSTANTS
    None = None
    Backend = "bolt"
    MediaKey <- FilmKeys
    Event <- FilmCycle
    DownloadID = {"d1", "d2"}
    DedupKey <- DedupKeys
    SpanId = {1, 2, 3, 4, 5, 6, 7}
    dedupTTL = 1
    recallTTL = 2
    pendingDLTTL = 1
    maxTraceDuration = 1
    Lag = 0
    Skew = 0
    Horizon = 1
    MayRestart = TRUE
    MaxTime = 1
    MaxAttempt = 3
SPECIFICATION Spec
INVARIANTS
    ClosedTraceHasRoot
