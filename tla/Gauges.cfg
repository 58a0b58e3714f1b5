CONSTANTS
    None = None
    Backend = "memory"
    MediaKey <- FilmKeys
    Event <- FilmCycle
    DownloadID = {"d1", "d2"}
    DedupKey <- DedupKeys
    SpanId = {1, 2, 3, 4, 5, 6, 7}
    dedupTTL = 1
    recallTTL = 1
    pendingDLTTL = 1
    maxTraceDuration = 1
    Lag = 0
    Skew = 0
    Horizon = 1
    MayRestart = FALSE
    MaxTime = 1
    MaxAttempt = 3
SPECIFICATION MeteredSpec
INVARIANT InFlightByPhase
