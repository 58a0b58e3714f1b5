CONSTANTS
    None = None
    Backend = "memory"
    MediaKey <- FilmKeys
    Event <- FilmOrphan
    DownloadID = {"d1", "d2"}
    DedupKey <- DedupKeys
    SpanId = {1, 2, 3, 4, 5, 6, 7}
    dedupTTL = 1
    recallTTL = 1
    pendingDLTTL = 1
    maxTraceDuration = 1
    Lag = 0
    Skew = 1
    Horizon = 3
    MayRestart = FALSE
    MaxTime = 3
    MaxAttempt = 3
SPECIFICATION MeteredSpec
INVARIANTS
    RequestGaugeCoversTimed
    AttemptsAscend
    NoLeakedSpan
PROPERTIES
    ClosedAttemptsGrow
    ParkedLeavesForAReason
    TimingsPartBySweep
    RememberedForTTL
