CONSTANTS
    None = None
    Backend = "memory"
    MediaKey <- FilmKeys
    Event <- GrabAndImport
    DownloadID = {"d1", "d2"}
    DedupKey <- DedupKeys
    SpanId = {1, 2, 3, 4, 5, 6, 7}
    dedupTTL = 1
    recallTTL = 0
    pendingDLTTL = 1
    maxTraceDuration = 0
    Lag = 0
    Skew = 0
    Horizon = 1
    MayRestart = TRUE
    MaxTime = 1
    MaxAttempt = 2
    Status = {"downloading", "warning", "failed"}
    Stalled = {"warning", "failed"}
    pageSize = 2
SPECIFICATION FairPollerSpec
PROPERTIES
    RepeatsSuppressed
    StallsReported
