\* Two handlers and up to three sessions of either kind, a failure, a crash.
SPECIFICATION FairSpec
CONSTANTS
    w1 = w1  w2 = w2
    Nobody = Nobody
    NoRow = NoRow
    Workers <- TwoWorkers
    Limit = 2
    MaxSessions = 3
    MaxTime = 1
    MaxFailures = 1
CONSTRAINTS Regimes FirstIsFirst
INVARIANTS NativeLimit CompletedOnce EventsAreLogged
PROPERTIES FinishedForGood LossNeedsOverlap CleanupDrains
