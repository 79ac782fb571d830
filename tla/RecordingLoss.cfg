\* Expected to fail: a force-finish that read the row before the proxy stored
\* the recording path writes the old, empty path back.
SPECIFICATION Spec
CONSTANTS
    w1 = w1  w2 = w2
    Nobody = Nobody
    NoRow = NoRow
    Workers <- TwoWorkers
    Limit = 1
    MaxSessions = 1
    MaxTime = 0
    MaxFailures = 0
PROPERTY RecordingKept
