\* Expected to fail: a query sent right after ReadyForQuery is flushed by it.
SPECIFICATION Spec
CONSTANTS
    NoText = NoText
    Prepared = prepared
    A = A
    B = B
    Names <- AllNames
    Portals <- TwoPortals
    Requests <- OneQuery
    Pipelining = FALSE
    MaxMessages = 2
    MaxUnderWay = 1
    MaxFailures = 0
INVARIANT FlushedHasEnded
CHECK_DEADLOCK FALSE
