\* The proxy from its start to its end.
SPECIFICATION FairSpec
CONSTANTS
    w1 = w1  w2 = w2  n1 = n1
    Web <- MCWeb
    Native <- MCNative
    Limit = 1
CONSTRAINT Regimes
CHECK_DEADLOCK FALSE
INVARIANTS Settled OrphanNeedsRace
PROPERTY ComesDown
