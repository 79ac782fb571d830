\* The two proxies and the web terminal, with one failure.
SPECIFICATION FairSpec
CONSTANTS
    my1 = my1  my2 = my2  pg1 = pg1  pg2 = pg2
    x1 = x1  w1 = w1  w2 = w2  t1 = t1  t2 = t2
    MySQL <- MCMySQL
    Postgres <- MCPostgres
    Cancel <- MCCancel
    Web <- MCWeb
    UsqlOf <- MCUsqlOf
    CancelOf <- MCCancelOf
    TokenOf <- MCTokenOf
    Limit <- MCLimit
    MaxFailures = 1
CONSTRAINT Grouped
CHECK_DEADLOCK FALSE
INVARIANTS NothingLeft FinishedUnlessFailed AuditIsHonest
PROPERTY EndsReachTarget
