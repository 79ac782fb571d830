\* Two requests about two roles, failing statements and crashes.
SPECIFICATION FairSpec
CONSTANTS
    w1 = w1  w2 = w2  super = super  ops = ops  p1 = p1  p2 = p2
    Nobody = Nobody
    Workers <- TwoWorkers
    Names <- TwoNames
    DefaultNames <- OneDefault
    Super = super
    Perms <- TwoPerms
    Defaults <- SuperMay
    MaxRoles = 4
    MaxRequests = 2
    MaxFailures = 2
CONSTRAINTS Regimes FirstIsFirst
CHECK_DEADLOCK FALSE
INVARIANTS QuietIsSettled AdminIsSuper
PROPERTIES DoneOrUndone StartsAndEnds
