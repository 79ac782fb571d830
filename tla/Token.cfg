\* Two workers race for one token; or one worker meets every request; or two
\* administrators edit assets, accounts and a permission.
SPECIFICATION MCSpec
CONSTANTS
    u1 = u1  s1 = s1  s2 = s2  a1 = a1
    t1 = t1  t2 = t2  w1 = w1  w2 = w2
    g1 = g1  n0 = n0  n1 = n1
    c1 = c1  c2 = c2  c3 = c3  p1 = p1
    NoRow = NoRow
    Users <- MCUsers
    Assets <- MCAssets
    Accounts <- MCAccounts
    AssetOf <- MCAssetOf
    Tokens <- MCTokens
    Workers <- MCWorkers
    Spellings <- MCSpellings
    TTL = 1
    MaxTime = 2
    MaxAdminOps = 2
    Groups <- MCGroups
    Nodes <- MCNodes
    NamedAccounts <- MCNamedAccounts
    Permissions <- MCPermissions
    MemberOf <- MCMemberOf
    Parent <- MCParent
    AccountAsset <- MCAccountAsset
    PermissionInputs <- MCInputs
    AssetInputs <- MCAssetInputs
    MaxEdits = 3
    LastDay = 1
CONSTRAINT Bounded
SYMMETRY Symmetric
INVARIANTS SpentIffServed NoGrantWhileDenied LinkedAsAsked
PROPERTIES ImplementsPromise GrantsGrowByEdit RevertNeedsOverlap
CHECK_DEADLOCK FALSE
