\* Two workers on one user's tokens, row and MFA; or on native logins; or on the
\* host keys; or on the settings.
SPECIFICATION MCSpec
CONSTANTS
    u1 = u1  w1 = w1  w2 = w2
    s1 = s1  s2 = s2  c1 = c1  k1 = k1  k2 = k2  x1 = x1  x2 = x2
    NoRow = NoRow
    Nobody = Nobody
    Root = Root
    Users <- MCUsers
    Workers <- TwoWorkers
    MaxTokens = 2
    MaxLogins = 1
    MaxSetups = 2
    MaxPasswords = 1
    Assets <- TwoAssets
    Accounts <- OneAccount
    Passwords <- TwoPasswords
    AssetOf <- MCAssetOf
    MaxChanges = 3
    Algorithms <- TwoAlgorithms
    Proxies <- TwoProxies
    MaxKeyRequests = 4
    SettingKeys <- TwoSettings
    SecretKeys <- OneSecret
    TypedValues <- OneTyped
    MaxSettingRequests = 4
CONSTRAINT Regimes
SYMMETRY SymmetricWorkers
CHECK_DEADLOCK FALSE
INVARIANTS EndedIsOver MFAHolds NoTargetWhileDenied OneFingerprint
PROPERTIES OnlyOvertakenUndo ImplementsOneTime ValueKept
