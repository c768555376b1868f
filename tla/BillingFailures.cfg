CONSTANTS
    r1 = r1
    r2 = r2
    r3 = r3
    Requests <- MCPair
    PerCall = {r2}
    Playground = {}
    Forced = {}
    Preference <- MCPreference
    Quotas = {1, 2}
    Actuals = {0, 1, 3}
    Wallets = {1, 5}
    Tokens = {3}
    AmountTotal = 3
    HardLimit = TRUE
    TokenUnlimited = TRUE
    TrustQuota = 0
    MaxAttempts = 3
    MaxPeriod = 1
    MaxFailures = 3
SPECIFICATION Spec
INVARIANTS
    NoGain
    RecordDecides
    HardLimitHolds
    SubscriptionWithinTotal
CHECK_DEADLOCK FALSE
