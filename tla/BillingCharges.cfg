CONSTANTS
    r1 = r1
    r2 = r2
    r3 = r3
    Requests <- MCThree
    PerCall = {r2}
    Playground = {r1}
    Forced = {r3}
    Preference <- MCPreference
    Quotas = {0, 2}
    Actuals = {0, 3}
    Wallets = {2, 4}
    Tokens = {4}
    AmountTotal = 2
    HardLimit = FALSE
    TokenUnlimited = FALSE
    TrustQuota = 2
    MaxAttempts = 3
    MaxPeriod = 2
    MaxFailures = 0
SPECIFICATION Spec
INVARIANTS
    ChargedOnce
    UsageSurvivesReset
CHECK_DEADLOCK FALSE
