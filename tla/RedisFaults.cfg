SPECIFICATION Spec
CONSTANTS
    r1 = r1
    r2 = r2
    r3 = r3
    org = org
    user = user
    Requests <- MCRequests2
    Order <- MCOrder2
    Limit <- MCLimit
    Estimate <- MCEstimate2
    Actuals = {1, 3}
    RowsExist = TRUE
    Reconciler = {TRUE, FALSE}
    MaxFaults = 1
CHECK_DEADLOCK FALSE
INVARIANTS
    RedisInv
    MirrorLag
    AdmittedWithinLimit
