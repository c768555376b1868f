SPECIFICATION Spec
CONSTANTS
    r1 = r1
    r2 = r2
    r3 = r3
    org = org
    user = user
    Requests <- MCRequests2
    Order <- MCOrder1
    Limit <- MCLimit1
    Estimate <- MCEstimate2
    Actuals = {1}
    RowsExist = FALSE
    Reconciler = {TRUE}
    MaxFaults = 0
CHECK_DEADLOCK FALSE
INVARIANT ReservedReturnsToZero
