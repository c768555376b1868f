SPECIFICATION FairSpec
CONSTANTS
    r1 = r1
    r2 = r2
    quota = quota
    watch = watch
    Requests <- MCRequests
    Policies <- MCPolicies
    Blocking <- MCBlocking
    MaxPeriod = 1
    LimitValues = {2, 3}
    Estimates <- MCEstimates
    Actuals <- MCActuals
    LongRequests = {r2}
    ReadErrors = TRUE
CHECK_DEADLOCK FALSE
INVARIANTS
    NoPhantomReservation
    OpenIsReserved
    QuotaBound
    UsedIsCharged
PROPERTIES
    EventsCloseOnce
    ReservationsReleased
