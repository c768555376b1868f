SPECIFICATION FairSpec
CONSTANTS
    r1 = r1
    r2 = r2
    Requests = {r1, r2}
    LongRequests = {r1}
    Durable = {r1}
    MaxConcurrent = 1
    Retried = {r1}
    MaxRetries = 1
    MaxFaults = 1
INVARIANTS
    QueueInv
    ReleasedMeansServed
    ReplayPerRetry
    PayloadKept
PROPERTIES
    WaitingEnds
    RowsEnd
CHECK_DEADLOCK FALSE
