SPECIFICATION FairSpec
CONSTANTS
    t1 = t1
    t2 = t2
    t3 = t3
    w1 = w1
    w2 = w2
    Tasks = {t1, t2, t3}
    Workers = {w1, w2}
    Video = {t1, t3}
    Realtime = {t3}
    Orphaned = {t3}
    PerCall = {t3}
    Estimates = {1}
    Quotas = {2}
    Prices = {0, 3}
    MaxFaults = 2
    MaxQueries = 1
CONSTRAINT OneTask
INVARIANTS
    BilledOnce
    BilledExactly
    FailedTaskRefunded
PROPERTIES
    FinalStaysFinal
    
