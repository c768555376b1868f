SPECIFICATION Spec
CONSTANTS
    t1 = t1
    t2 = t2
    t3 = t3
    w1 = w1
    w2 = w2
    Tasks = {t1}
    Workers = {w1}
    Video = {t1}
    Realtime = {t1}
    Orphaned = {}
    PerCall = {}
    Estimates = {2}
    Quotas = {2}
    Prices = {0}
    MaxFaults = 0
    MaxQueries = 1
INVARIANT NoDoubleRefund
