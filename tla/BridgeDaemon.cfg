SPECIFICATION FairSpec
CONSTANTS
    c1 = c1
    c2 = c2
    c3 = c3
    c4 = c4
    Calls = {c1, c2, c3, c4}
    Streamed = {c2, c3}
    Uploads = {c2, c3}
    Sockets = {c3}
    Proxied = {c4}
    Parts = 2
    MaxConcurrency = 1
    MaxAttempts = 2
    MaxChunks = 1
    MaxAuditFaults = 1
    MaxBodyErrors = 1
CONSTRAINT TwoCalls
INVARIANTS DaemonInv AnswersWellFormed BodyHasNoGap
PROPERTY CallsEnd
CHECK_DEADLOCK FALSE
